-------------------------------- MODULE Wal ---------------------------------
(***************************************************************************)
(* The write ahead log of a shard: a directory of segment files, one open  *)
(* for appending and the others closed, seen by the log (Wal, SerdeWal) and*)
(* by the shard's workers that use it.                                     *)
(*                                                                         *)
(* Data.  A segment file holds Cap entries of one size.  An entry is the   *)
(* number of the append that wrote it, and its checksum, which is chained, *)
(* is the number of the entry before it (0: the segment's seed).           *)
(*                                                                         *)
(* A call of the log changes what is in memory at once and leaves the      *)
(* changes of files it makes, in order, in `steps': the log is locked until*)
(* they are done, and a crash may happen between any two.  `page' is what  *)
(* the process, or the next process, sees of a file and `disk' what has    *)
(* been written back: a crash of the process keeps the pages, a loss of    *)
(* power keeps the disk and any of the pages.                              *)
(***************************************************************************)
EXTENDS Integers, Sequences, FiniteSets, SequencesExt

CONSTANTS
    File,           \* segment files (the directory never holds more)
    Cap,            \* entries in a segment file
    RetainClosed,   \* retain_closed
    Envs,           \* what may happen (env), and how many entries are appended
    Starts,         \* first index of the log: 0, or one recovered from a snapshot
    MaxCrashes      \* bound: crashes and power losses

ASSUME WalAssumption ==
    /\ IsFiniteSet(File) /\ File \subseteq Nat
    /\ Cap \in Nat \ {0} /\ RetainClosed \in Nat \ {0}
    /\ MaxCrashes \in Nat

VARIABLES
    \* files
    dir,            \* dir[f]: kind "none", "open" or "closed", and the number in the name
    page, disk,     \* page[f][i], disk[f][i]: an entry of segment file f
    unsynced,       \* closed files whose renaming is not on disk yet: name before
    ack_file,       \* ack_index of the first-index file, -1 without a file
    steps,          \* changes of files the running call has still to make
    \* Wal and SerdeWal
    state,          \* "up", "down", "failed" (the log cannot be opened)
    open,           \* open_segment
    closed,         \* closed_segments
    len,            \* len[f]: entries in the index of the segment
    off,            \* off[f]: flush_offset, in entries
    retiring,       \* Wal::flush: the flush thread of the segment closed last
    creating,       \* a thread of the segment creator is running
    first_index,    \* SerdeWal::first_index, -1 for None
    \* threads and workers
    jobs,           \* running flush threads: a range of a file
    fpc, joined,    \* flush worker: "idle", "join" or "segments"; the thread it joins
    applied,        \* operations below this index are applied to the segments
    captured,       \* ... captured by the flushers of the segments
    persisted,      \* ... in the segments' files and in the applied_seq file
    waiting,        \* indexes below it were flushed for an operation with wait = true
    \* ghost variables and bounds
    acked,          \* largest index passed to ack
    appends, crashes,
    env             \* which of power losses, truncation, ... happen (see Envs)

files == <<dir, page, disk, unsynced, ack_file>>
log   == <<open, closed, len, off, retiring, creating, first_index>>
users == <<jobs, fpc, joined, applied, captured, persisted, waiting>>
vars  == <<files, steps, state, log, users, acked, appends, crashes, env>>

-----------------------------------------------------------------------------

Least(a, b) == IF a < b THEN a ELSE b

Greatest(a, b) == IF a < b THEN b ELSE a

NoEntry == [id |-> 0, prev |-> 0]

Gone == [kind |-> "none", num |-> 0]

Blank == [i \in 1..Cap |-> NoEntry]

\* The checksum an entry at position i of the pages p is chained to.
Chain(p, i) == IF i = 1 THEN 0 ELSE p[i - 1].id

Valid(p, i) == p[i].id # 0 /\ p[i].prev = Chain(p, i)

\* Segment::open parses entries up to the first one whose checksum does not match.
Parse(p) ==
    CHOOSE n \in 0..Cap : /\ \A i \in 1..n : Valid(p, i)
                          /\ n < Cap => ~Valid(p, n + 1)

\* The files of a kind, ordered by the number in their name.
FilesOf(d, kind) ==
    LET fs == {f \in File : d[f].kind = kind}
    IN <<>> \o [i \in 1..Cardinality(fs) |->
                  CHOOSE f \in fs : Cardinality({g \in fs : d[g].num < d[f].num}) = i - 1]

\* Wal::with_options: closed segments must follow one another.
Contiguous(d, p) ==
    LET c == FilesOf(d, "closed")
    IN \A i \in 1..(Len(c) - 1) : d[c[i + 1]].num = d[c[i]].num + Parse(p[c[i]])

\* Position among the open segments, ordered by id, of the one to append to: the
\* last one that has entries, or the first one.
OpenPosition(d, p) ==
    LET s  == FilesOf(d, "open")
        ne == {i \in 1..Len(s) : Parse(p[s[i]]) > 0}
    IN IF ne = {} THEN 1 ELSE CHOOSE i \in ne : \A j \in ne : j <= i

\* Open segments before it are closed: those with entries, and the first one.
Stranded(d, p) ==
    LET s == FilesOf(d, "open")
        k == SelectSeq([i \in 1..(OpenPosition(d, p) - 1) |-> i],
                       LAMBDA i : i = 1 \/ Parse(p[s[i]]) > 0)
    IN [i \in 1..Len(k) |-> s[k[i]]]

OpenFile(d, p) == FilesOf(d, "open")[OpenPosition(d, p)]

Entries(p) == [i \in 1..Parse(p) |-> p[i].id]

EntriesOfAll(p, fs) ==
    LET upTo[i \in 0..Len(fs)] == IF i = 0 THEN <<>> ELSE upTo[i - 1] \o Entries(p[fs[i]])
    IN upTo[Len(fs)]

\* The log the directory d with the pages p is opened as.
FirstOf(d, p) ==
    LET c == FilesOf(d, "closed") IN IF c = <<>> THEN 0 ELSE d[c[1]].num

RecordsOf(d, p) ==
    EntriesOfAll(p, FilesOf(d, "closed") \o Stranded(d, p) \o <<OpenFile(d, p)>>)

\* closed_segments after opening: the stranded ones get the next indexes.
ClosedOf(d, p) ==
    LET c == FilesOf(d, "closed")
        s == Stranded(d, p)
        after(i) == FirstOf(d, p) + Len(EntriesOfAll(p, c \o SubSeq(s, 1, i - 1)))
    IN [i \in 1..Len(c) |-> [start |-> d[c[i]].num, file |-> c[i]]]
       \o [i \in 1..Len(s) |-> [start |-> after(i), file |-> s[i]]]

\* Wal::open_segment_start_index, first_index, last_index and the index after it.
OpenStart == IF closed = <<>> THEN 0 ELSE Last(closed).start + len[Last(closed).file]

WalFirst == IF closed = <<>> THEN 0 ELSE closed[1].start

WalEnd == OpenStart + len[open]

LastIndexOf(first, end) == IF end > first THEN end - 1 ELSE first

WalLast == LastIndexOf(WalFirst, WalEnd)

\* SerdeWal::first_index
FirstIndex == IF first_index < 0 THEN WalFirst ELSE first_index

Idle == state = "up" /\ steps = <<>>    \* the lock of the log can be taken

-----------------------------------------------------------------------------

Init ==
    /\ env \in Envs
    /\ \E f, g \in File, s \in Starts :
          /\ g # f /\ \A h \in File : f <= h /\ (h # f => g <= h)
          /\ open = f
          /\ closed = IF s = 0 THEN <<>> ELSE <<[start |-> s, file |-> g]>>
          /\ dir = [h \in File |-> IF h = f THEN [kind |-> "open", num |-> 1]
                                  ELSE IF h = g /\ s > 0 THEN [kind |-> "closed", num |-> s]
                                  ELSE Gone]
          /\ applied = s /\ captured = s /\ persisted = s /\ waiting = s
          /\ acked = s
    /\ page = [f \in File |-> Blank] /\ disk = page
    /\ unsynced = {} /\ ack_file = -1 /\ steps = <<>> /\ state = "up"
    /\ len = [f \in File |-> 0] /\ off = len
    /\ retiring = {} /\ creating = TRUE /\ first_index = -1
    /\ jobs = {} /\ fpc = "idle" /\ joined = {}
    /\ appends = 0 /\ crashes = 0

\* Changes of files.
WriteStep(f, i)   == [do |-> "write", file |-> f, from |-> i, to |-> i]
ZeroStep(f, i)    == [do |-> "zero", file |-> f, from |-> i, to |-> Cap]
DeleteStep(f)     == [do |-> "delete", file |-> f, from |-> 0, to |-> 0]
RenameStep(f, s)  == [do |-> "rename", file |-> f, from |-> s, to |-> s]
FlushStep(f, i, j) == [do |-> "flush", file |-> f, from |-> i, to |-> j]
SaveStep(i)       == [do |-> "save", file |-> 0, from |-> i, to |-> i]

\* Mutant: the last segment stays in the directory.
DeleteButLast(c) == [i \in 1..(Len(c) - 1) |-> DeleteStep(c[i].file)]

DeleteAll(c) == [i \in 1..Len(c) |-> DeleteStep(c[i].file)]

\* Segment::flush: the entries between the flush offset o and the length n.
\* (Flushes are followed only where power may be lost.)
FlushSteps(f, o, n) == IF env.power /\ o < n THEN <<FlushStep(f, o + 1, n)>> ELSE <<>>

\* Mutant: the first entry of the range is left out.
FlushJobShort(f) ==
    IF env.power /\ off[f] < len[f] THEN {[file |-> f, from |-> off[f] + 2, to |-> len[f]]} ELSE {}

\* Segment::flush_async: the range is left to a thread.
FlushJob(f) ==
    IF env.power /\ off[f] < len[f] THEN {[file |-> f, from |-> off[f] + 1, to |-> len[f]]} ELSE {}

\* Segment::append, whose last write is the checksum.
Written(f, i) == [page EXCEPT ![f][i] = [id |-> appends + 1, prev |-> Chain(page[f], i)]]

\* Mutant: the segment's capacity is not looked at.
AppendOverfull ==
    /\ Idle /\ appends < env.appends
    /\ len' = [len EXCEPT ![open] = @ + 1]
    /\ page' = Written(open, Least(len[open] + 1, Cap))
    /\ appends' = appends + 1
    /\ UNCHANGED <<dir, disk, unsynced, ack_file, steps, state, open, closed, off, retiring, creating,
                   first_index, users, acked, crashes, env>>

\* Wal::append into the open segment.
AppendEntry ==
    /\ Idle /\ appends < env.appends
    /\ len[open] < Cap
    /\ len' = [len EXCEPT ![open] = @ + 1]
    /\ page' = Written(open, len[open] + 1)
    /\ appends' = appends + 1
    /\ UNCHANGED <<dir, disk, unsynced, ack_file, steps, state, open, closed, off, retiring, creating,
                   first_index, users, acked, crashes, env>>

\* Wal::append when the open segment is full: retire_open_segment takes the next
\* segment of the creator, waits for the flush of the segment retired before,
\* starts the flush of this one, deletes an empty closed segment and closes this
\* one.
AppendRetiring ==
    /\ Idle /\ appends < env.appends
    /\ len[open] = Cap
    /\ ~creating
    /\ retiring \cap jobs = {}
    /\ LET next  == FilesOf(dir, "open")[2]
           empty == closed # <<>> /\ len[Last(closed).file] = 0
       IN /\ open' = next
          /\ len' = [len EXCEPT ![next] = 1]
          /\ closed' = (IF empty THEN Front(closed) ELSE closed)
                         \o <<[start |-> OpenStart, file |-> open]>>
          /\ steps' = (IF empty THEN <<DeleteStep(Last(closed).file)>> ELSE <<>>)
                        \o <<RenameStep(open, OpenStart), WriteStep(next, 1)>>
    /\ off' = [off EXCEPT ![open] = len[open]]
    /\ retiring' = FlushJob(open)
    /\ jobs' = jobs \cup FlushJob(open)
    /\ creating' = TRUE
    /\ UNCHANGED <<files, state, first_index, fpc, joined, applied, captured,
                   persisted, waiting, acked, appends, crashes, env>>

\* create_segments: the thread creates the next segment and syncs the directory.
CreateSegment ==
    /\ state = "up" /\ creating
    /\ LET nums == {dir[f].num : f \in {g \in File : dir[g].kind = "open"}}
       IN \E f \in File :
             /\ dir[f] = Gone /\ \A g \in File : dir[g] = Gone => f <= g
             /\ \E n \in nums : /\ \A m \in nums : m <= n
                                 /\ dir' = [dir EXCEPT ![f] = [kind |-> "open", num |-> n + 1]]
             /\ len' = [len EXCEPT ![f] = 0]
             /\ off' = [off EXCEPT ![f] = 0]
    /\ unsynced' = {}
    /\ creating' = FALSE
    /\ UNCHANGED <<page, disk, ack_file, steps, state, open, closed, retiring,
                   first_index, users, acked, appends, crashes, env>>

\* The next change of a file of the running call.
Step(do) ==
    /\ state = "up" /\ steps # <<>> /\ Head(steps).do = do
    /\ steps' = Tail(steps)
    /\ UNCHANGED <<state, open, closed, len, retiring, creating, first_index, fpc, joined,
                   applied, captured, persisted, waiting, acked, crashes, env>>

\* The entry is written to the new segment.
DoWrite ==
    /\ Step("write")
    /\ page' = Written(Head(steps).file, Head(steps).from)
    /\ appends' = appends + 1
    /\ UNCHANGED <<dir, disk, unsynced, ack_file, off, jobs>>

\* Segment::truncate overwrites the entries with zeros.
DoZero ==
    /\ Step("zero")
    /\ LET f == Head(steps).file
       IN page' = [page EXCEPT ![f] =
                      [i \in 1..Cap |-> IF i < Head(steps).from THEN @[i] ELSE NoEntry]]
    /\ UNCHANGED <<dir, disk, unsynced, ack_file, off, jobs, appends>>

\* Segment::delete.  Changes of the directory reach the disk in order.
DoDelete ==
    /\ Step("delete")
    /\ LET f == Head(steps).file
       IN /\ dir' = [dir EXCEPT ![f] = Gone]
          /\ page' = [page EXCEPT ![f] = Blank]
          /\ disk' = [disk EXCEPT ![f] = Blank]
          /\ jobs' = {j \in jobs : j.file # f}
          /\ unsynced' = {}
    /\ UNCHANGED <<ack_file, off, appends>>

\* Segment::rename: open-<id> becomes closed-<start>.
DoRename ==
    /\ Step("rename")
    /\ LET f == Head(steps).file
       IN /\ dir' = [dir EXCEPT ![f] = [kind |-> "closed", num |-> Head(steps).from]]
          /\ unsynced' = IF env.power THEN unsynced \cup {[file |-> f, name |-> dir[f]]}
                                      ELSE unsynced
    /\ UNCHANGED <<page, disk, ack_file, off, jobs, appends>>

\* The pages of a range of a file are written to disk.
Synced(f, from, to) ==
    disk' = [disk EXCEPT ![f] =
                [i \in 1..Cap |-> IF i \in from..to THEN page[f][i] ELSE @[i]]]

DoFlush ==
    /\ Step("flush")
    /\ Synced(Head(steps).file, Head(steps).from, Head(steps).to)
    /\ off' = [off EXCEPT ![Head(steps).file] = Head(steps).to]
    /\ UNCHANGED <<dir, page, unsynced, ack_file, jobs, appends>>

\* SerdeWal::flush_first_index
DoSave ==
    /\ Step("save")
    /\ ack_file' = Head(steps).from
    /\ UNCHANGED <<dir, page, disk, unsynced, off, jobs, appends>>

\* A flush thread ends.
FlushThread(j) ==
    /\ j \in jobs
    /\ Synced(j.file, j.from, j.to)
    /\ jobs' = jobs \ {j}
    /\ UNCHANGED <<dir, page, unsynced, ack_file, steps, state, log, fpc, joined,
                   applied, captured, persisted, waiting, acked, appends, crashes, env>>

\* truncate_unapplied_wal, with the workers stopped: the operations that were
\* not applied are dropped (Wal::truncate) and the open segment is flushed.
TruncateUnapplied ==
    /\ Idle /\ env.truncate
    /\ fpc = "idle" /\ waiting <= applied
    /\ applied < WalEnd
    /\ LET from == applied
           k    == CHOOSE i \in 1..Len(closed) :
                      closed[i].start <= from /\ from < closed[i].start + len[closed[i].file]
           c    == closed[k]
           keep == from - c.start
           n    == from - OpenStart
       IN \/ /\ from >= OpenStart
             /\ len' = [len EXCEPT ![open] = n]
             /\ off' = [off EXCEPT ![open] = Least(@, n)]
             /\ steps' = <<ZeroStep(open, n + 1)>> \o FlushSteps(open, off[open], n)
             /\ UNCHANGED closed
          \/ /\ from < OpenStart
             /\ env.span \/ k = Len(closed)
             /\ keep = 0
             /\ len' = [len EXCEPT ![open] = 0]
             /\ off' = [off EXCEPT ![open] = 0]
             /\ closed' = SubSeq(closed, 1, k - 1)
             /\ steps' = <<ZeroStep(open, 1)>> \o DeleteAll(SubSeq(closed, k, Len(closed)))
          \/ /\ from < OpenStart
             /\ env.span \/ k = Len(closed)
             /\ keep > 0
             /\ len' = [len EXCEPT ![open] = 0, ![c.file] = keep]
             /\ off' = [off EXCEPT ![open] = 0, ![c.file] = Least(@, keep)]
             /\ closed' = SubSeq(closed, 1, k)
             /\ steps' = <<ZeroStep(open, 1), ZeroStep(c.file, keep + 1)>>
                           \o FlushSteps(c.file, off[c.file], keep)
                           \o DeleteAll(SubSeq(closed, k + 1, Len(closed)))
    /\ UNCHANGED <<files, state, open, retiring, creating, first_index, users,
                   acked, appends, crashes, env>>

\* The update worker flushes the log before an operation with wait = true.
FlushForWait ==
    /\ Idle /\ ~env.nowait
    /\ waiting <= applied /\ applied < WalEnd
    /\ steps' = FlushSteps(open, off[open], len[open])
    /\ waiting' = applied + 1
    /\ UNCHANGED <<files, state, log, jobs, fpc, joined, applied, captured, persisted, acked, appends,
                   crashes, env>>

\* Mutant: an operation with wait = true is applied before the log is flushed.
ApplyUnflushed ==
    /\ Idle
    /\ applied < WalEnd
    /\ applied' = applied + 1
    /\ UNCHANGED <<files, steps, state, log, jobs, fpc, joined, captured, persisted,
                   waiting, acked, appends, crashes, env>>

\* The update worker applies the next operation.
Apply ==
    /\ Idle
    /\ applied < WalEnd
    /\ env.nowait \/ waiting > applied
    /\ applied' = applied + 1
    /\ UNCHANGED <<files, steps, state, log, jobs, fpc, joined, captured, persisted,
                   waiting, acked, appends, crashes, env>>

\* flush_worker_internal starts an asynchronous flush of the log ...
FlushAsync ==
    /\ Idle /\ fpc = "idle"
    /\ jobs' = jobs \cup FlushJob(open)
    /\ joined' = FlushJob(open)
    /\ off' = [off EXCEPT ![open] = len[open]]
    /\ fpc' = "join"
    /\ UNCHANGED <<files, steps, state, open, closed, len, retiring, creating,
                   first_index, applied, captured, persisted, waiting, acked,
                   appends, crashes, env>>

\* ... joins it and starts to flush the segments ...
FlushSegments ==
    /\ state = "up" /\ fpc = "join"
    /\ joined \cap jobs = {}
    /\ captured' = applied
    /\ joined' = {}
    /\ fpc' = "ack"
    /\ UNCHANGED <<files, steps, state, log, jobs, applied, persisted, waiting,
                   acked, appends, crashes, env>>

\* The thread that flushes the segments ends.
PersistSegments ==
    /\ state = "up"
    /\ captured > persisted
    /\ persisted' = captured
    /\ UNCHANGED <<files, steps, state, log, jobs, fpc, joined, applied, captured,
                   waiting, acked, appends, crashes, env>>

\* Mutant: the segment that holds index `until' is deleted too.
PrefixThrough(until) ==
    LET k == CHOOSE i \in 1..Len(closed) :
                closed[i].start <= until /\ until < closed[i].start + len[closed[i].file]
    IN IF until <= WalFirst THEN 0
       ELSE IF until >= OpenStart THEN Len(closed)
       ELSE k

\* Wal::prefix_truncate(until): the number of closed segments it deletes.
PrefixLength(until) ==
    LET retain == Greatest(0, Len(closed) - RetainClosed)
        k == CHOOSE i \in 1..Len(closed) :
                closed[i].start <= until /\ until < closed[i].start + len[closed[i].file]
    IN IF until <= WalFirst THEN 0
       ELSE IF until >= OpenStart THEN retain
       ELSE Least(k - 1, retain)

\* ... and acknowledges what the segments had persisted (SerdeWal::ack).
Ack ==
    /\ Idle /\ fpc = "ack"
    /\ fpc' = "idle"
    /\ LET until == Greatest(persisted - 1, 0)
           n     == PrefixLength(until)
           rest  == SubSeq(closed, n + 1, Len(closed))
           first == IF rest = <<>> THEN 0 ELSE rest[1].start
           new   == Least(Greatest(until, IF first_index < 0 THEN first ELSE first_index),
                          LastIndexOf(first, WalEnd))
       IN /\ closed' = rest
          /\ steps' = DeleteAll(SubSeq(closed, 1, n))
                        \o (IF new = first_index THEN <<>> ELSE <<SaveStep(new)>>)
          /\ first_index' = new
          /\ acked' = Greatest(acked, until)
    /\ UNCHANGED <<files, state, open, len, off, retiring, creating, jobs, joined,
                   applied, captured, persisted, waiting, appends, crashes, env>>

\* The next process opens the log, with the directory d and the pages p, and replays it.
Restart(d, p) ==
    /\ unsynced' = {} /\ jobs' = {} /\ joined' = {} /\ retiring' = {} /\ fpc' = "idle"
    /\ crashes < MaxCrashes /\ crashes' = crashes + 1
    /\ IF Contiguous(d, p)
       THEN LET c   == ClosedOf(d, p)
                s   == Stranded(d, p)
                n   == Len(c) - Len(s)
                end == FirstOf(d, p) + Len(RecordsOf(d, p))
            IN /\ state' = "up"
               /\ open' = OpenFile(d, p)
               /\ closed' = c
               /\ steps' = [i \in 1..Len(s) |-> RenameStep(s[i], c[n + i].start)]
               /\ len' = [f \in File |-> Parse(p[f])]
               /\ creating' = (OpenPosition(d, p) = Len(FilesOf(d, "open")))
               /\ first_index' =
                     IF ack_file < 0 THEN ack_file
                     ELSE Least(Greatest(ack_file, FirstOf(d, p)),
                                LastIndexOf(FirstOf(d, p), end))
               /\ applied' = end /\ captured' = persisted /\ waiting' = end
       ELSE /\ state' = "failed" /\ steps' = <<>>
            /\ UNCHANGED <<open, closed, len, creating, first_index, applied, captured,
                           waiting>>
    /\ off' = len'
    /\ UNCHANGED <<ack_file, persisted, acked, appends, env>>

\* The process crashes: the files are what it left in them.
Crash ==
    /\ state = "up" /\ ~env.power
    /\ UNCHANGED <<dir, page, disk>>
    /\ Restart(dir, page)

\* Power is lost: any of the pages that were not flushed, and the last of the
\* names that were not synced, are not on disk.
PowerLoss ==
    /\ state = "up" /\ env.power
    /\ env.busy \/ jobs = {}
    /\ LET dirty == {e \in File \X (1..Cap) : page[e[1]][e[2]] # disk[e[1]][e[2]]}
       IN \E lost \in SUBSET dirty, undone \in SUBSET unsynced :
             /\ \A u \in undone : \A v \in unsynced \ undone : dir[v.file].num < dir[u.file].num
             /\ dir' = [f \in File |-> IF \E u \in undone : u.file = f
                                      THEN (CHOOSE u \in undone : u.file = f).name
                                      ELSE dir[f]]
             /\ page' = [f \in File |-> [i \in 1..Cap |->
                            IF <<f, i>> \in lost THEN disk[f][i] ELSE page[f][i]]]
    /\ disk' = page'
    /\ \E d \in {dir'}, p \in {page'} : Restart(d, p)

Next ==
    \/ AppendEntry \/ AppendRetiring \/ CreateSegment
    \/ DoWrite \/ DoZero \/ DoDelete \/ DoRename \/ DoFlush \/ DoSave
    \/ \E j \in jobs : FlushThread(j)
    \/ TruncateUnapplied \/ FlushForWait \/ Apply
    \/ FlushAsync \/ FlushSegments \/ PersistSegments \/ Ack
    \/ Crash \/ PowerLoss

Spec == Init /\ [][Next]_vars

-----------------------------------------------------------------------------

\* Type invariant.
TypeOK ==
    /\ \A f \in File : dir[f].kind \in {"none", "open", "closed"} /\ dir[f].num \in Nat
    /\ state \in {"up", "failed"} /\ fpc \in {"idle", "join", "ack"}
    /\ open \in File /\ \A i \in 1..Len(closed) : closed[i].file \in File
    /\ len \in [File -> 0..Cap] /\ off \in [File -> 0..Cap]
    /\ ack_file \in Int /\ first_index \in Int
    /\ {applied, captured, persisted, waiting, acked} \subseteq Nat

=============================================================================
