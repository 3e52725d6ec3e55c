------------------------------ MODULE Gridstore ------------------------------
(***************************************************************************)
(* Gridstore (lib/gridstore): values in blocks of pages, a tracker with    *)
(* the pointer of each point, and a bitmask of used blocks.  Pointers that *)
(* are set or unset stay in memory until a flusher, captured by one thread *)
(* and run by another while values are put and deleted, has synced the     *)
(* bitmask and the pages, written and synced the tracker, and freed the    *)
(* blocks of the pointers that were replaced.                              *)
(*                                                                         *)
(* Pages, bitmask, gaps and tracker are memory mapped files.  What is      *)
(* written reaches the disk when it is synced, or at any time before: for  *)
(* every block, bit, region and point, disk_... is the set of the values   *)
(* that it may have on the disk.  A process that dies keeps what it wrote; *)
(* a loss of power leaves any combination of these values.                 *)
(*                                                                         *)
(* A value is the number of the change that put it, and takes a number of  *)
(* blocks; blocks are numbered over all pages, as a value may begin in one *)
(* page and end in another.  Flushers are captured one after the other     *)
(* since the flush of a segment's components holds a lock.                 *)
(***************************************************************************)
EXTENDS GridstoreBitmask

CONSTANTS
    Point,
    Envs    \* the cases that are looked at: bounds on pages, sizes, changes, flushers,
            \* failures, crashes and clears, the sets of blocks that may be in use at the
            \* start, and whether power may be lost and the case of Delete occurs

ASSUME EnvsAssumption ==
    \A e \in Envs :
        /\ {e.changes, e.pages, e.flushes, e.fails, e.crashes, e.clears} \subseteq Nat
        /\ e.pages > 0 /\ e.sizes \subseteq Nat \ {0}
        /\ e.used \subseteq SUBSET (0..(PageBlocks - 1))
        /\ {e.power, e.forget} \subseteq BOOLEAN

VARIABLES
    env,
    change,           \* number of the last put or delete of any point
    latest,           \* for each point the number of its last change
    durable,          \* for each point the change that the last flush promised
    num_pages,        \* pages that are attached
    pages,            \* for each block the value in it
    bits,             \* blocks that are marked used
    gaps,             \* gaps of the regions the bitmask covers
    tracker,          \* for each point the pointer in the tracker's file
    pending_updates,  \* for each point what is not flushed
    put,              \* the put that is under way
    flush,            \* the flusher that is captured or runs
    disk_pages, disk_bits, disk_gaps, disk_tracker,
    left              \* how many crashes, failures and flushers are still to come

counters == <<env, change, latest, durable>>
store == <<num_pages, pages, bits, gaps, tracker, pending_updates>>
disk == <<disk_pages, disk_bits, disk_gaps, disk_tracker>>
vars == <<counters, store, disk, put, flush, left>>

Block == 0..(env.pages * PageBlocks - 1)

NoPtr == [at |-> None, n |-> 0]

\* The blocks of a value that begins at a block.
Blocks(ptr) == ptr.at..(ptr.at + ptr.n - 1)

BlocksOf(ptrs) == UNION {Blocks(ptr) : ptr \in ptrs}

\* A pointer together with the change that set it.
Entry(ptr, n) == [ptr |-> ptr, change |-> n]

NoUpdate == [current |-> NoPtr, to_free |-> {}, change |-> 0]

NoPut == [step |-> "none"]

NoFlush == [step |-> "none"]

\* The bit of a block, in a bitmask with given blocks used.
Bit(b, used) == IF b \in used THEN 1 ELSE 0

NumRegions(n) == (n * PageBlocks) \div RegionBlocks

\* A store in which the blocks of `used' hold values of other points.
Init ==
    /\ env \in Envs
    /\ change = 0
    /\ latest = [p \in Point |-> 0]
    /\ durable = [p \in Point |-> 0]
    /\ num_pages = 1
    /\ pages = [b \in Block |-> 0]
    /\ \E used \in env.used : bits = used
    /\ gaps = [r \in 1..NumRegions(1) |-> CalculateGaps(bits, r - 1)]
    /\ tracker = [p \in Point |-> Entry(NoPtr, 0)]
    /\ pending_updates = [p \in Point |-> NoUpdate]
    /\ put = NoPut /\ flush = NoFlush
    /\ disk_pages = [b \in Block |-> {0}]
    /\ disk_bits = [b \in Block |-> {Bit(b, bits)}]
    /\ disk_gaps = [r \in DOMAIN gaps |-> {gaps[r]}]
    /\ disk_tracker = [p \in Point |-> {tracker[p]}]
    /\ left = [flushes |-> env.flushes, fails |-> env.fails, crashes |-> env.crashes,
               clears |-> env.clears]

\* Tracker::get.
Get(p) ==
    IF pending_updates[p] = NoUpdate THEN tracker[p]
    ELSE Entry(pending_updates[p].current, pending_updates[p].change)

-----------------------------------------------------------------------------
\* put_value.

\* What a put does next when it found blocks, or none: the code unwraps.
Found(p, n, at) ==
    [step |-> IF at = None THEN "panic" ELSE "write", point |-> p,
     ptr |-> [at |-> at, n |-> n], grow |-> 0]

\* Blocks are looked for, and how many pages have to be added.
FindBlocks(p, n) ==
    /\ put = NoPut /\ change < env.changes
    /\ LET at == FindAvailable(bits, gaps, n)
           missing == LargerOf(n - TrailingFree(gaps), 0)
           more == CeilDiv(missing, PageBlocks)
       IN  IF at # None \/ more = 0 THEN put' = Found(p, n, at)
           ELSE /\ num_pages + more <= env.pages
                /\ put' = [step |-> "page", point |-> p, ptr |-> [at |-> None, n |-> n],
                           grow |-> more]
    /\ change' = change + 1
    /\ UNCHANGED <<env, latest, durable, store, disk, flush, left>>

\* A page file is created and attached.
CreatePage ==
    /\ put.step = "page"
    /\ num_pages' = num_pages + 1
    /\ put' = [put EXCEPT !.step = "cover"]
    /\ UNCHANGED <<counters, pages, bits, gaps, tracker, pending_updates, disk, flush, left>>

\* The gaps are extended by as many regions as there are, not as are new.
CoverNewPageTotal ==
    /\ put.step = "cover"
    /\ disk_bits' = [b \in Block |-> {Bit(b, bits)}]
    /\ gaps' = gaps \o [r \in 1..NumRegions(num_pages) |-> AllFreeGaps]
    /\ disk_gaps' = disk_gaps \o [r \in 1..NumRegions(num_pages) |-> {AllFreeGaps}]
    /\ put' = IF put.grow > 1 THEN [put EXCEPT !.step = "page", !.grow = @ - 1]
              ELSE Found(put.point, put.ptr.n, FindAvailable(bits, gaps', put.ptr.n))
    /\ UNCHANGED <<counters, num_pages, pages, bits, tracker, pending_updates,
                   disk_pages, disk_tracker, flush, left>>

\* The bitmask is synced and extended.
CoverNewPage ==
    /\ put.step = "cover"
    /\ disk_bits' = [b \in Block |-> {Bit(b, bits)}]
    /\ gaps' = gaps \o [r \in 1..NumRegions(1) |-> AllFreeGaps]
    /\ disk_gaps' = disk_gaps \o [r \in 1..NumRegions(1) |-> {AllFreeGaps}]
    /\ put' = IF put.grow > 1 THEN [put EXCEPT !.step = "page", !.grow = @ - 1]
              ELSE Found(put.point, put.ptr.n, FindAvailable(bits, gaps', put.ptr.n))
    /\ UNCHANGED <<counters, num_pages, pages, bits, tracker, pending_updates,
                   disk_pages, disk_tracker, flush, left>>

WriteIntoPages ==
    /\ put.step = "write"
    /\ pages' = [b \in Block |-> IF b \in Blocks(put.ptr) THEN change ELSE pages[b]]
    /\ disk_pages' = [b \in Block |-> disk_pages[b] \cup {pages'[b]}]
    /\ put' = [put EXCEPT !.step = "mark"]
    /\ UNCHANGED <<counters, num_pages, bits, gaps, tracker, pending_updates,
                   disk_bits, disk_gaps, disk_tracker, flush, left>>

\* Bits are changed and the gaps of their regions calculated again.
MarkBlocks(blocks, used) ==
    LET dirty == {b \div RegionBlocks : b \in blocks}
    IN  /\ bits' = IF used THEN bits \cup blocks ELSE bits \ blocks
        /\ gaps' = [r \in DOMAIN gaps |->
                       IF r - 1 \in dirty THEN CalculateGaps(bits', r - 1) ELSE gaps[r]]
        /\ disk_bits' = [b \in Block |-> disk_bits[b] \cup {Bit(b, bits')}]
        /\ disk_gaps' = [r \in DOMAIN gaps |-> disk_gaps[r] \cup {gaps'[r]}]

MarkUsed ==
    /\ put.step = "mark"
    /\ MarkBlocks(Blocks(put.ptr), TRUE)
    /\ put' = [put EXCEPT !.step = "set"]
    /\ UNCHANGED <<counters, num_pages, pages, tracker, pending_updates,
                   disk_pages, disk_tracker, flush, left>>

\* Tracker::set.
SetPointer ==
    /\ put.step = "set"
    /\ LET p == put.point
           updates == pending_updates[p]
       IN  /\ pending_updates' = [pending_updates EXCEPT ![p] =
                [current |-> put.ptr, change |-> change,
                 to_free |-> updates.to_free \cup ({updates.current} \ {NoPtr})]]
           /\ latest' = [latest EXCEPT ![p] = change]
    /\ put' = NoPut
    /\ UNCHANGED <<env, change, durable, num_pages, pages, bits, gaps, tracker, disk,
                   flush, left>>

\* delete_value, Tracker::unset.  Without env.forget a point that has a pointer in
\* the tracker and another in memory is not deleted: WritePending would forget
\* the one in the tracker.
Delete(p) ==
    /\ put = NoPut /\ change < env.changes
    /\ Get(p).ptr # NoPtr
    /\ \/ env.forget \/ pending_updates[p].current = NoPtr
       \/ tracker[p].ptr \in pending_updates[p].to_free \cup {NoPtr}
    /\ pending_updates' = [pending_updates EXCEPT ![p] =
          [current |-> NoPtr, to_free |-> @.to_free \cup {Get(p).ptr},
           change |-> change + 1]]
    /\ change' = change + 1
    /\ latest' = [latest EXCEPT ![p] = change + 1]
    /\ UNCHANGED <<env, durable, num_pages, pages, bits, gaps, tracker, disk, put, flush, left>>

\* clear: a flusher that runs is waited for, one that is only captured will find
\* that the store it was captured from is gone.
Clear ==
    /\ put = NoPut /\ left.clears > 0 /\ flush.step \in {"none", "bits"}
    /\ change' = change + 1
    /\ latest' = [p \in Point |-> change + 1]
    /\ durable' = [p \in Point |-> change + 1]
    /\ num_pages' = 1
    /\ pages' = [b \in Block |-> 0]
    /\ bits' = {}
    /\ gaps' = [r \in 1..NumRegions(1) |-> AllFreeGaps]
    /\ tracker' = [p \in Point |-> Entry(NoPtr, change + 1)]
    /\ pending_updates' = [p \in Point |-> NoUpdate]
    /\ flush' = NoFlush
    /\ disk_pages' = [b \in Block |-> {0}]
    /\ disk_bits' = [b \in Block |-> {0}]
    /\ disk_gaps' = [r \in DOMAIN gaps' |-> {AllFreeGaps}]
    /\ disk_tracker' = [p \in Point |-> {tracker'[p]}]
    /\ left' = [left EXCEPT !.clears = @ - 1]
    /\ UNCHANGED <<env, put>>

-----------------------------------------------------------------------------
\* The flusher.

Flushing(step) == flush.step = step

NextStep(step) == flush' = [flush EXCEPT !.step = step]

\* The flush ends well: what was captured is durable from now on.
FlushDone ==
    /\ flush' = NoFlush
    /\ durable' = flush.latest

Capture ==
    /\ Flushing("none") /\ left.flushes > 0
    /\ flush' = [step |-> "bits", updates |-> pending_updates, latest |-> latest,
                 old |-> {}, freed |-> FALSE]
    /\ left' = [left EXCEPT !.flushes = @ - 1]
    /\ UNCHANGED <<counters, store, disk, put>>

\* Bitmask::flusher: the bits, then the gaps.
SyncBits ==
    /\ Flushing("bits") /\ NextStep("gaps")
    /\ disk_bits' = [b \in Block |-> {Bit(b, bits)}]
    /\ UNCHANGED <<counters, store, disk_pages, disk_gaps, disk_tracker, put, left>>

SyncGaps ==
    /\ Flushing("gaps")
    /\ disk_gaps' = [r \in DOMAIN gaps |-> {gaps[r]}]
    /\ IF flush.freed THEN FlushDone ELSE NextStep("pages") /\ UNCHANGED durable
    /\ UNCHANGED <<env, change, latest, store, disk_pages, disk_bits, disk_tracker, put, left>>

SyncPages ==
    /\ Flushing("pages") /\ NextStep("write")
    /\ disk_pages' = [b \in Block |-> {pages[b]}]
    /\ UNCHANGED <<counters, store, disk_bits, disk_gaps, disk_tracker, put, left>>

Captured == {p \in Point : flush.updates[p] # NoUpdate}

\* The pointer in the tracker is not among them.
ReplacedPending(p) == flush.updates[p].to_free

\* The pointers that the updates of a point replace.
Replaced(p) ==
    flush.updates[p].to_free
        \cup (IF flush.updates[p].current = NoPtr THEN {} ELSE {tracker[p].ptr} \ {NoPtr})

\* All updates are dropped.
DrainedAll(p) == NoUpdate

\* drain_persisted: what is still to do of the updates of a point.
Drained(p) ==
    LET now == pending_updates[p]
        done == flush.updates[p]
        rest == [now EXCEPT !.current = IF @ = done.current THEN NoPtr ELSE @,
                            !.to_free = @ \ done.to_free]
    IN  IF rest.current = NoPtr /\ rest.to_free = {} THEN NoUpdate ELSE rest

\* write_pending for the given points.
WritePointers(points) ==
    /\ tracker' = [p \in Point |->
          IF p \in points THEN Entry(flush.updates[p].current, flush.updates[p].change)
          ELSE tracker[p]]
    /\ disk_tracker' = [p \in Point |-> disk_tracker[p] \cup {tracker'[p]}]
    /\ pending_updates' = [p \in Point |->
          IF p \in points THEN Drained(p) ELSE pending_updates[p]]

WritePending ==
    /\ Flushing("write")
    /\ WritePointers(Captured)
    /\ flush' = [flush EXCEPT !.step = "tracker", !.old = UNION {Replaced(p) : p \in Captured}]
    /\ UNCHANGED <<counters, num_pages, pages, bits, gaps, disk_pages, disk_bits, disk_gaps,
                   put, left>>

\* The tracker is not synced.
SyncTrackerLater ==
    /\ Flushing("tracker")
    /\ IF flush.old = {} THEN FlushDone ELSE NextStep("free") /\ UNCHANGED durable
    /\ UNCHANGED <<env, change, latest, store, disk, put, left>>

\* The tracker is synced only if there is something to free.
SyncTrackerToFree ==
    /\ Flushing("tracker")
    /\ IF flush.old = {} THEN FlushDone /\ UNCHANGED disk_tracker
       ELSE /\ NextStep("free") /\ UNCHANGED durable
            /\ disk_tracker' = [p \in Point |-> {tracker[p]}]
    /\ UNCHANGED <<env, change, latest, store, disk_pages, disk_bits, disk_gaps, put, left>>

SyncTracker ==
    /\ Flushing("tracker")
    /\ disk_tracker' = [p \in Point |-> {tracker[p]}]
    /\ IF flush.old = {} THEN FlushDone ELSE NextStep("free") /\ UNCHANGED durable
    /\ UNCHANGED <<env, change, latest, store, disk_pages, disk_bits, disk_gaps, put, left>>

\* flush_free_blocks, up to syncing the bitmask again.
FreeBlocks ==
    /\ Flushing("free")
    /\ MarkBlocks(BlocksOf(flush.old), FALSE)
    /\ flush' = [flush EXCEPT !.step = "bits", !.freed = TRUE]
    /\ UNCHANGED <<counters, num_pages, pages, tracker, pending_updates,
                   disk_pages, disk_tracker, put, left>>

\* A step fails, writing the pointers after some of them: the flush ends there.
FlushFail ==
    /\ flush # NoFlush /\ left.fails > 0
    /\ \E points \in IF Flushing("write") THEN SUBSET Captured ELSE {{}} : WritePointers(points)
    /\ flush' = NoFlush
    /\ left' = [left EXCEPT !.fails = @ - 1]
    /\ UNCHANGED <<counters, num_pages, pages, bits, gaps, disk_pages, disk_bits, disk_gaps, put>>

-----------------------------------------------------------------------------
\* Crashes, and opening what they leave.

\* Functions that take from each set of a function one element.
Selections(sets) ==
    LET open == {x \in DOMAIN sets : Cardinality(sets[x]) > 1}
        values == UNION {sets[x] : x \in open}
        one(x) == CHOOSE v \in sets[x] : TRUE
    IN  {[x \in DOMAIN sets |-> IF x \in open THEN f[x] ELSE one(x)] :
            f \in {g \in [open -> values] : \A x \in open : g[x] \in sets[x]}}

\* Opening fails when there are not as many pages as the bitmask covers.
Opened == IF NumRegions(num_pages) = Len(gaps) THEN NoPut ELSE [step |-> "unopened"]

Restart ==
    /\ left.crashes > 0 /\ left' = [left EXCEPT !.crashes = @ - 1]
    /\ flush' = NoFlush
    /\ pending_updates' = [p \in Point |-> NoUpdate]
    /\ put' = Opened
    /\ latest' = [p \in Point |-> tracker'[p].change]
    /\ UNCHANGED <<env, change, durable, num_pages>>

Crash ==
    /\ UNCHANGED <<pages, bits, gaps, tracker, disk>>
    /\ Restart

PowerLoss ==
    /\ env.power
    /\ pages' \in Selections(disk_pages)
    /\ \E bit \in Selections(disk_bits) : bits' = {b \in Block : bit[b] = 1}
    /\ gaps' \in Selections(disk_gaps)
    /\ tracker' \in Selections(disk_tracker)
    /\ disk_pages' = [b \in Block |-> {pages'[b]}]
    /\ disk_bits' = [b \in Block |-> {Bit(b, bits')}]
    /\ disk_gaps' = [r \in DOMAIN gaps |-> {gaps'[r]}]
    /\ disk_tracker' = [p \in Point |-> {tracker'[p]}]
    /\ Restart

Next ==
    \/ \E p \in Point : Delete(p) \/ \E n \in env.sizes : FindBlocks(p, n)
    \/ CreatePage \/ CoverNewPage \/ WriteIntoPages \/ MarkUsed \/ SetPointer
    \/ Clear
    \/ Capture \/ SyncBits \/ SyncGaps \/ SyncPages \/ WritePending \/ SyncTracker
    \/ FreeBlocks \/ FlushFail
    \/ Crash \/ PowerLoss

Spec == Init /\ [][Next]_vars
-----------------------------------------------------------------------------
\* Values are in pages that are attached, and but for a page that is being added
\* the bitmask covers as many (cover_new_page: "Bitmask length mismatch").
TypeOK ==
    /\ put.step \in {"none", "page", "cover", "write", "mark", "set", "panic", "unopened"}
    /\ flush.step \in {"none", "bits", "gaps", "pages", "write", "tracker", "free"}
    /\ bits \subseteq Block /\ num_pages \in 1..env.pages
    /\ put.step \in {"cover", "unopened"} \/ Len(gaps) = NumRegions(num_pages)
    /\ \A p \in Point : Blocks(Get(p).ptr) \subseteq 0..(num_pages * PageBlocks - 1)

\* "Data will not be corrupted" (put_value): whatever pointer a point may have on
\* the disk, its blocks have the value there, and are marked used so that they
\* are not given to another value, after any crash, loss of power and failed
\* flush.
StoredIntact ==
    \A p \in Point : \A e \in disk_tracker[p] : \A b \in Blocks(e.ptr) :
        disk_pages[b] = {e.change} /\ disk_bits[b] = {1}

\* get_value returns what was put last, and nothing after a delete, while pointers
\* are captured, written and drained and blocks are freed and used again.
ReadsLatest ==
    \A p \in Point :
        /\ Get(p).change = latest[p]
        /\ \A b \in Blocks(Get(p).ptr) : pages[b] = latest[p] /\ b \in bits

\* A flusher "durably persists all pending changes when invoked": after it returned
\* without an error no point may have an older state on the disk than it had when
\* the flusher was captured, also if an earlier flush failed half way.
FlushedStays == \A p \in Point : \A e \in disk_tracker[p] : e.change >= durable[p]

\* Pointers whose blocks are in use, or are about to be freed.
Held ==
    {tracker[p].ptr : p \in Point} \cup {pending_updates[p].current : p \in Point}
        \cup UNION {pending_updates[p].to_free : p \in Point}
        \cup (IF flush = NoFlush \/ flush.freed THEN {} ELSE flush.old)
        \cup (IF put.step = "set" THEN {put.ptr} ELSE {})

\* write_pending "returns the old pointers that were overwritten, so that they can
\* be freed": without crashes and failures exactly the blocks of the pointers that
\* are in the tracker, pending or about to be freed are marked used.
NothingLeaks ==
    env.crashes = 0 /\ env.fails = 0 /\ env.clears = 0 /\ ~env.forget =>
        \E used \in env.used : bits = used \cup BlocksOf(Held \ {NoPtr})

\* Where n free blocks in a row begin.
FreeRuns(n) == {b \in 0..(num_pages * PageBlocks - n) : b..(b + n - 1) \cap bits = {}}

\* The n blocks that are found are free, and in the given number of pages.
AllocatesFree(used, g, num, n) ==
    LET at == FindAvailable(used, g, n)
    IN  at = None \/ (at \in Nat /\ at..(at + n - 1) \subseteq (0..(num * PageBlocks - 1)) \ used)

\* find_available_blocks, which looks at gaps of regions first and at chunks of
\* bits then, finds free blocks only, also with gaps that a loss of power left
\* behind; otherwise it finds some if there are some, and with the pages that are
\* added for a value there are: the unwrap does not panic.
FindsFreeRun ==
    /\ ~env.power => put.step # "panic"
    /\ put = NoPut /\ flush = NoFlush =>
          \A n \in 1..(RegionBlocks + 2) :
             /\ AllocatesFree(bits, gaps, num_pages, n)
             /\ ~env.power /\ FreeRuns(n) # {} => FindAvailable(bits, gaps, n) # None
=============================================================================
