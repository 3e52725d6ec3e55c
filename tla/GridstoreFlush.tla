---------------------------- MODULE GridstoreFlush ----------------------------
(***************************************************************************)
(* The invariant of Gridstore holds at the start and is kept by the steps  *)
(* of the flusher, but for the writing of pointers, and by restarts after  *)
(* a crash or a loss of power.                                             *)
(***************************************************************************)
EXTENDS GridstoreInvariant, TLAPS

\* The gaps that a region may have.
GapSet == {AllFreeGaps} \cup {CalculateGaps(used, r) : used \in SUBSET Int, r \in Int}

GapsTyped ==
    /\ gaps \in Seq(GapSet)
    /\ disk_gaps \in Seq(SUBSET GapSet) /\ Len(disk_gaps) = Len(gaps)
    /\ \A r \in 1..Len(gaps) : gaps[r] \in disk_gaps[r]

Inv == StoreInv /\ GapsTyped

\* find_available_blocks returns blocks that are free, in pages that the gaps cover,
\* and trailing_free_blocks counts blocks.  Both are folds over chunks and regions.
AllocatorSound ==
    \A used \in SUBSET Int, g \in Seq(GapSet) :
        /\ TrailingFree(g) \in Nat
        /\ \A num \in Nat, n \in Nat \ {0} :
              Len(g) = NumRegions(num) => AllocatesFree(used, g, num, n)

\* A sequence is a function on 1..Len.
LEMMA SeqLen ==
    ASSUME NEW S, NEW s \in Seq(S)
    PROVE  Len(s) \in Nat /\ s \in [1..Len(s) -> S] /\ DOMAIN s = 1..Len(s)
  OBVIOUS

\* The elements of a sequence.
LEMMA SeqElement ==
    ASSUME NEW S, NEW s \in Seq(S), NEW i \in 1..Len(s)
    PROVE  s[i] \in S
  OBVIOUS

\* Concatenation, by index.
LEMMA SeqConcat ==
    ASSUME NEW S, NEW s \in Seq(S), NEW t \in Seq(S)
    PROVE  /\ s \o t \in Seq(S) /\ Len(s \o t) = Len(s) + Len(t)
           /\ \A i \in 1..(Len(s) + Len(t)) :
                 (s \o t)[i] = IF i <= Len(s) THEN s[i] ELSE t[i - Len(s)]
  OBVIOUS

\* A function on 1..n is a sequence.
LEMMA SeqFun ==
    ASSUME NEW S, NEW n \in Nat, NEW f \in [1..n -> S]
    PROVE  f \in Seq(S) /\ Len(f) = n
  OBVIOUS

-----------------------------------------------------------------------------
\* No pointer, no blocks.
LEMMA NoBlocks == Blocks(NoPtr) = {}
  BY DEF Blocks, NoPtr, None

\* A pointer has at least one block.
LEMMA PtrBlocks == \A x \in Ptr : Blocks(x) # {} /\ Blocks(x) \subseteq Nat /\ x # NoPtr
<1> TAKE x \in Ptr
<1>1. x.at \in Nat /\ x.n \in Nat /\ x.n > 0
  BY DEF Ptr
<1>2. x.at \in Blocks(x)
  BY <1>1 DEF Blocks
<1> QED
  BY <1>1, <1>2, NoBlocks DEF Blocks

\* Regions of one more page.
LEMMA Regions ==
    \A n \in Nat : /\ NumRegions(n) \in Nat /\ NumRegions(1) \in Nat
                   /\ NumRegions(n + 1) = NumRegions(n) + NumRegions(1)
<1> TAKE n \in Nat
<1> DEFINE R == RegionBlocks
           K == PageBlocks \div RegionBlocks
<1>1. R \in Nat /\ R > 0 /\ PageBlocks \in Nat /\ PageBlocks % R = 0
  BY SizesAssumption
<1>2. K \in Nat /\ PageBlocks = R * K
  BY <1>1
<1>3. \A a \in Nat : (R * a) \div R = a
  BY <1>1
<1>4. \A a \in Nat : NumRegions(a) = a * K
  <2> TAKE a \in Nat
  <2>1. a * PageBlocks = R * (a * K) /\ a * K \in Nat
    BY <1>1, <1>2
  <2> QED
    BY <2>1, <1>3 DEF NumRegions
<1> HIDE DEF K, R
<1>5. (n + 1) * K = n * K + K /\ 1 * K = K /\ n * K \in Nat
  BY <1>2
<1> QED
  BY <1>4, <1>5, <1>2

\* Blocks of pages that are attached are blocks.
LEMMA Attached ==
    ASSUME Typed, NEW num \in Nat, num <= env.pages
    PROVE  0..(num * PageBlocks - 1) \subseteq Block
<1>1. env.pages \in Nat /\ PageBlocks \in Nat
  BY SizesAssumption, EnvsAssumption DEF Typed
<1>2. num * PageBlocks <= env.pages * PageBlocks
  BY <1>1
<1>3. num * PageBlocks \in Nat /\ env.pages * PageBlocks \in Nat
  BY <1>1
<1> QED
  BY <1>2, <1>3 DEF Block

-----------------------------------------------------------------------------
\* A new store, with some blocks in use, has the invariant.
LEMMA InitInv == Init => Inv
<1> SUFFICES ASSUME Init PROVE Inv
  OBVIOUS
<1>1. env \in Envs /\ env.pages \in Nat \ {0} /\ PageBlocks \in Nat \ {0}
  BY SizesAssumption, EnvsAssumption DEF Init
<1>2. bits \subseteq 0..(1 * PageBlocks - 1)
  BY <1>1, EnvsAssumption DEF Init
<1>3. 0..(1 * PageBlocks - 1) \subseteq Block
  <2>1. PageBlocks <= env.pages * PageBlocks
    BY <1>1
  <2>2. env.pages * PageBlocks \in Nat
    BY <1>1
  <2> QED
    BY <1>1, <2>1, <2>2 DEF Block
<1>4. NoUpdate \in Updates /\ Entry(NoPtr, 0) \in Entries
  BY DEF NoUpdate, Updates, Entry, Entries, OptPtr
<1>5. Typed
  BY <1>1, <1>2, <1>3, <1>4 DEF Init, Typed, Bit, Puts, Flushes
<1>6. gaps = [r \in 1..NumRegions(1) |-> CalculateGaps(bits, r - 1)]
  BY DEF Init
<1>7. gaps \in Seq(GapSet) /\ Len(gaps) = NumRegions(1)
  <2>1. bits \in SUBSET Int
    BY <1>2
  <2>2. \A r \in 1..NumRegions(1) : r - 1 \in Int
    BY Regions
  <2>3. \A r \in 1..NumRegions(1) : CalculateGaps(bits, r - 1) \in GapSet
    BY <2>1, <2>2 DEF GapSet
  <2>4. gaps \in [1..NumRegions(1) -> GapSet]
    BY <1>6, <2>3
  <2> QED
    BY Zenon, <2>4, Regions, SeqFun
<1>8. GapsTyped
  <2>1. DOMAIN gaps = 1..Len(gaps) /\ Len(gaps) \in Nat /\ \A r \in DOMAIN gaps : gaps[r] \in GapSet
    BY <1>7, SeqLen, SeqElement
  <2>2. disk_gaps \in [1..Len(gaps) -> SUBSET GapSet]
    BY ZenonT(40), <2>1 DEF Init
  <2>3. disk_gaps \in Seq(SUBSET GapSet) /\ Len(disk_gaps) = Len(gaps)
    BY <2>1, <2>2, SeqFun
  <2> QED
    BY Zenon, <1>7, <2>1, <2>3 DEF Init, GapsTyped
<1>9. Sized
  <2>1. num_pages = 1 /\ put.step = "none"
    BY DEF Init, NoPut
  <2> QED
    BY <1>1, <1>7, <2>1 DEF Sized
<1>10. \A p \in Point : Ptrs(p) = {NoPtr} /\ Saved(p) = {NoPtr}
  BY DEF Init, Ptrs, Saved, Entry, NoUpdate
<1>11. Mirrored
  BY DEF Init, Mirrored
<1>12. Owned /\ Apart
  BY <1>10, NoBlocks DEF Owned, Apart
<1>13. StoredIntact /\ FlushedStays
  BY NoBlocks DEF Init, StoredIntact, FlushedStays, Entry
<1>14. PendingInv /\ PutInv
  BY DEF Init, PendingInv, PutInv, NoPut, Entry
<1>15. CapturedInv /\ OldInv /\ ChangesInv
  BY DEF Init, CapturedInv, OldInv, ChangesInv, Early, NoFlush, Entry
<1> QED
  BY <1>5, <1>8, <1>9, <1>11, <1>12, <1>13, <1>14, <1>15 DEF Inv, StoreInv

-----------------------------------------------------------------------------
\* The flusher takes a copy of the pending pointers, which is all it will look at.
LEMMA CaptureInv == Inv /\ Capture => Inv'
<1> SUFFICES ASSUME Inv, Capture PROVE Inv'
  OBVIOUS
<1> USE DEF Inv, StoreInv
<1>1. /\ UNCHANGED <<counters, store, disk, put>>
      /\ flush = NoFlush
      /\ flush' = [step |-> "bits", updates |-> pending_updates, latest |-> latest,
                   old |-> {}, freed |-> FALSE]
  BY DEF Capture, Flushing, Typed, Flushes, NoFlush
<1> USE <1>1 DEF counters, store, disk
<1>2. Typed'
  BY Zenon DEF Typed, Flushes, Block
<1>3. Sized' /\ GapsTyped'
  BY ZenonT(40) DEF Sized, GapsTyped
<1>4. Mirrored' /\ Owned' /\ Apart' /\ PutInv' /\ StoredIntact' /\ FlushedStays' /\ PendingInv'
  BY DEF Mirrored, Owned, Apart, PutInv, Ptrs, Saved, StoredIntact, FlushedStays, Block,
     PendingInv, Unsaved
<1>5. CapturedInv'
  BY DEF CapturedInv, PendingInv, Unsaved, Saved, Follows, Typed, Updates, OptPtr
<1>6. OldInv' /\ ChangesInv'
  BY DEF OldInv, ChangesInv, NoFlush, Typed
<1> QED
  BY <1>2, <1>3, <1>4, <1>5, <1>6

\* Blocks of a captured pointer are marked used.
LEMMA CapturedOwned ==
    ASSUME Inv, Early, NEW p \in Point
    PROVE  flush.updates[p] # NoUpdate => Blocks(flush.updates[p].current) \subseteq bits
  BY NoBlocks DEF Inv, StoreInv, CapturedInv, Follows, Owned, Ptrs

\* Syncing the bitmask makes the marks of the captured pointers durable, or those of the
\* blocks that were freed.
LEMMA SyncBitsInv == Inv /\ SyncBits => Inv'
<1> SUFFICES ASSUME Inv, SyncBits PROVE Inv'
  OBVIOUS
<1> USE DEF Inv, StoreInv
<1>1. /\ UNCHANGED <<counters, store, disk_pages, disk_gaps, disk_tracker, put>>
      /\ flush # NoFlush /\ flush.step = "bits"
      /\ flush' = [flush EXCEPT !.step = "gaps"]
      /\ disk_bits' = [b \in Block |-> {Bit(b, bits)}]
  BY DEF SyncBits, Flushing, NextStep, NoFlush
<1> USE <1>1 DEF counters, store
<1>2. /\ flush' \in Flushes /\ flush' # NoFlush /\ flush'.step = "gaps"
      /\ flush'.updates = flush.updates /\ flush'.latest = flush.latest
      /\ flush'.freed = flush.freed
  BY Zenon DEF Typed, Flushes, NoFlush
<1>3. Typed'
  BY <1>2 DEF Typed, Block, Bit
<1>4. Sized' /\ GapsTyped'
  BY DEF Sized, GapsTyped
<1>5. Mirrored' /\ Owned' /\ Apart' /\ PutInv' /\ FlushedStays' /\ PendingInv'
  BY DEF Mirrored, Owned, Apart, PutInv, Ptrs, Saved, FlushedStays, Block, PendingInv, Unsaved
<1>6. StoredIntact'
  BY DEF StoredIntact, Owned, Ptrs, Saved, Typed, Bit
<1>7. CapturedInv'
  <2>1. Early' => Early
    BY <1>2 DEF Early
  <2>2. ASSUME Early, NEW p \in Point, flush.updates[p] # NoUpdate
        PROVE  \A b \in Blocks(flush.updates[p].current) : disk_bits'[b] = {1}
    <3>1. \A b \in Blocks(flush.updates[p].current) : b \in bits
      BY <2>2, CapturedOwned
    <3> QED
      BY <3>1 DEF Typed, Bit
  <2>3. ASSUME NEW p \in Point
        PROVE  /\ Unsaved(p, flush.updates[p])' <=> Unsaved(p, flush.updates[p])
               /\ Follows(p, flush.updates[p], pending_updates[p])' <=>
                     Follows(p, flush.updates[p], pending_updates[p])
    BY <1>2 DEF Unsaved, Saved, Follows
  <2> QED
    BY ZenonT(40), <1>2, <2>1, <2>2, <2>3 DEF CapturedInv
<1>8. OldInv' /\ ChangesInv'
  BY <1>2 DEF OldInv, ChangesInv, NoFlush
<1> QED
  BY <1>3, <1>4, <1>5, <1>6, <1>7, <1>8

\* A flusher that ends well.
LEMMA DoneInv ==
    ASSUME Inv, flush # NoFlush, FlushDone,
           UNCHANGED <<env, change, latest, store, disk_pages, disk_bits, put>>,
           GapsTyped',
           \A p \in Point : /\ tracker[p] \in disk_tracker'[p]
                            /\ disk_tracker'[p] \subseteq disk_tracker[p]
                            /\ \A e \in disk_tracker'[p] : e.change >= flush.latest[p],
           disk_tracker' \in [Point -> SUBSET Entries]
    PROVE  Inv'
<1> USE DEF Inv, StoreInv, FlushDone, store
<1>1. flush'.step = "none" /\ flush' = NoFlush /\ flush.latest \in [Point -> Nat]
  BY Zenon DEF NoFlush, Typed, Flushes
<1>2. Typed'
  BY Zenon, <1>1 DEF Typed, Flushes, Block
<1>3. Sized'
  BY Zenon DEF Sized
<1>4. \A p \in Point : Saved(p)' \subseteq Saved(p) /\ Ptrs(p)' \subseteq Ptrs(p)
  BY Zenon DEF Saved, Ptrs
<1>5. Mirrored' /\ Owned' /\ Apart' /\ PutInv'
  BY ZenonT(40), <1>4 DEF Mirrored, Owned, Apart, PutInv, Block
<1>6. StoredIntact' /\ FlushedStays' /\ PendingInv'
  BY <1>4 DEF StoredIntact, FlushedStays, PendingInv, Unsaved
<1>7. CapturedInv' /\ OldInv'
  BY Zenon, <1>1 DEF CapturedInv, OldInv, Early
<1>8. ChangesInv'
  BY <1>1 DEF ChangesInv
<1> QED
  BY Zenon, <1>2, <1>3, <1>5, <1>6, <1>7, <1>8

\* Syncing the gaps leaves one possible value of each.
LEMMA SingletonGaps ==
    ASSUME NEW g \in Seq(GapSet), NEW d, d = [r \in DOMAIN g |-> {g[r]}]
    PROVE  /\ d \in Seq(SUBSET GapSet) /\ Len(d) = Len(g)
           /\ \A r \in 1..Len(g) : g[r] \in d[r]
<1>1. DOMAIN g = 1..Len(g) /\ Len(g) \in Nat /\ \A r \in DOMAIN g : g[r] \in GapSet
  BY SeqLen, SeqElement
<1>2. d \in [1..Len(g) -> SUBSET GapSet]
  BY <1>1
<1> QED
  BY <1>1, <1>2, SeqFun

\* Syncing the gaps changes nothing that pointers depend on.
LEMMA SyncGapsInv == Inv /\ SyncGaps => Inv'
<1> SUFFICES ASSUME Inv, SyncGaps PROVE Inv'
  OBVIOUS
<1> USE DEF Inv, StoreInv
<1>1. /\ UNCHANGED <<env, change, latest, store, disk_pages, disk_bits, disk_tracker, put>>
      /\ flush # NoFlush /\ flush.step = "gaps"
      /\ disk_gaps' = [r \in DOMAIN gaps |-> {gaps[r]}]
  BY DEF SyncGaps, Flushing, NoFlush
<1>2. GapsTyped'
  BY <1>1, SingletonGaps DEF GapsTyped, store
<1>3. CASE flush.freed
  <2>1. FlushDone
    BY <1>3 DEF SyncGaps
  <2>2. \A p \in Point : disk_tracker[p] = {tracker[p]} /\ tracker[p].change = flush.latest[p]
    BY <1>1, <1>3 DEF ChangesInv
  <2> QED
    BY <1>1, <1>2, <2>1, <2>2, DoneInv DEF Typed, Entries, Flushes, store, Mirrored
<1>4. CASE ~flush.freed
  <2> USE <1>1 DEF store
  <2>1. flush' = [flush EXCEPT !.step = "pages"] /\ UNCHANGED durable
    BY <1>4 DEF SyncGaps, NextStep
  <2>2. /\ flush' \in Flushes /\ flush' # NoFlush /\ flush'.step = "pages"
        /\ flush'.updates = flush.updates /\ flush'.latest = flush.latest
        /\ flush'.freed = flush.freed
    BY Zenon, <2>1 DEF Typed, Flushes, NoFlush
  <2>3. Typed' /\ Sized'
    BY <2>1, <2>2 DEF Typed, Block, Sized
  <2>4. Mirrored' /\ Owned' /\ Apart' /\ PutInv' /\ StoredIntact' /\ FlushedStays' /\ PendingInv'
    BY <2>1 DEF Mirrored, Owned, Apart, PutInv, Ptrs, Saved, StoredIntact, FlushedStays, Block,
       PendingInv, Unsaved
  <2>5. CapturedInv' /\ OldInv' /\ ChangesInv'
    BY <1>4, <2>1, <2>2 DEF CapturedInv, Unsaved, Saved, Follows, Early, OldInv, ChangesInv
  <2> QED
    BY <1>2, <2>3, <2>4, <2>5
<1> QED
  BY <1>3, <1>4, <1>1 DEF Typed, Flushes

\* Syncing the pages makes the captured values durable before their pointers are written.
LEMMA SyncPagesInv == Inv /\ SyncPages => Inv'
<1> SUFFICES ASSUME Inv, SyncPages PROVE Inv'
  OBVIOUS
<1> USE DEF Inv, StoreInv
<1>1. /\ UNCHANGED <<counters, store, disk_bits, disk_gaps, disk_tracker, put>>
      /\ flush # NoFlush /\ flush.step = "pages"
      /\ flush' = [flush EXCEPT !.step = "write"]
      /\ disk_pages' = [b \in Block |-> {pages[b]}]
  BY DEF SyncPages, Flushing, NextStep, NoFlush
<1> USE <1>1 DEF counters, store
<1>2. /\ flush' \in Flushes /\ flush' # NoFlush /\ flush'.step = "write"
      /\ flush'.updates = flush.updates /\ flush'.latest = flush.latest
      /\ flush'.freed = flush.freed
  BY Zenon DEF Typed, Flushes, NoFlush
<1>3. Typed'
  BY <1>2 DEF Typed, Block
<1>4. Sized' /\ GapsTyped'
  BY DEF Sized, GapsTyped
<1>5. Mirrored' /\ Owned' /\ Apart' /\ PutInv' /\ FlushedStays' /\ PendingInv'
  BY DEF Mirrored, Owned, Apart, PutInv, Ptrs, Saved, FlushedStays, Block, PendingInv, Unsaved
<1>6. StoredIntact'
  <2>1. \A p \in Point : \A e \in disk_tracker[p] : Blocks(e.ptr) \subseteq Block
    BY ZenonT(40) DEF Owned, Ptrs, Saved, Typed
  <2> QED
    BY <2>1 DEF StoredIntact, Mirrored
<1>7. CapturedInv'
  <2>1. Early' => Early
    BY <1>2 DEF Early
  <2>2. \A p \in Point : Early /\ flush.updates[p] # NoUpdate =>
                             Blocks(flush.updates[p].current) \subseteq Block
    BY CapturedOwned DEF Typed
  <2>3. \A p \in Point : Early /\ flush.updates[p] # NoUpdate =>
           \A b \in Blocks(flush.updates[p].current) : pages[b] = flush.updates[p].change
    BY NoBlocks DEF CapturedInv, Unsaved
  <2> QED
    BY <1>2, <2>1, <2>2, <2>3 DEF CapturedInv, Unsaved, Saved, Follows
<1>8. OldInv' /\ ChangesInv'
  BY <1>2 DEF OldInv, ChangesInv, NoFlush
<1> QED
  BY <1>3, <1>4, <1>5, <1>6, <1>7, <1>8

\* Syncing the tracker forgets the replaced pointers: their blocks are now of no pointer.
LEMMA SyncTrackerInv == Inv /\ SyncTracker => Inv'
<1> SUFFICES ASSUME Inv, SyncTracker PROVE Inv'
  OBVIOUS
<1> USE DEF Inv, StoreInv
<1>1. /\ UNCHANGED <<env, change, latest, store, disk_pages, disk_bits, disk_gaps, put>>
      /\ flush # NoFlush /\ flush.step = "tracker"
      /\ disk_tracker' = [p \in Point |-> {tracker[p]}]
  BY DEF SyncTracker, Flushing, NoFlush
<1>2. GapsTyped'
  BY <1>1 DEF GapsTyped, store
<1>3. \A p \in Point : /\ disk_tracker'[p] = {tracker[p]} /\ tracker[p] \in disk_tracker[p]
                       /\ tracker[p].change = flush.latest[p]
  BY <1>1 DEF Mirrored, ChangesInv
<1>4. disk_tracker' \in [Point -> SUBSET Entries]
  BY <1>1 DEF Typed
<1>5. CASE flush.old = {}
  <2>1. FlushDone
    BY <1>5 DEF SyncTracker
  <2> QED
    BY <1>1, <1>2, <1>3, <1>4, <2>1, DoneInv DEF Typed, Flushes
<1>6. CASE flush.old # {}
  <2> USE <1>1 DEF store
  <2>1. flush' = [flush EXCEPT !.step = "free"] /\ UNCHANGED durable
    BY <1>6 DEF SyncTracker, NextStep
  <2>2. /\ flush' \in Flushes /\ flush' # NoFlush /\ flush'.step = "free"
        /\ flush'.old = flush.old /\ flush'.latest = flush.latest
        /\ flush'.freed = flush.freed
    BY <2>1 DEF Typed, Flushes, NoFlush
  <2>3. Typed' /\ Sized'
    BY Zenon, <1>4, <2>1, <2>2 DEF Typed, Block, Sized
  <2>4. \A p \in Point : Saved(p)' \subseteq Saved(p) /\ Ptrs(p)' \subseteq Ptrs(p)
    BY <1>3 DEF Saved, Ptrs
  <2>5. Mirrored' /\ Owned' /\ Apart' /\ PutInv'
    BY <1>3, <2>4 DEF Mirrored, Owned, Apart, PutInv, Block
  <2>6. StoredIntact' /\ FlushedStays' /\ PendingInv'
    BY <1>3, <2>1, <2>4 DEF StoredIntact, FlushedStays, PendingInv, Unsaved
  <2>7. CapturedInv' /\ OldInv' /\ ChangesInv'
    BY <1>3, <2>1, <2>2 DEF CapturedInv, Early, OldInv, ChangesInv
  <2> QED
    BY <1>2, <2>3, <2>5, <2>6, <2>7
<1> QED
  BY <1>5, <1>6

-----------------------------------------------------------------------------
\* Blocks that are marked.
LEMMA MarkedGaps ==
    ASSUME GapsTyped, NEW blocks, NEW used \in BOOLEAN, MarkBlocks(blocks, used),
           bits' \subseteq Int
    PROVE  GapsTyped' /\ Len(gaps') = Len(gaps)
<1> DEFINE dirty == {b \div RegionBlocks : b \in blocks}
<1>1. /\ gaps' = [r \in DOMAIN gaps |->
                     IF r - 1 \in dirty THEN CalculateGaps(bits', r - 1) ELSE gaps[r]]
      /\ disk_gaps' = [r \in DOMAIN gaps |-> disk_gaps[r] \cup {gaps'[r]}]
  BY DEF MarkBlocks
<1> HIDE DEF dirty
<1>2. /\ DOMAIN gaps = 1..Len(gaps) /\ Len(gaps) \in Nat
      /\ \A r \in 1..Len(gaps) : gaps[r] \in GapSet
  BY SeqLen, SeqElement DEF GapsTyped
<1>3. \A r \in 1..Len(gaps) : disk_gaps[r] \in SUBSET GapSet
  BY SeqLen, SeqElement DEF GapsTyped
<1>4. \A r \in 1..Len(gaps) : CalculateGaps(bits', r - 1) \in GapSet
  BY <1>2 DEF GapSet
<1>5. gaps' \in [1..Len(gaps) -> GapSet]
  BY <1>1, <1>2, <1>4
<1>6. disk_gaps' \in [1..Len(gaps) -> SUBSET GapSet]
  BY <1>1, <1>2, <1>3, <1>5
<1>7. gaps' \in Seq(GapSet) /\ Len(gaps') = Len(gaps)
  BY <1>2, <1>5, SeqFun
<1>8. disk_gaps' \in Seq(SUBSET GapSet) /\ Len(disk_gaps') = Len(gaps)
  BY <1>2, <1>6, SeqFun
<1>9. \A r \in 1..Len(gaps) : gaps'[r] \in disk_gaps'[r]
  BY <1>1, <1>2
<1> QED
  BY <1>7, <1>8, <1>9 DEF GapsTyped

\* Freeing the blocks of replaced pointers touches no block of a pointer in use.
LEMMA FreeBlocksInv == Inv /\ FreeBlocks => Inv'
<1> SUFFICES ASSUME Inv, FreeBlocks PROVE Inv'
  OBVIOUS
<1> USE DEF Inv, StoreInv
<1> DEFINE B == BlocksOf(flush.old)
<1>1. /\ UNCHANGED <<counters, num_pages, pages, tracker, pending_updates, disk_pages,
                     disk_tracker, put>>
      /\ flush # NoFlush /\ flush.step = "free"
      /\ flush' = [flush EXCEPT !.step = "bits", !.freed = TRUE]
      /\ bits' = bits \ B
      /\ disk_bits' = [b \in Block |-> disk_bits[b] \cup {Bit(b, bits')}]
  BY DEF FreeBlocks, Flushing, NoFlush, MarkBlocks
<1>2. bits' \subseteq Int /\ Block \subseteq Int /\ Block' = Block /\ bits' \subseteq Block
  BY <1>1 DEF Typed, Block, counters
<1>3. GapsTyped' /\ Len(gaps') = Len(gaps)
  BY Zenon, <1>2, MarkedGaps DEF FreeBlocks
<1>4. \A p \in Point : disk_tracker[p] = {tracker[p]} /\ tracker[p].change = flush.latest[p]
  BY <1>1 DEF ChangesInv
<1>5. \A p \in Point : \A x \in Ptrs(p) : Blocks(x) \subseteq bits \ B
  <2> SUFFICES ASSUME NEW p \in Point, NEW x \in Ptrs(p), NEW o \in flush.old
               PROVE  Blocks(x) \cap Blocks(o) = {}
    BY DEF Owned, BlocksOf
  <2>1. x \in {tracker[p].ptr, pending_updates[p].current} \cup pending_updates[p].to_free
    BY <1>4 DEF Ptrs, Saved
  <2> QED
    BY <1>1, <2>1 DEF OldInv
<1>6. put.step = "set" => Blocks(put.ptr) \subseteq bits \ B
  BY <1>1 DEF OldInv, BlocksOf, PutInv
<1> HIDE DEF B
<1> USE <1>1 DEF counters
<1>7. /\ flush' \in Flushes /\ flush' # NoFlush /\ flush'.step = "bits"
      /\ flush'.latest = flush.latest /\ flush'.freed
  BY Zenon DEF Typed, Flushes, NoFlush
<1>8. Typed'
  BY <1>2, <1>7 DEF Typed, Bit
<1>9. Sized'
  BY <1>3 DEF Sized
<1>10. \A p \in Point : Saved(p)' = Saved(p) /\ Ptrs(p)' = Ptrs(p)
  BY DEF Saved, Ptrs
<1>11. Mirrored' /\ Owned' /\ Apart'
  BY <1>2, <1>5, <1>10 DEF Mirrored, Owned, Apart
<1>12. PutInv'
  BY <1>2, <1>6, <1>10 DEF PutInv
<1>13. StoredIntact'
  <2> SUFFICES ASSUME NEW p \in Point, NEW e \in disk_tracker[p], NEW b \in Blocks(e.ptr)
               PROVE  disk_pages[b] = {e.change} /\ disk_bits'[b] = {1}
    BY Zenon DEF StoredIntact
  <2>1. disk_pages[b] = {e.change} /\ disk_bits[b] = {1}
    BY DEF StoredIntact
  <2>2. b \in bits'
    BY <1>5 DEF Ptrs, Saved
  <2> QED
    BY <2>1, <2>2, <1>2 DEF Bit
<1>14. FlushedStays' /\ PendingInv'
  BY <1>10 DEF FlushedStays, PendingInv, Unsaved
<1>15. CapturedInv' /\ OldInv' /\ ChangesInv'
  BY <1>4, <1>7 DEF CapturedInv, Early, OldInv, ChangesInv
<1> QED
  BY <1>3, <1>8, <1>9, <1>11, <1>12, <1>13, <1>14, <1>15

-----------------------------------------------------------------------------
\* What is still to do of the updates of a point, and that nothing of them is lost:
\* if nothing is left, the last change is the one that was captured.
LEMMA DrainedFacts ==
    ASSUME Inv, Early, NEW p \in Point, flush.updates[p] # NoUpdate
    PROVE  LET u == flush.updates[p]
               v == pending_updates[p]
           IN  /\ u \in Updates /\ v \in Updates /\ v # NoUpdate
               /\ Drained(p) \in Updates
               /\ Drained(p) = NoUpdate => u.change = latest[p]
               /\ Drained(p).current \in {NoPtr, v.current} \ ({u.current} \ {NoPtr})
               /\ Drained(p).to_free \subseteq v.to_free \ u.to_free
               /\ Drained(p) # NoUpdate => /\ Drained(p).current # NoPtr \/ Drained(p).to_free # {}
                                           /\ Drained(p).change = latest[p]
<1> DEFINE u == flush.updates[p]
           v == pending_updates[p]
           rest == [v EXCEPT !.current = IF @ = u.current THEN NoPtr ELSE @,
                             !.to_free = @ \ u.to_free]
<1>1. u \in Updates /\ v \in Updates
  BY ZenonT(40) DEF Inv, StoreInv, Typed, Flushes, Early
<1>2. Unsaved(p, u) /\ Follows(p, u, v)
  BY DEF Inv, StoreInv, CapturedInv
<1>3. v # NoUpdate /\ v.change = latest[p]
  BY <1>2 DEF Inv, StoreInv, PendingInv, Follows
<1>4. /\ rest.current = (IF v.current = u.current THEN NoPtr ELSE v.current)
      /\ rest.to_free = v.to_free \ u.to_free /\ rest.change = v.change
      /\ rest \in Updates
  BY Zenon, <1>1 DEF Updates, OptPtr
<1>5. Drained(p) = IF rest.current = NoPtr /\ rest.to_free = {} THEN NoUpdate ELSE rest
  BY DEF Drained
<1>6. ASSUME rest.current = NoPtr, rest.to_free = {} PROVE u.change = v.change
  <2>1. v.to_free = u.to_free
    BY Zenon, <1>2, <1>4, <1>6 DEF Follows
  <2>2. v.current = u.current
    BY <1>2, <1>4, <1>6, <2>1 DEF Follows, Unsaved
  <2> QED
    BY Zenon, <1>2, <2>1, <2>2 DEF Follows
<1>7. NoUpdate \in Updates /\ NoUpdate.current = NoPtr /\ NoUpdate.to_free = {}
  BY ZenonT(40) DEF NoUpdate, Updates, OptPtr
<1> HIDE DEF rest, u, v
<1>8. CASE rest.current = NoPtr /\ rest.to_free = {}
  BY <1>1, <1>3, <1>5, <1>6, <1>7, <1>8 DEF u, v
<1>9. CASE ~(rest.current = NoPtr /\ rest.to_free = {})
  <2>1. Drained(p) = rest /\ rest # NoUpdate
    BY ZenonT(40), <1>5, <1>7, <1>9
  <2> QED
    BY <1>1, <1>3, <1>4, <1>9, <2>1 DEF u, v
<1> QED
  BY <1>8, <1>9

\* write_pending, for some of the captured points.
LEMMA WrittenPoints ==
    ASSUME Inv, Early, NEW points \in SUBSET Captured, WritePointers(points)
    PROVE  /\ tracker' \in [Point -> Entries] /\ disk_tracker' \in [Point -> SUBSET Entries]
           /\ pending_updates' \in [Point -> Updates]
           /\ \A p \in points :
                 /\ p \in Point /\ flush.updates[p] # NoUpdate
                 /\ tracker'[p] = Entry(flush.updates[p].current, flush.updates[p].change)
                 /\ disk_tracker'[p] = disk_tracker[p] \cup {tracker'[p]}
                 /\ pending_updates'[p] = Drained(p)
           /\ \A p \in Point \ points : /\ tracker'[p] = tracker[p]
                                        /\ disk_tracker'[p] = disk_tracker[p]
                                        /\ pending_updates'[p] = pending_updates[p]
<1>1. \A p \in points : p \in Point /\ flush.updates[p] # NoUpdate
  BY Zenon DEF Captured
<1>2. \A p \in points : /\ Drained(p) \in Updates
                        /\ flush.updates[p] \in Updates
  BY Zenon, <1>1, DrainedFacts
<1>3. \A p \in points : Entry(flush.updates[p].current, flush.updates[p].change) \in Entries
  BY Zenon, <1>2 DEF Entry, Entries, Updates
<1>4. /\ tracker' = [p \in Point |->
             IF p \in points THEN Entry(flush.updates[p].current, flush.updates[p].change)
             ELSE tracker[p]]
      /\ disk_tracker' = [p \in Point |-> disk_tracker[p] \cup {tracker'[p]}]
      /\ pending_updates' = [p \in Point |->
             IF p \in points THEN Drained(p) ELSE pending_updates[p]]
  BY DEF WritePointers
<1>5. /\ tracker \in [Point -> Entries] /\ disk_tracker \in [Point -> SUBSET Entries]
      /\ pending_updates \in [Point -> Updates] /\ \A p \in Point : tracker[p] \in disk_tracker[p]
  BY DEF Inv, StoreInv, Typed, Mirrored
<1>6. tracker' \in [Point -> Entries]
  BY <1>3, <1>4, <1>5
<1>7. disk_tracker' \in [Point -> SUBSET Entries]
  BY <1>4, <1>5, <1>6
<1>8. pending_updates' \in [Point -> Updates]
  BY Zenon, <1>2, <1>4, <1>5
<1>9. \A p \in points :
                 /\ p \in Point /\ flush.updates[p] # NoUpdate
                 /\ tracker'[p] = Entry(flush.updates[p].current, flush.updates[p].change)
                 /\ disk_tracker'[p] = disk_tracker[p] \cup {tracker'[p]}
                 /\ pending_updates'[p] = Drained(p)
  BY Zenon, <1>1, <1>4
<1>10. \A p \in Point \ points : /\ tracker'[p] = tracker[p]
                                 /\ disk_tracker'[p] = disk_tracker[p]
                                 /\ pending_updates'[p] = pending_updates[p]
  BY Zenon, <1>4, <1>5
<1> QED
  BY <1>6, <1>7, <1>8, <1>9, <1>10

-----------------------------------------------------------------------------
\* Opening files that have, for each block, bit and point, one of the values that
\* they may have on the disk.
LEMMA RestartInv ==
    ASSUME Inv, Restart, GapsTyped', Len(gaps') = Len(gaps),
           pages' \in [Block -> Nat], bits' \subseteq Block, tracker' \in [Point -> Entries],
           disk_pages' \in [Block -> SUBSET Nat], disk_bits' \in [Block -> SUBSET {0, 1}],
           disk_tracker' \in [Point -> SUBSET Entries],
           \A b \in Block : /\ pages'[b] \in disk_pages'[b] /\ disk_pages'[b] \subseteq disk_pages[b]
                            /\ Bit(b, bits') \in disk_bits'[b] /\ disk_bits'[b] \subseteq disk_bits[b],
           \A p \in Point : /\ tracker'[p] \in disk_tracker'[p]
                            /\ disk_tracker'[p] \subseteq disk_tracker[p]
    PROVE  Inv'
<1>1. /\ UNCHANGED <<env, change, durable, num_pages>>
      /\ flush' = NoFlush /\ pending_updates' = [p \in Point |-> NoUpdate]
      /\ put' = Opened /\ latest' = [p \in Point |-> tracker'[p].change]
  BY Zenon DEF Restart
<1>2. Block' = Block
  BY Zenon, <1>1 DEF Block
<1>3. /\ put' \in {NoPut, [step |-> "unopened"]}
      /\ put'.step \in {"none", "unopened"}
      /\ put'.step = "none" => NumRegions(num_pages) = Len(gaps)
  BY Zenon, <1>1 DEF Opened, NoPut
<1>4. NoUpdate \in Updates /\ NoFlush \in Flushes /\ put' \in Puts
  BY Zenon, <1>3 DEF NoUpdate, Updates, OptPtr, Flushes, Puts
<1>5. latest' \in [Point -> Nat] /\ \A p \in Point : latest'[p] = tracker'[p].change
  BY Zenon, <1>1 DEF Entries
<1>6. Typed'
  BY Zenon, <1>1, <1>2, <1>4, <1>5 DEF Inv, StoreInv, Typed
<1>7. Sized'
  BY ZenonT(40), <1>1, <1>3 DEF Inv, StoreInv, Sized
<1>8. \A p \in Point : Saved(p)' \subseteq Saved(p) /\ Ptrs(p)' \subseteq Ptrs(p) \cup {NoPtr}
  <2> TAKE p \in Point
  <2>1. Saved(p)' \subseteq Saved(p)
    BY Zenon DEF Saved
  <2>2. pending_updates'[p].current = NoPtr /\ pending_updates'[p].to_free = {}
    BY Zenon, <1>1 DEF NoUpdate
  <2> QED
    BY <2>1, <2>2 DEF Ptrs
<1>9. \A p \in Point : \A e \in disk_tracker'[p] : \A b \in Blocks(e.ptr) :
         b \in Block /\ disk_pages[b] = {e.change} /\ disk_bits[b] = {1}
  <2> TAKE p \in Point
  <2> TAKE e \in disk_tracker'[p]
  <2> TAKE b \in Blocks(e.ptr)
  <2>1. e \in disk_tracker[p] /\ e.ptr \in Ptrs(p)
    BY ZenonT(40) DEF Ptrs, Saved
  <2> QED
    BY <2>1 DEF Inv, StoreInv, StoredIntact, Owned, Typed
<1>10. \A p \in Point : \A e \in disk_tracker'[p] : \A b \in Blocks(e.ptr) :
          b \in bits' /\ disk_pages'[b] = {e.change} /\ disk_bits'[b] = {1}
  <2> TAKE p \in Point
  <2> TAKE e \in disk_tracker'[p]
  <2> TAKE b \in Blocks(e.ptr)
  <2>1. b \in Block /\ disk_pages[b] = {e.change} /\ disk_bits[b] = {1}
    BY Zenon, <1>9
  <2>2. /\ pages'[b] \in disk_pages'[b] /\ disk_pages'[b] \subseteq {e.change}
        /\ Bit(b, bits') \in disk_bits'[b] /\ disk_bits'[b] \subseteq {1}
    BY Zenon, <2>1
  <2> QED
    BY <2>2 DEF Bit
<1>11. Mirrored' /\ StoredIntact'
  BY Zenon, <1>2, <1>10 DEF Mirrored, StoredIntact
<1>12. Owned'
  <2> SUFFICES ASSUME NEW p \in Point, NEW x \in Ptrs(p)' PROVE Blocks(x) \subseteq bits'
    BY Zenon DEF Owned
  <2>1. x = NoPtr \/ x \in Saved(p)'
    BY Zenon, <1>1 DEF Ptrs, NoUpdate
  <2>2. x \in Saved(p)' => \E e \in disk_tracker'[p] : x = e.ptr
    BY Zenon DEF Saved
  <2> QED
    BY Zenon, <1>10, <2>1, <2>2, NoBlocks
<1>13. Apart'
  BY ZenonT(40), <1>8, NoBlocks DEF Inv, StoreInv, Apart
<1>14. FlushedStays'
  BY Zenon, <1>1 DEF Inv, StoreInv, FlushedStays
<1>15. PendingInv'
  BY Zenon, <1>1, <1>5 DEF PendingInv
<1>16. PutInv'
  BY Zenon, <1>3 DEF PutInv
<1>17. CapturedInv' /\ OldInv'
  BY <1>1 DEF CapturedInv, Early, OldInv, NoFlush
<1>18. ChangesInv'
  <2>1. flush'.step = "none"
    BY ZenonT(40), <1>1 DEF NoFlush
  <2>2. \A p \in Point : durable[p] <= tracker'[p].change /\ tracker'[p].change <= change
    BY DEF Inv, StoreInv, FlushedStays, ChangesInv, Typed, Entries
  <2> QED
    BY ZenonT(40), <1>1, <1>5, <2>1, <2>2 DEF Inv, StoreInv, ChangesInv
<1> QED
  BY Zenon, <1>6, <1>7, <1>11, <1>12, <1>13, <1>14, <1>15, <1>16, <1>17, <1>18 DEF Inv, StoreInv

\* A crash of the process keeps what is in the page cache.
LEMMA CrashInv == Inv /\ Crash => Inv'
<1> SUFFICES ASSUME Inv, Crash PROVE Inv'
  OBVIOUS
<1>1. Restart /\ UNCHANGED <<pages, bits, gaps, tracker, disk_pages, disk_bits, disk_gaps, disk_tracker>>
  BY Zenon DEF Crash, disk
<1>2. GapsTyped'
  BY <1>1 DEF Inv, GapsTyped
<1> QED
  BY <1>1, <1>2, RestartInv DEF Inv, StoreInv, Typed, Mirrored

\* Selections take an element of each set.
LEMMA SelectionsFacts ==
    ASSUME NEW D, NEW T, NEW sets \in [D -> SUBSET T], \A x \in D : sets[x] # {},
           NEW f \in Selections(sets)
    PROVE  f \in [D -> T] /\ \A x \in D : f[x] \in sets[x]
<1> DEFINE open == {x \in DOMAIN sets : Cardinality(sets[x]) > 1}
           values == UNION {sets[x] : x \in open}
           one(x) == CHOOSE v \in sets[x] : TRUE
<1>1. PICK g \in {h \in [open -> values] : \A x \in open : h[x] \in sets[x]} :
         f = [x \in DOMAIN sets |-> IF x \in open THEN g[x] ELSE one(x)]
  BY Zenon DEF Selections
<1>2. \A x \in open : g[x] \in sets[x]
  BY <1>1
<1>3. \A x \in D : one(x) \in sets[x]
  OBVIOUS
<1>4. DOMAIN sets = D
  BY Zenon
<1> HIDE DEF open, one
<1> QED
  BY <1>1, <1>2, <1>3, <1>4

\* A loss of power keeps some of the values that each block, bit, gap and pointer may
\* have on the disk.
LEMMA PowerLossInv == Inv /\ PowerLoss => Inv'
<1> SUFFICES ASSUME Inv, PowerLoss PROVE Inv'
  OBVIOUS
<1>1. /\ pages' \in Selections(disk_pages) /\ gaps' \in Selections(disk_gaps)
      /\ tracker' \in Selections(disk_tracker) /\ Restart
      /\ disk_pages' = [b \in Block |-> {pages'[b]}]
      /\ disk_bits' = [b \in Block |-> {Bit(b, bits')}]
      /\ disk_gaps' = [r \in DOMAIN gaps |-> {gaps'[r]}]
      /\ disk_tracker' = [p \in Point |-> {tracker'[p]}]
  BY Zenon DEF PowerLoss
<1>2. PICK bit \in Selections(disk_bits) : bits' = {b \in Block : bit[b] = 1}
  BY Zenon DEF PowerLoss
<1>3. /\ disk_pages \in [Block -> SUBSET Nat] /\ disk_bits \in [Block -> SUBSET {0, 1}]
      /\ disk_tracker \in [Point -> SUBSET Entries]
      /\ \A b \in Block : disk_pages[b] # {} /\ disk_bits[b] # {}
      /\ \A p \in Point : disk_tracker[p] # {}
  BY DEF Inv, StoreInv, Typed, Mirrored
<1>4. pages' \in [Block -> Nat] /\ \A b \in Block : pages'[b] \in disk_pages[b]
  BY Zenon, <1>1, <1>3, SelectionsFacts
<1>5. \A b \in Block : bit[b] \in disk_bits[b]
  BY Zenon, <1>3, SelectionsFacts
<1>6. tracker' \in [Point -> Entries] /\ \A p \in Point : tracker'[p] \in disk_tracker[p]
  BY Zenon, <1>1, <1>3, SelectionsFacts
<1>7. \A b \in Block : Bit(b, bits') \in disk_bits[b] /\ Bit(b, bits') \in {0, 1}
  <2> TAKE b \in Block
  <2>1. bit[b] \in {0, 1} /\ bit[b] \in disk_bits[b]
    BY <1>3, <1>5
  <2>2. Bit(b, bits') = bit[b]
    BY Zenon, <1>2, <2>1 DEF Bit
  <2> QED
    BY <2>1, <2>2
<1>8. /\ gaps \in Seq(GapSet) /\ disk_gaps \in Seq(SUBSET GapSet) /\ Len(disk_gaps) = Len(gaps)
      /\ Len(gaps) \in Nat /\ DOMAIN gaps = 1..Len(gaps) /\ DOMAIN disk_gaps = 1..Len(gaps)
      /\ \A r \in 1..Len(gaps) : disk_gaps[r] \subseteq GapSet /\ disk_gaps[r] # {}
  BY SeqLen, SeqElement DEF Inv, GapsTyped
<1>9. gaps' \in [1..Len(gaps) -> GapSet] /\ \A r \in 1..Len(gaps) : gaps'[r] \in disk_gaps[r]
  <2>1. disk_gaps \in [1..Len(gaps) -> SUBSET GapSet]
    BY <1>8
  <2> QED
    BY Zenon, <1>1, <1>8, <2>1, SelectionsFacts
<1>10. gaps' \in Seq(GapSet) /\ Len(gaps') = Len(gaps)
  BY Zenon, <1>8, <1>9, SeqFun
<1>11. GapsTyped'
  <2>1. DOMAIN gaps' = DOMAIN gaps
    BY Zenon, <1>8, <1>9
  <2>2. disk_gaps' = [r \in DOMAIN gaps' |-> {gaps'[r]}]
    BY Zenon, <1>1, <2>1
  <2>3. /\ disk_gaps' \in Seq(SUBSET GapSet) /\ Len(disk_gaps') = Len(gaps')
        /\ \A r \in 1..Len(gaps') : gaps'[r] \in disk_gaps'[r]
    BY Zenon, <1>10, <2>2, SingletonGaps
  <2> QED
    BY Zenon, <1>10, <2>3 DEF GapsTyped
<1>12. /\ pages' \in [Block -> Nat] /\ bits' \subseteq Block
       /\ tracker' \in [Point -> Entries]
  BY Zenon, <1>2, <1>4, <1>6
<1>13. /\ disk_pages' \in [Block -> SUBSET Nat] /\ disk_bits' \in [Block -> SUBSET {0, 1}]
       /\ disk_tracker' \in [Point -> SUBSET Entries]
  BY Zenon, <1>1, <1>7, <1>12
<1>14. /\ \A b \in Block : /\ pages'[b] \in disk_pages'[b] /\ disk_pages'[b] \subseteq disk_pages[b]
                           /\ Bit(b, bits') \in disk_bits'[b] /\ disk_bits'[b] \subseteq disk_bits[b]
       /\ \A p \in Point : /\ tracker'[p] \in disk_tracker'[p]
                           /\ disk_tracker'[p] \subseteq disk_tracker[p]
  BY <1>1, <1>4, <1>6, <1>7
<1> QED
  BY Zenon, <1>1, <1>10, <1>11, <1>12, <1>13, <1>14, RestartInv
=============================================================================
