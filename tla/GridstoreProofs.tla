--------------------------- MODULE GridstoreProofs ---------------------------
(***************************************************************************)
(* The invariant of Gridstore is kept when put_value looks for blocks and  *)
(* adds pages, and by deletes and clears; so it is inductive.  Whatever    *)
(* the sizes of pages, regions and chunks, the points, the values and the  *)
(* faults: the values of a Gridstore are not corrupted.                    *)
(***************************************************************************)
EXTENDS GridstoreWrites

\* What a put does with the blocks that it finds, or does not find.
LEMMA FoundFacts ==
    ASSUME AllocatorSound, Inv, NEW p \in Point, NEW n \in Nat \ {0},
           NEW g \in Seq(GapSet), Len(g) = NumRegions(num_pages)
    PROVE  LET found == Found(p, n, FindAvailable(bits, g, n))
           IN  /\ found \in Puts /\ found.step \in {"write", "panic"}
               /\ found.step = "write" => /\ found.ptr \in Ptr
                                          /\ Blocks(found.ptr) \subseteq Block \ bits
<1> DEFINE at == FindAvailable(bits, g, n)
<1>1. num_pages \in Nat /\ num_pages <= env.pages /\ bits \in SUBSET Int
  BY EnvsAssumption DEF Inv, StoreInv, Sized, Typed, Block
<1>2. \/ at = None
      \/ at \in Nat /\ at..(at + n - 1) \subseteq (0..(num_pages * PageBlocks - 1)) \ bits
  BY Zenon, <1>1 DEF AllocatorSound, AllocatesFree
<1>3. 0..(num_pages * PageBlocks - 1) \subseteq Block
  BY <1>1, Attached DEF Inv, StoreInv
<1> HIDE DEF at
<1>4. /\ Found(p, n, at) \in Puts /\ Found(p, n, at).step \in {"write", "panic"}
      /\ Found(p, n, at).step = "write" => at # None
      /\ Found(p, n, at).ptr = [at |-> at, n |-> n]
  BY <1>2 DEF Found, Puts
<1>5. at # None => /\ [at |-> at, n |-> n] \in Ptr
                   /\ Blocks([at |-> at, n |-> n]) = at..(at + n - 1)
  BY <1>2 DEF Ptr, Blocks
<1> QED
  BY Zenon, <1>2, <1>3, <1>4, <1>5 DEF at

\* The blocks that are found for a value are free.
LEMMA FindBlocksInv ==
    ASSUME AllocatorSound, Inv, NEW p \in Point, NEW n \in env.sizes, FindBlocks(p, n)
    PROVE  Inv'
<1> DEFINE at == FindAvailable(bits, gaps, n)
           missing == LargerOf(n - TrailingFree(gaps), 0)
           more == CeilDiv(missing, PageBlocks)
<1>1. /\ UNCHANGED <<env, latest, durable, store, disk, flush>>
      /\ put = NoPut /\ change' = change + 1
      /\ IF at # None \/ more = 0 THEN put' = Found(p, n, at)
         ELSE /\ num_pages + more <= env.pages
              /\ put' = [step |-> "page", point |-> p, ptr |-> [at |-> None, n |-> n],
                         grow |-> more]
  BY DEF FindBlocks
<1>2. n \in Nat \ {0} /\ change \in Nat /\ gaps \in Seq(GapSet)
  BY EnvsAssumption DEF Inv, StoreInv, Typed, GapsTyped
<1>3. Len(gaps) = NumRegions(num_pages)
  BY <1>1 DEF Inv, StoreInv, Sized, NoPut
<1>4. more \in Nat
  <2>1. TrailingFree(gaps) \in Nat
    BY Zenon, <1>2 DEF AllocatorSound
  <2>2. missing \in Nat /\ PageBlocks \in Nat \ {0}
    BY <1>2, <2>1, SizesAssumption DEF LargerOf
  <2> QED
    BY <2>2 DEF CeilDiv
<1>5. GapsTyped'
  BY <1>1 DEF Inv, GapsTyped, store, disk
<1>6. UNCHANGED <<pages, bits, tracker, pending_updates, disk_pages, disk_bits, disk_tracker,
                  num_pages, gaps>>
  BY Zenon, <1>1 DEF store, disk
<1> HIDE DEF at, missing, more
<1>7. CASE put' = Found(p, n, at)
  <2>1. /\ put' \in Puts /\ put'.step \in {"write", "panic"}
        /\ put'.step = "write" => put'.ptr \in Ptr /\ Blocks(put'.ptr) \subseteq Block \ bits
    BY Zenon, <1>2, <1>3, <1>7, FoundFacts DEF at
  <2>2. Sized'
    BY ZenonT(40), <1>1, <1>3, <1>6, <2>1 DEF Inv, StoreInv, Sized
  <2> QED
    BY <1>1, <1>2, <1>5, <1>6, <2>1, <2>2, PutStepInv
<1>8. CASE put' # Found(p, n, at)
  <2>1. /\ put' = [step |-> "page", point |-> p, ptr |-> [at |-> None, n |-> n], grow |-> more]
        /\ more > 0 /\ num_pages + more <= env.pages
    BY <1>1, <1>4, <1>8
  <2>2. put' \in Puts /\ put'.step = "page" /\ put'.grow = more
    BY Zenon, <1>2, <1>4, <2>1 DEF Puts
  <2>3. Sized'
    BY <1>1, <1>3, <1>6, <2>1, <2>2 DEF Inv, StoreInv, Sized
  <2> QED
    BY <1>1, <1>2, <1>5, <1>6, <2>2, <2>3, PutStepInv
<1> QED
  BY <1>7, <1>8

\* A page is attached before the bitmask covers it.
LEMMA CreatePageInv == Inv /\ CreatePage => Inv'
<1> SUFFICES ASSUME Inv, CreatePage PROVE Inv'
  OBVIOUS
<1>1. /\ UNCHANGED <<counters, pages, bits, gaps, tracker, pending_updates, disk, flush>>
      /\ put.step = "page" /\ put' = [put EXCEPT !.step = "cover"]
      /\ num_pages' = num_pages + 1
  BY DEF CreatePage
<1>2. put' \in Puts /\ put'.step = "cover" /\ put'.grow = put.grow /\ put.grow \in Nat
  BY <1>1 DEF Inv, StoreInv, Typed, Puts, NoPut
<1>3. GapsTyped'
  BY <1>1 DEF Inv, GapsTyped, disk
<1>4. UNCHANGED <<env, latest, durable, change, disk_pages, disk_bits, disk_tracker>>
  BY <1>1 DEF counters, disk
<1>5. env.pages \in Nat /\ change \in Nat
  BY EnvsAssumption DEF Inv, StoreInv, Typed
<1>6. Sized'
  BY <1>1, <1>2, <1>4, <1>5 DEF Inv, StoreInv, Sized
<1> QED
  BY <1>1, <1>2, <1>3, <1>4, <1>5, <1>6, PutStepInv

\* The gaps of one more page.
LEMMA MoreGaps ==
    ASSUME GapsTyped, NEW k \in Nat,
           gaps' = gaps \o [r \in 1..k |-> AllFreeGaps],
           disk_gaps' = disk_gaps \o [r \in 1..k |-> {AllFreeGaps}]
    PROVE  GapsTyped' /\ Len(gaps') = Len(gaps) + k
<1> DEFINE new == [r \in 1..k |-> AllFreeGaps]
           disk_new == [r \in 1..k |-> {AllFreeGaps}]
<1>1. new \in [1..k -> GapSet] /\ disk_new \in [1..k -> SUBSET GapSet]
  BY DEF GapSet
<1>2. new \in Seq(GapSet) /\ Len(new) = k
  BY Zenon, <1>1, SeqFun
<1>3. disk_new \in Seq(SUBSET GapSet) /\ Len(disk_new) = k
  BY Zenon, <1>1, SeqFun
<1>4. \A r \in 1..k : new[r] \in disk_new[r]
  OBVIOUS
<1> HIDE DEF new, disk_new
<1>5. gaps' = gaps \o new /\ disk_gaps' = disk_gaps \o disk_new
  BY DEF new, disk_new
<1>6. Len(gaps) \in Nat
  BY SeqLen DEF GapsTyped
<1>7. /\ gaps' \in Seq(GapSet) /\ Len(gaps') = Len(gaps) + k
      /\ \A r \in 1..(Len(gaps) + k) :
            gaps'[r] = IF r <= Len(gaps) THEN gaps[r] ELSE new[r - Len(gaps)]
  <2>1. gaps \in Seq(GapSet)
    BY DEF GapsTyped
  <2>2. /\ gaps \o new \in Seq(GapSet) /\ Len(gaps \o new) = Len(gaps) + Len(new)
        /\ \A r \in 1..(Len(gaps) + Len(new)) :
              (gaps \o new)[r] = IF r <= Len(gaps) THEN gaps[r] ELSE new[r - Len(gaps)]
    BY Zenon, <1>2, <2>1, SeqConcat
  <2> QED
    BY Zenon, <1>2, <1>5, <2>2
<1>8. /\ disk_gaps' \in Seq(SUBSET GapSet) /\ Len(disk_gaps') = Len(gaps) + k
      /\ \A r \in 1..(Len(gaps) + k) :
            disk_gaps'[r] = IF r <= Len(gaps) THEN disk_gaps[r] ELSE disk_new[r - Len(gaps)]
  <2>1. disk_gaps \in Seq(SUBSET GapSet) /\ Len(disk_gaps) = Len(gaps)
    BY DEF GapsTyped
  <2>2. /\ disk_gaps \o disk_new \in Seq(SUBSET GapSet)
        /\ Len(disk_gaps \o disk_new) = Len(disk_gaps) + Len(disk_new)
        /\ \A r \in 1..(Len(disk_gaps) + Len(disk_new)) :
              (disk_gaps \o disk_new)[r] =
                  IF r <= Len(disk_gaps) THEN disk_gaps[r] ELSE disk_new[r - Len(disk_gaps)]
    BY Zenon, <1>3, <2>1, SeqConcat
  <2> QED
    BY Zenon, <1>3, <1>5, <2>1, <2>2
<1>9. \A r \in 1..(Len(gaps) + k) : gaps'[r] \in disk_gaps'[r]
  BY <1>4, <1>6, <1>7, <1>8 DEF GapsTyped
<1> QED
  BY <1>7, <1>8, <1>9 DEF GapsTyped

\* The bitmask and the gaps are extended for the new page.
LEMMA CoverNewPageInv == AllocatorSound /\ Inv /\ CoverNewPage => Inv'
<1> SUFFICES ASSUME AllocatorSound, Inv, CoverNewPage PROVE Inv'
  OBVIOUS
<1>1. /\ UNCHANGED <<counters, num_pages, pages, bits, tracker, pending_updates,
                     disk_pages, disk_tracker, flush>>
      /\ put.step = "cover"
      /\ put' = IF put.grow > 1 THEN [put EXCEPT !.step = "page", !.grow = @ - 1]
                ELSE Found(put.point, put.ptr.n, FindAvailable(bits, gaps', put.ptr.n))
      /\ disk_bits' = [b \in Block |-> {Bit(b, bits)}]
      /\ gaps' = gaps \o [r \in 1..NumRegions(1) |-> AllFreeGaps]
      /\ disk_gaps' = disk_gaps \o [r \in 1..NumRegions(1) |-> {AllFreeGaps}]
  BY DEF CoverNewPage
<1>2. put.point \in Point /\ put.ptr.n \in Nat \ {0} /\ put.grow \in Nat
  BY <1>1 DEF Inv, StoreInv, Typed, Puts, NoPut
<1>3. GapsTyped' /\ Len(gaps') = Len(gaps) + NumRegions(1)
  BY Zenon, <1>1, MoreGaps, Regions DEF Inv
<1>4. num_pages \in Nat /\ num_pages - 1 \in Nat /\ env.pages \in Nat /\ change \in Nat
  BY EnvsAssumption DEF Inv, StoreInv, Sized, Typed
<1>5. Len(gaps') = NumRegions(num_pages)
  <2>1. Len(gaps) = NumRegions(num_pages - 1)
    BY <1>1 DEF Inv, StoreInv, Sized
  <2>2. NumRegions((num_pages - 1) + 1) = NumRegions(num_pages - 1) + NumRegions(1)
    BY <1>4, Regions
  <2> QED
    BY <1>3, <1>4, <2>1, <2>2
<1>6. UNCHANGED <<env, latest, durable, change>>
  BY <1>1 DEF counters
<1>7. /\ UNCHANGED <<pages, bits, tracker, pending_updates, disk_pages, disk_tracker, flush>>
      /\ disk_bits' \in {disk_bits, [b \in Block |-> {Bit(b, bits)}]}
  BY <1>1
<1>8. CASE put.grow > 1
  <2>1. put' = [put EXCEPT !.step = "page", !.grow = @ - 1]
    BY <1>1, <1>8
  <2>2. put' \in Puts /\ put'.step = "page" /\ put'.grow = put.grow - 1
    <3>1. put \in [step : {"page", "cover", "write", "mark", "set", "panic"}, point : Point,
                   ptr : [at : Nat \cup {None}, n : Nat \ {0}], grow : Nat]
      BY <1>1 DEF Inv, StoreInv, Typed, Puts, NoPut
    <3>2. put.grow - 1 \in Nat
      BY <1>2, <1>8
    <3>3. put' = [put EXCEPT !.step = "page", !.grow = put.grow - 1]
      BY <2>1
    <3> QED
      BY Zenon, <3>1, <3>2, <3>3 DEF Puts
  <2>3. put.grow > 0 /\ num_pages + put.grow <= env.pages + 1
    BY <1>1 DEF Inv, StoreInv, Sized
  <2>4. Sized'
    <3>1. num_pages' = num_pages /\ num_pages \in 1..env.pages
      BY <1>1 DEF Inv, StoreInv, Sized
    <3> QED
      BY <1>2, <1>4, <1>5, <1>6, <1>8, <2>2, <2>3, <3>1 DEF Sized
  <2> QED
    BY <1>3, <1>4, <1>6, <1>7, <2>2, <2>4, PutStepInv
<1>9. CASE ~(put.grow > 1)
  <2>1. gaps' \in Seq(GapSet)
    BY <1>3 DEF GapsTyped
  <2>2. put' = Found(put.point, put.ptr.n, FindAvailable(bits, gaps', put.ptr.n))
    BY Zenon, <1>1, <1>9
  <2>3. /\ put' \in Puts /\ put'.step \in {"write", "panic"}
        /\ put'.step = "write" => put'.ptr \in Ptr /\ Blocks(put'.ptr) \subseteq Block \ bits
    BY <1>2, <1>5, <2>1, <2>2, FoundFacts
  <2>4. Sized'
    BY Zenon, <1>1, <1>5, <1>6, <2>3 DEF Inv, StoreInv, Sized
  <2> QED
    BY <1>3, <1>4, <1>6, <1>7, <2>3, <2>4, PutStepInv
<1> QED
  BY <1>8, <1>9

-----------------------------------------------------------------------------
\* Deleting leaves the pointer of the value to be freed.
LEMMA DeleteInv == ASSUME Inv, NEW q \in Point, Delete(q) PROVE Inv'
<1> USE DEF Inv, StoreInv
<1> DEFINE v == pending_updates[q]
           w == [current |-> NoPtr, to_free |-> v.to_free \cup {Get(q).ptr},
                 change |-> change + 1]
<1>1. /\ UNCHANGED <<env, durable, num_pages, pages, bits, gaps, tracker, disk, put, flush>>
      /\ put = NoPut /\ Get(q).ptr # NoPtr /\ change' = change + 1
      /\ pending_updates' = [pending_updates EXCEPT ![q] = w]
      /\ latest' = [latest EXCEPT ![q] = change + 1]
  BY DEF Delete
<1>2. v \in Updates /\ tracker[q] \in Entries /\ change \in Nat
  BY Zenon DEF Typed
<1>3. /\ v = NoUpdate => Get(q).ptr = tracker[q].ptr
      /\ v # NoUpdate => Get(q).ptr = v.current /\ Unsaved(q, v)
      /\ Get(q).ptr \in Ptr
  <2>1. v = NoUpdate => Get(q).ptr = tracker[q].ptr
    BY DEF Get
  <2>2. v # NoUpdate => Get(q) = Entry(v.current, v.change)
    BY DEF Get
  <2>3. v # NoUpdate => Get(q).ptr = v.current
    BY <2>2 DEF Entry
  <2> QED
    BY Zenon, <1>1, <1>2, <2>1, <2>3 DEF PendingInv, Updates, Entries, OptPtr
<1>4. Get(q).ptr \in Ptrs(q)
  BY <1>3 DEF Ptrs, Saved, Mirrored
<1>5. w \in Updates /\ w # NoUpdate /\ w.current = NoPtr /\ w.change = change + 1
      /\ w.to_free = v.to_free \cup {Get(q).ptr}
  BY <1>2, <1>3 DEF Updates, OptPtr, NoUpdate
<1> HIDE DEF w
<1>6. /\ pending_updates' \in [Point -> Updates] /\ latest' \in [Point -> Nat]
      /\ pending_updates'[q] = w /\ latest'[q] = change + 1
      /\ \A p \in Point : p # q => pending_updates'[p] = pending_updates[p] /\ latest'[p] = latest[p]
  BY <1>1, <1>2, <1>5 DEF Typed
<1>7. Typed'
  BY <1>1, <1>6 DEF Typed, Block, disk
<1>8. put.step = "none"
  BY Zenon, <1>1 DEF NoPut
<1>9. Sized' /\ GapsTyped'
  BY Zenon, <1>1 DEF Sized, GapsTyped, disk
<1>10. \A p \in Point : Saved(p)' = Saved(p) /\ Ptrs(p)' \subseteq Ptrs(p) \cup {NoPtr}
  BY ZenonT(40), <1>1, <1>4, <1>5, <1>6 DEF Saved, Ptrs, disk
<1>11. Owned' /\ Apart'
  <2>1. bits' = bits
    BY Zenon, <1>1
  <2> QED
    BY <1>10, <2>1, NoBlocks DEF Owned, Apart
<1>12. Mirrored' /\ StoredIntact' /\ FlushedStays' /\ PutInv'
  BY Zenon, <1>1, <1>8 DEF Mirrored, StoredIntact, FlushedStays, PutInv, disk, Block
<1>13. PendingInv'
  <2>1. ASSUME NEW p \in Point, p # q
        PROVE  IF pending_updates'[p] = NoUpdate THEN tracker'[p].change = latest'[p]
               ELSE Unsaved(p, pending_updates[p])' /\ pending_updates'[p].change = latest'[p]
    BY <1>1, <1>6, <1>10, <2>1 DEF PendingInv, Unsaved
  <2>2. Unsaved(q, pending_updates[q])'
    BY ZenonT(40), <1>5, <1>6 DEF Unsaved
  <2> QED
    BY ZenonT(40), <1>5, <1>6, <2>1, <2>2 DEF PendingInv
<1>14. CapturedInv'
  <2>1. Early' = Early
    BY Zenon, <1>1 DEF Early
  <2> SUFFICES ASSUME Early, NEW p \in Point, flush.updates[p] # NoUpdate
               PROVE  Unsaved(p, flush.updates[p])' /\ Follows(p, flush.updates[p], pending_updates[p])'
    BY ZenonT(40), <1>1, <2>1 DEF CapturedInv, disk
  <2> DEFINE u == flush.updates[p]
  <2>2. p = q => Follows(p, u, w)
    <3> SUFFICES ASSUME p = q PROVE Follows(p, u, w)
      BY Zenon
    <3>1. Follows(p, u, v) /\ Unsaved(p, v) /\ v # NoUpdate
      BY Zenon DEF CapturedInv, PendingInv, Follows
    <3>2. Get(q).ptr = v.current /\ v.current # NoPtr
      BY Zenon, <1>1, <1>3, <3>1
    <3>3. w.to_free # u.to_free
      BY Zenon, <1>5, <3>1, <3>2 DEF Follows, Unsaved
    <3>4. tracker[p].ptr \in Saved(p)
      BY Zenon DEF Mirrored, Saved
    <3>5. tracker[p].ptr \in w.to_free => tracker[p].ptr \in v.to_free
      BY Zenon, <1>5, <3>1, <3>2, <3>4 DEF Unsaved
    <3> QED
      BY Zenon, <1>5, <3>1, <3>2, <3>3, <3>5 DEF Follows
  <2>3. Follows(p, u, pending_updates'[p])
    BY Zenon, <1>6, <2>2 DEF CapturedInv
  <2>4. Unsaved(p, flush.updates[p])'
    BY ZenonT(40), <1>1, <1>10 DEF CapturedInv, Unsaved
  <2> QED
    BY <1>1, <2>3, <2>4 DEF Follows
<1>15. OldInv'
  <2> SUFFICES ASSUME flush.step \in {"tracker", "free"}, NEW o \in flush.old, NEW p \in Point,
                      NEW x \in {tracker[p].ptr, pending_updates'[p].current}
                                   \cup pending_updates'[p].to_free
               PROVE  Blocks(o) \cap Blocks(x) = {}
    BY <1>1, <1>8 DEF OldInv
  <2>1. \/ x = NoPtr
        \/ x \in {tracker[p].ptr, pending_updates[p].current} \cup pending_updates[p].to_free
    BY ZenonT(40), <1>3, <1>5, <1>6
  <2> QED
    BY Zenon, <2>1, NoBlocks DEF OldInv
<1>16. ChangesInv'
  <2>1. \A p \in Point : latest[p] <= latest'[p] /\ latest'[p] <= change'
    BY <1>1, <1>2, <1>6 DEF ChangesInv, Typed
  <2>2. \A p \in Point : latest[p] \in Nat /\ latest'[p] \in Nat /\ durable[p] \in Nat
                         /\ (flush # NoFlush => flush.latest[p] \in Nat)
    BY <1>6 DEF Typed, Flushes
  <2>3. \A p \in Point : \A e \in disk_tracker[p] : e.change \in Nat
    BY DEF Typed, Entries
  <2> QED
    BY <1>1, <1>2, <2>1, <2>2, <2>3 DEF ChangesInv, disk
<1> QED
  BY ZenonT(40), <1>7, <1>9, <1>11, <1>12, <1>13, <1>14, <1>15, <1>16

\* A cleared store is a new one.
LEMMA ClearInv == Inv /\ Clear => Inv'
<1> SUFFICES ASSUME Inv, Clear PROVE Inv'
  OBVIOUS
<1>1. /\ env' = env /\ put' = put /\ put = NoPut /\ flush' = NoFlush
      /\ change' = change + 1 /\ num_pages' = 1 /\ bits' = {}
      /\ latest' = [p \in Point |-> change + 1]
      /\ durable' = [p \in Point |-> change + 1]
      /\ pages' = [b \in Block |-> 0]
      /\ gaps' = [r \in 1..NumRegions(1) |-> AllFreeGaps]
      /\ tracker' = [p \in Point |-> Entry(NoPtr, change + 1)]
      /\ pending_updates' = [p \in Point |-> NoUpdate]
      /\ disk_pages' = [b \in Block |-> {0}]
      /\ disk_bits' = [b \in Block |-> {0}]
      /\ disk_gaps' = [r \in DOMAIN gaps' |-> {AllFreeGaps}]
      /\ disk_tracker' = [p \in Point |-> {tracker'[p]}]
  BY DEF Clear
<1>2. /\ env \in Envs /\ env.pages \in Nat \ {0} /\ change \in Nat /\ Block' = Block
      /\ NumRegions(1) \in Nat
  <2>1. NumRegions(1) \in Nat
    BY Zenon, Regions
  <2> QED
    BY <1>1, <2>1, EnvsAssumption DEF Inv, StoreInv, Typed, Block
<1>3. NoUpdate \in Updates /\ Entry(NoPtr, change + 1) \in Entries
  BY <1>2 DEF NoUpdate, Updates, Entry, Entries, OptPtr
<1>4. Typed'
  BY <1>1, <1>2, <1>3 DEF Typed, Puts, Flushes
<1>5. gaps' \in Seq(GapSet) /\ Len(gaps') = NumRegions(1)
  <2>1. gaps' \in [1..NumRegions(1) -> GapSet]
    BY <1>1 DEF GapSet
  <2> QED
    BY Zenon, <1>2, <2>1, SeqFun
<1>6. GapsTyped'
  <2>1. disk_gaps' = [r \in DOMAIN gaps' |-> {gaps'[r]}]
    BY <1>1
  <2>2. /\ disk_gaps' \in Seq(SUBSET GapSet) /\ Len(disk_gaps') = Len(gaps')
        /\ \A r \in 1..Len(gaps') : gaps'[r] \in disk_gaps'[r]
    BY Zenon, <1>5, <2>1, SingletonGaps
  <2> QED
    BY <1>5, <2>2 DEF GapsTyped
<1>7. put'.step = "none" /\ flush'.step = "none"
  BY Zenon, <1>1 DEF NoPut, NoFlush
<1>8. Sized'
  BY <1>1, <1>2, <1>5, <1>7 DEF Sized
<1>9. \A p \in Point : /\ tracker'[p].ptr = NoPtr /\ tracker'[p].change = change + 1
                       /\ disk_tracker'[p] = {tracker'[p]} /\ pending_updates'[p] = NoUpdate
                       /\ latest'[p] = change + 1 /\ durable'[p] = change + 1
  BY Zenon, <1>1 DEF Entry
<1>10. \A p \in Point : Ptrs(p)' = {NoPtr}
  BY <1>9 DEF Ptrs, Saved, NoUpdate
<1>11. Mirrored'
  BY Zenon, <1>1, <1>2, <1>9 DEF Mirrored, Bit
<1>12. Owned' /\ Apart' /\ StoredIntact' /\ FlushedStays'
  BY <1>2, <1>9, <1>10, NoBlocks DEF Owned, Apart, StoredIntact, FlushedStays
<1>13. PendingInv' /\ PutInv' /\ CapturedInv' /\ OldInv'
  BY ZenonT(40), <1>1, <1>7, <1>9 DEF PendingInv, PutInv, CapturedInv, Early, OldInv
<1>14. ChangesInv'
  BY <1>1, <1>2, <1>7, <1>9 DEF ChangesInv
<1> QED
  BY Zenon, <1>4, <1>6, <1>8, <1>11, <1>12, <1>13, <1>14 DEF Inv, StoreInv

-----------------------------------------------------------------------------
\* Every step keeps the invariant.
LEMMA NextInv == AllocatorSound /\ Inv /\ [Next]_vars => Inv'
<1> SUFFICES ASSUME AllocatorSound, Inv, [Next]_vars PROVE Inv'
  OBVIOUS
<1>1. ASSUME NEW p \in Point, Delete(p) PROVE Inv'
  BY <1>1, DeleteInv
<1>2. ASSUME NEW p \in Point, NEW n \in env.sizes, FindBlocks(p, n) PROVE Inv'
  BY <1>2, FindBlocksInv
<1>3. CASE CreatePage \/ CoverNewPage \/ WriteIntoPages \/ MarkUsed \/ SetPointer
  BY Zenon, <1>3, CreatePageInv, CoverNewPageInv, WriteIntoPagesInv, MarkUsedInv, SetPointerInv
<1>4. CASE Clear \/ Crash \/ PowerLoss
  BY <1>4, ClearInv, CrashInv, PowerLossInv
<1>5. CASE Capture \/ SyncBits \/ SyncGaps \/ SyncPages
  BY <1>5, CaptureInv, SyncBitsInv, SyncGapsInv, SyncPagesInv
<1>6. CASE WritePending \/ SyncTracker \/ FreeBlocks \/ FlushFail
  BY Zenon, <1>6, WritePendingInv, SyncTrackerInv, FreeBlocksInv, FlushFailInv
<1>7. CASE UNCHANGED vars
  <2> USE <1>7 DEF vars, counters, store, disk, Inv, StoreInv
  <2>1. Typed' /\ Sized' /\ GapsTyped'
    BY DEF Typed, Block, Sized, GapsTyped
  <2>2. Mirrored' /\ StoredIntact' /\ FlushedStays'
    BY ZenonT(40) DEF Mirrored, StoredIntact, FlushedStays, Block
  <2>3. Owned' /\ Apart'
    BY DEF Owned, Apart, Ptrs, Saved
  <2>4. PutInv'
    BY DEF PutInv, Ptrs, Saved, Block
  <2>5. PendingInv'
    BY DEF PendingInv, Unsaved, Saved
  <2>6. CapturedInv'
    BY ZenonT(40) DEF CapturedInv, Early, Unsaved, Saved, Follows
  <2>7. OldInv' /\ ChangesInv'
    BY Zenon DEF OldInv, ChangesInv
  <2> QED
    BY ZenonT(40), <2>1, <2>2, <2>3, <2>4, <2>5, <2>6, <2>7
<1> QED
  BY Zenon, <1>1, <1>2, <1>3, <1>4, <1>5, <1>6, <1>7 DEF Next

\* What is read is in the pages.
LEMMA InvReadsLatest == Inv => ReadsLatest
<1> SUFFICES ASSUME Inv, NEW p \in Point
             PROVE  /\ Get(p).change = latest[p]
                    /\ \A b \in Blocks(Get(p).ptr) : pages[b] = latest[p] /\ b \in bits
  BY Zenon DEF ReadsLatest
<1> USE DEF Inv, StoreInv
<1>1. CASE pending_updates[p] = NoUpdate
  <2>1. Get(p) = tracker[p] /\ tracker[p].change = latest[p]
    BY Zenon, <1>1 DEF Get, PendingInv
  <2>2. tracker[p] \in disk_tracker[p] /\ tracker[p].ptr \in Ptrs(p)
    BY Zenon DEF Mirrored, Ptrs, Saved
  <2>3. \A b \in Blocks(tracker[p].ptr) : b \in bits /\ b \in Block
    BY Zenon, <2>2 DEF Owned, Typed
  <2> QED
    BY <2>1, <2>2, <2>3 DEF StoredIntact, Mirrored
<1>2. CASE pending_updates[p] # NoUpdate
  <2>1. Get(p) = Entry(pending_updates[p].current, pending_updates[p].change)
    BY <1>2 DEF Get
  <2>2. Get(p).ptr = pending_updates[p].current /\ Get(p).change = pending_updates[p].change
    BY <2>1 DEF Entry
  <2>3. Unsaved(p, pending_updates[p]) /\ pending_updates[p].change = latest[p]
    BY Zenon, <1>2 DEF PendingInv
  <2>4. Blocks(pending_updates[p].current) \subseteq bits
    BY DEF Owned, Ptrs
  <2> QED
    BY Zenon, <2>2, <2>3, <2>4, NoBlocks DEF Unsaved
<1> QED
  BY <1>1, <1>2

\* Every reachable state of a store has the invariant and gaps of the right shape.
LEMMA InvHolds == ASSUME AllocatorSound PROVE Spec => []Inv
<1>1. Inv /\ [Next]_vars => Inv'
  BY NextInv
<1> QED
  BY PTL, InitInv, <1>1 DEF Spec

\* Why values stay intact: at every step of put_value, delete_value, clear and the
\* flusher, and after any restart, the pointers that are on the disk, pending or
\* captured have blocks of their own that are marked used, and a flusher frees
\* blocks only once no pointer leads to them.
THEOREM StoreInvariant == ASSUME AllocatorSound PROVE Spec => []StoreInv
<1>1. Inv => StoreInv
  BY DEF Inv
<1> QED
  BY PTL, InvHolds, <1>1

\* "Data will not be corrupted" (put_value), for every number and size of pages,
\* values and points, and any sequence of puts, deletes, clears, flushes that fail,
\* crashes and losses of power: a pointer that may be on the disk is one of blocks
\* that have its value there and are marked used.
THEOREM StoredStaysIntact == ASSUME AllocatorSound PROVE Spec => []StoredIntact
<1>1. Inv => StoredIntact
  BY DEF Inv, StoreInv
<1> QED
  BY PTL, InvHolds, <1>1

\* get_value returns what was put last, while flushers run and blocks are used again.
THEOREM ReadsAreLatest == ASSUME AllocatorSound PROVE Spec => []ReadsLatest
  BY PTL, InvHolds, InvReadsLatest

\* What a flusher has persisted is not lost, nor replaced by something older.
THEOREM FlushedIsDurable == ASSUME AllocatorSound PROVE Spec => []FlushedStays
<1>1. Inv => FlushedStays
  BY DEF Inv, StoreInv
<1> QED
  BY PTL, InvHolds, <1>1
=============================================================================
