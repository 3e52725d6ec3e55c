--------------------------- MODULE GridstoreWrites ---------------------------
(***************************************************************************)
(* The invariant of Gridstore is kept when a flusher writes the pointers   *)
(* that it captured, all of them or some before it fails, and when         *)
(* put_value writes a value, marks its blocks and sets its pointer.        *)
(***************************************************************************)
EXTENDS GridstoreFlush

\* Writing pointers into the tracker, whichever of them reach it.
LEMMA WriteInv ==
    ASSUME Inv, Early, flush.step = "write", NEW points \in SUBSET Captured, WritePointers(points),
           UNCHANGED <<counters, num_pages, pages, bits, gaps, disk_pages, disk_bits, disk_gaps, put>>
    PROVE  /\ flush' \in Flushes => Typed'
           /\ Sized' /\ GapsTyped' /\ Mirrored' /\ Owned' /\ Apart' /\ StoredIntact'
           /\ FlushedStays' /\ PendingInv' /\ PutInv'
           /\ \A p \in Point : \A e \in disk_tracker'[p] : e.change <= change
           /\ \A p \in Point : Ptrs(p)' \subseteq Ptrs(p) \cup {NoPtr}
<1> USE DEF Inv, StoreInv, counters
<1>1. /\ \A p \in points :
            /\ p \in Point /\ flush.updates[p] # NoUpdate
            /\ tracker'[p] = Entry(flush.updates[p].current, flush.updates[p].change)
            /\ disk_tracker'[p] = disk_tracker[p] \cup {tracker'[p]}
            /\ pending_updates'[p] = Drained(p)
      /\ \A p \in Point \ points : /\ tracker'[p] = tracker[p]
                                   /\ disk_tracker'[p] = disk_tracker[p]
                                   /\ pending_updates'[p] = pending_updates[p]
  BY WrittenPoints
<1>2. \A p \in points :
         /\ tracker'[p].ptr = flush.updates[p].current
         /\ tracker'[p].change = flush.updates[p].change
         /\ Saved(p)' = Saved(p) \cup {flush.updates[p].current}
  <2> TAKE p \in points
  <2>1. /\ tracker'[p].ptr = flush.updates[p].current
        /\ tracker'[p].change = flush.updates[p].change
    <3>1. tracker'[p] = Entry(flush.updates[p].current, flush.updates[p].change)
      BY <1>1
    <3> QED
      BY <3>1 DEF Entry
  <2>2. disk_tracker'[p] = disk_tracker[p] \cup {tracker'[p]}
    BY <1>1
  <2>3. Saved(p)' = Saved(p) \cup {tracker'[p].ptr}
    BY Zenon, <2>2 DEF Saved
  <2> QED
    BY <2>1, <2>3
<1>3. Sized' /\ GapsTyped'
  BY Zenon DEF Sized, GapsTyped
<1>4. flush' \in Flushes => Typed'
  BY Zenon, WrittenPoints DEF Typed, Block
<1>5. \A p \in points :
         /\ p \in Point
         /\ Unsaved(p, flush.updates[p]) /\ Follows(p, flush.updates[p], pending_updates[p])
         /\ flush.updates[p].change = flush.latest[p]
         /\ \A b \in Blocks(flush.updates[p].current) :
               disk_bits[b] = {1} /\ disk_pages[b] = {flush.updates[p].change}
  BY WrittenPoints DEF CapturedInv
<1>6. \A p \in Point : /\ Saved(p)' \subseteq Saved(p) \cup {NoPtr} \cup Ptrs(p)
                       /\ Ptrs(p)' \subseteq Ptrs(p) \cup {NoPtr}
  <2> TAKE p \in Point
  <2>1. CASE p \in points
    <3>1. Saved(p)' = Saved(p) \cup {flush.updates[p].current}
      BY Zenon, <2>1, <1>2
    <3>2. flush.updates[p].current \in {NoPtr} \cup Ptrs(p)
      BY Zenon, <2>1, <1>5 DEF Follows, Ptrs
    <3>3. /\ pending_updates'[p].current \in {NoPtr, pending_updates[p].current}
          /\ pending_updates'[p].to_free \subseteq pending_updates[p].to_free
      BY <2>1, WrittenPoints, DrainedFacts
    <3> QED
      BY <3>1, <3>2, <3>3 DEF Ptrs
  <2>2. CASE p \notin points
    BY Zenon, <2>2, WrittenPoints DEF Saved, Ptrs
  <2> QED
    BY <2>1, <2>2
<1>7. Mirrored'
  <2>1. \A p \in Point : tracker'[p] \in disk_tracker'[p]
    BY WrittenPoints DEF Mirrored
  <2> QED
    BY <2>1 DEF Mirrored, Block
<1>8. Owned' /\ Apart' /\ PutInv'
  BY <1>6, NoBlocks DEF Owned, Apart, PutInv, Block
<1>9. StoredIntact'
  <2> SUFFICES ASSUME NEW p \in Point, NEW e \in disk_tracker'[p], NEW b \in Blocks(e.ptr)
               PROVE  disk_pages[b] = {e.change} /\ disk_bits[b] = {1}
    BY DEF StoredIntact
  <2>1. CASE e \in disk_tracker[p]
    BY <2>1 DEF StoredIntact
  <2>2. CASE e \notin disk_tracker[p]
    <3>1. p \in points /\ e = tracker'[p]
      BY <1>1, <2>2
    <3> QED
      BY <1>5, <1>2, <3>1
  <2> QED
    BY <2>1, <2>2
<1>10. FlushedStays' /\ \A p \in Point : \A e \in disk_tracker'[p] : e.change <= change
  <2> SUFFICES ASSUME NEW p \in Point, NEW e \in disk_tracker'[p]
               PROVE  e.change >= durable[p] /\ e.change <= change
    BY DEF FlushedStays
  <2>1. CASE e \in disk_tracker[p]
    BY <2>1 DEF FlushedStays, ChangesInv
  <2>2. CASE e \notin disk_tracker[p]
    <3>1. e.change = flush.latest[p] /\ flush.latest[p] \in Nat /\ durable[p] \in Nat
          /\ latest[p] \in Nat /\ change \in Nat
      <4>1. p \in points /\ e = tracker'[p]
        BY Zenon, <1>1, <2>2
      <4>2. e.change = flush.latest[p]
        BY <1>5, <1>2, <4>1
      <4> QED
        BY <4>2 DEF Typed, Flushes, Early
    <3> QED
      BY <3>1 DEF ChangesInv, Early
  <2> QED
    BY <2>1, <2>2
<1>11. PendingInv'
  <2> SUFFICES ASSUME NEW p \in Point
               PROVE  IF pending_updates'[p] = NoUpdate THEN tracker'[p].change = latest[p]
                      ELSE Unsaved(p, pending_updates[p])' /\ pending_updates'[p].change = latest[p]
    BY Zenon DEF PendingInv
  <2>1. CASE p \notin points
    BY <2>1, WrittenPoints DEF PendingInv, Unsaved, Saved
  <2>2. CASE p \in points
    <3> DEFINE u == flush.updates[p]
               v == pending_updates[p]
               w == pending_updates'[p]
    <3>1. w = Drained(p) /\ u # NoUpdate /\ Saved(p)' = Saved(p) \cup {u.current}
          /\ tracker'[p].change = u.change
      BY <2>2, <1>1, <1>2
    <3>2. CASE w = NoUpdate
      BY Zenon, <3>1, <3>2, DrainedFacts
    <3>3. CASE w # NoUpdate
      <4>1. /\ w.current # NoPtr \/ w.to_free # {}
            /\ w.change = latest[p] /\ w.to_free \subseteq v.to_free
            /\ w.current # NoPtr => w.current = v.current /\ w.current # u.current
        BY <3>1, <3>3, DrainedFacts
      <4>2. Unsaved(p, v) /\ v.change = latest[p]
        BY Zenon, <3>1, DrainedFacts DEF PendingInv
      <4> QED
        BY Zenon, <3>1, <3>3, <4>1, <4>2 DEF Unsaved
    <3> QED
      BY Zenon, <3>2, <3>3
  <2> QED
    BY <2>1, <2>2
<1> QED
  BY Zenon, <1>3, <1>4, <1>6, <1>7, <1>8, <1>9, <1>10, <1>11

-----------------------------------------------------------------------------
\* The pointers that are replaced are no pointers of the point any more.
LEMMA ReplacedFacts ==
    ASSUME Inv, Early, NEW p \in Point, flush.updates[p] # NoUpdate, NEW o \in Replaced(p)
    PROVE  /\ o \in Ptr /\ o \in Ptrs(p)
           /\ o # flush.updates[p].current /\ o # Drained(p).current
           /\ o \notin Drained(p).to_free
<1> DEFINE u == flush.updates[p]
           v == pending_updates[p]
<1>1. u \in Updates /\ v \in Updates /\ tracker[p] \in Entries
  BY Zenon, DrainedFacts DEF Inv, StoreInv, Typed
<1>2. Unsaved(p, u) /\ Follows(p, u, v) /\ Unsaved(p, v)
  BY DrainedFacts DEF Inv, StoreInv, CapturedInv, PendingInv
<1>3. tracker[p].ptr \in Saved(p)
  BY DEF Inv, StoreInv, Mirrored, Saved
<1>4. /\ Drained(p).current \in {NoPtr, v.current}
      /\ Drained(p).to_free \subseteq v.to_free \ u.to_free
  BY DrainedFacts
<1>5. o \in u.to_free \/ (u.current # NoPtr /\ o = tracker[p].ptr /\ o # NoPtr)
  BY DEF Replaced
<1>6. o \in Ptr /\ o # NoPtr
  BY Zenon, <1>1, <1>5, PtrBlocks DEF Updates, Entries, OptPtr
<1> HIDE DEF u, v
<1>7. CASE o \in u.to_free
  <2>1. o \in v.to_free
    BY Zenon, <1>2, <1>7 DEF Follows
  <2>2. o # u.current /\ o # v.current
    BY <1>2, <1>6, <1>7, <2>1 DEF Unsaved
  <2> QED
    BY Zenon, <1>4, <1>6, <1>7, <2>1, <2>2 DEF Ptrs, u, v
<1>8. CASE u.current # NoPtr /\ o = tracker[p].ptr
  <2>1. o # u.current /\ o # v.current
    BY <1>2, <1>3, <1>6, <1>8 DEF Unsaved
  <2>2. o \in v.to_free => o \in u.to_free
    BY <1>2, <1>8 DEF Follows
  <2> QED
    BY Zenon, <1>3, <1>4, <1>6, <1>8, <2>1, <2>2 DEF Ptrs, u, v
<1> QED
  BY Zenon, <1>5, <1>7, <1>8

\* write_pending writes all captured pointers and drains them from memory.
LEMMA WritePendingInv == Inv /\ WritePending => Inv'
<1> SUFFICES ASSUME Inv, WritePending PROVE Inv'
  OBVIOUS
<1>1. /\ UNCHANGED <<counters, num_pages, pages, bits, gaps, disk_pages, disk_bits, disk_gaps, put>>
      /\ flush # NoFlush /\ flush.step = "write" /\ WritePointers(Captured)
      /\ flush' = [flush EXCEPT !.step = "tracker", !.old = UNION {Replaced(p) : p \in Captured}]
  BY DEF WritePending, Flushing, NoFlush
<1>2. Early
  BY <1>1 DEF Inv, StoreInv, OldInv, Early
<1>3. \A p \in Captured : p \in Point /\ flush.updates[p] # NoUpdate
  BY DEF Captured
<1>4. (UNION {Replaced(p) : p \in Captured}) \subseteq Ptr
  BY <1>2, <1>3, ReplacedFacts
<1>5. /\ flush' \in Flushes /\ flush' # NoFlush /\ flush'.step = "tracker"
      /\ flush'.latest = flush.latest /\ flush'.freed = flush.freed /\ ~flush.freed
      /\ flush'.old = UNION {Replaced(p) : p \in Captured}
  BY Zenon, <1>1, <1>2, <1>4 DEF Inv, StoreInv, Typed, Flushes, NoFlush, Early
<1>6. /\ Typed' /\ Sized' /\ GapsTyped' /\ Mirrored' /\ Owned' /\ Apart' /\ StoredIntact'
      /\ FlushedStays' /\ PendingInv' /\ PutInv'
      /\ \A p \in Point : \A e \in disk_tracker'[p] : e.change <= change
      /\ \A p \in Point : Ptrs(p)' \subseteq Ptrs(p) \cup {NoPtr}
  BY <1>1, <1>2, <1>5, WriteInv
<1>7. /\ \A p \in Captured :
            /\ tracker'[p] = Entry(flush.updates[p].current, flush.updates[p].change)
            /\ pending_updates'[p] = Drained(p)
      /\ \A p \in Point \ Captured : tracker'[p] = tracker[p]
  BY <1>1, <1>2, WrittenPoints
<1>8. \A p \in Point : tracker'[p].change = flush.latest[p]
  <2> TAKE p \in Point
  <2>1. CASE p \in Captured
    <3>1. tracker'[p].change = flush.updates[p].change
      <4>1. tracker'[p] = Entry(flush.updates[p].current, flush.updates[p].change)
        BY Zenon, <1>7, <2>1
      <4> QED
        BY <4>1 DEF Entry
    <3> QED
      BY Zenon, <1>2, <1>3, <2>1, <3>1 DEF Inv, StoreInv, CapturedInv
  <2>2. CASE p \notin Captured
    BY Zenon, <1>2, <1>7, <2>2 DEF Inv, StoreInv, CapturedInv, Captured
  <2> QED
    BY <2>1, <2>2
<1>9. ChangesInv'
  BY Zenon, <1>1, <1>5, <1>6, <1>8 DEF Inv, StoreInv, ChangesInv, counters
<1>10. CapturedInv'
  BY <1>5 DEF CapturedInv, Early
<1>11. \A o \in flush'.old : \E p \in Captured : o \in Replaced(p)
  BY Zenon, <1>5
<1>12. OldInv'
  <2> SUFFICES ASSUME NEW o \in flush'.old
               PROVE  /\ Blocks(o) \subseteq bits
                      /\ put.step = "set" => Blocks(o) \cap Blocks(put.ptr) = {}
                      /\ \A q \in Point :
                            \A x \in {tracker'[q].ptr, pending_updates'[q].current}
                                         \cup pending_updates'[q].to_free :
                               Blocks(o) \cap Blocks(x) = {}
    BY <1>1, <1>5 DEF OldInv
  <2>1. PICK p \in Captured : o \in Replaced(p)
    BY <1>11
  <2>2. /\ o \in Ptrs(p) /\ o # flush.updates[p].current /\ o # Drained(p).current
        /\ o \notin Drained(p).to_free
    BY Zenon, <1>2, <1>3, <2>1, ReplacedFacts
  <2>3. Blocks(o) \subseteq bits /\ (put.step = "set" => Blocks(o) \cap Blocks(put.ptr) = {})
    BY Zenon, <1>3, <2>1, <2>2 DEF Inv, StoreInv, Owned, PutInv
  <2>4. ASSUME NEW q \in Point,
               NEW x \in {tracker'[q].ptr, pending_updates'[q].current}
                            \cup pending_updates'[q].to_free
        PROVE  Blocks(o) \cap Blocks(x) = {}
    <3>1. x \in Ptrs(q)'
      BY <1>6 DEF Ptrs, Saved, Mirrored
    <3>2. x = NoPtr \/ x \in Ptrs(q)
      BY <1>6, <3>1
    <3>3. ~(p = q /\ x = o)
      <4>1. tracker'[p].ptr = flush.updates[p].current /\ pending_updates'[p] = Drained(p)
        <5>1. /\ tracker'[p] = Entry(flush.updates[p].current, flush.updates[p].change)
              /\ pending_updates'[p] = Drained(p)
          BY <1>7, <2>1
        <5> QED
          BY <5>1 DEF Entry
      <4> QED
        BY Zenon, <2>2, <2>4, <4>1
    <3> QED
      BY Zenon, <1>3, <2>1, <2>2, <3>2, <3>3, NoBlocks DEF Inv, StoreInv, Apart
  <2> QED
    BY <2>3, <2>4
<1> QED
  BY <1>6, <1>9, <1>10, <1>12 DEF Inv, StoreInv

\* A flush that fails in any step, also after it has written some of the pointers.
LEMMA FlushFailInv == Inv /\ FlushFail => Inv'
<1> SUFFICES ASSUME Inv, FlushFail PROVE Inv'
  OBVIOUS
<1>1. /\ UNCHANGED <<counters, num_pages, pages, bits, gaps, disk_pages, disk_bits, disk_gaps, put>>
      /\ flush # NoFlush /\ flush' = NoFlush /\ flush' \in Flushes /\ flush'.step = "none"
  BY Zenon DEF FlushFail, NoFlush, Flushes
<1>2. CapturedInv' /\ OldInv'
  BY <1>1 DEF CapturedInv, OldInv, Early
<1>3. CASE flush.step = "write"
  <2>1. PICK points \in SUBSET Captured : WritePointers(points)
    BY Zenon, <1>3 DEF FlushFail, Flushing
  <2>2. Early
    BY Zenon, <1>1, <1>3 DEF Inv, StoreInv, OldInv, Early
  <2>3. /\ Typed' /\ Sized' /\ GapsTyped' /\ Mirrored' /\ Owned' /\ Apart' /\ StoredIntact'
        /\ FlushedStays' /\ PendingInv' /\ PutInv'
        /\ \A p \in Point : \A e \in disk_tracker'[p] : e.change <= change
    BY Zenon, <1>1, <1>3, <2>1, <2>2, WriteInv
  <2>4. ChangesInv'
    BY Zenon, <1>1, <2>3 DEF Inv, StoreInv, ChangesInv, counters
  <2> QED
    BY <1>2, <2>3, <2>4 DEF Inv, StoreInv
<1>4. CASE flush.step # "write"
  <2>1. WritePointers({})
    BY <1>4 DEF FlushFail, Flushing
  <2>2. UNCHANGED <<tracker, pending_updates, disk_tracker>>
    <3>1. /\ tracker' = [p \in Point |-> tracker[p]]
          /\ disk_tracker' = [p \in Point |-> disk_tracker[p] \cup {tracker'[p]}]
          /\ pending_updates' = [p \in Point |-> pending_updates[p]]
      BY Zenon, <2>1 DEF WritePointers
    <3> QED
      BY <3>1 DEF Inv, StoreInv, Typed, Mirrored
  <2> USE <1>1, <2>2 DEF Inv, StoreInv, counters
  <2>3. Typed' /\ Sized' /\ GapsTyped'
    BY ZenonT(40) DEF Typed, Block, Sized, GapsTyped
  <2>4. Mirrored' /\ Owned' /\ Apart'
    BY DEF Mirrored, Owned, Apart, Ptrs, Saved, Block
  <2>5. PutInv'
    BY DEF PutInv, Ptrs, Saved, Block
  <2>6. StoredIntact' /\ FlushedStays'
    BY DEF StoredIntact, FlushedStays
  <2>7. PendingInv'
    BY DEF PendingInv, Unsaved, Saved
  <2>8. ChangesInv'
    BY DEF ChangesInv
  <2> QED
    BY Zenon, <1>2, <2>3, <2>4, <2>5, <2>6, <2>7, <2>8
<1> QED
  BY <1>3, <1>4

-----------------------------------------------------------------------------
\* Steps of a put that change neither values nor pointers.
LEMMA PutStepInv ==
    ASSUME Inv, UNCHANGED <<env, latest, durable, pages, bits, tracker, pending_updates,
                            disk_pages, disk_tracker, flush>>,
           change' \in Nat, change' >= change,
           put' \in Puts, put'.step \in {"page", "cover", "write", "panic"},
           put'.step = "write" => put'.ptr \in Ptr /\ Blocks(put'.ptr) \subseteq Block \ bits,
           disk_bits' \in {disk_bits, [b \in Block |-> {Bit(b, bits)}]},
           Sized', GapsTyped'
    PROVE  Inv'
<1> USE DEF Inv, StoreInv
<1>1. Block' = Block
  BY DEF Block
<1>2. \A b \in bits : disk_bits[b] = {1} => disk_bits'[b] = {1}
  BY Zenon DEF Typed, Bit
<1>3. Typed'
  BY <1>1 DEF Typed, Bit
<1>4. \A p \in Point : Saved(p)' = Saved(p) /\ Ptrs(p)' = Ptrs(p)
  BY Zenon DEF Saved, Ptrs
<1>5. Mirrored' /\ Owned' /\ Apart' /\ FlushedStays'
  BY <1>1, <1>4 DEF Mirrored, Owned, Apart, FlushedStays, Typed
<1>6. PutInv'
  BY Zenon, <1>1 DEF PutInv
<1>7. StoredIntact'
  <2> SUFFICES ASSUME NEW p \in Point, NEW e \in disk_tracker[p], NEW b \in Blocks(e.ptr)
               PROVE  disk_pages[b] = {e.change} /\ disk_bits'[b] = {1}
    BY Zenon DEF StoredIntact
  <2>1. disk_pages[b] = {e.change} /\ disk_bits[b] = {1}
    BY DEF StoredIntact
  <2>2. b \in bits
    BY Zenon DEF Owned, Ptrs, Saved
  <2> QED
    BY Zenon, <1>2, <2>1, <2>2
<1>8. PendingInv'
  BY ZenonT(40), <1>4 DEF PendingInv, Unsaved
<1>9. CapturedInv'
  <2>1. Early' = Early
    BY DEF Early
  <2>2. \A p \in Point : Early /\ flush.updates[p] # NoUpdate =>
           Unsaved(p, flush.updates[p])' /\ Follows(p, flush.updates[p], pending_updates[p])'
    BY ZenonT(40), <1>4 DEF CapturedInv, Unsaved, Follows
  <2>3. \A p \in Point : Early /\ flush.updates[p] # NoUpdate /\ flush.step # "bits" =>
           \A b \in Blocks(flush.updates[p].current) : disk_bits'[b] = {1}
    BY ZenonT(40), <1>2, CapturedOwned DEF CapturedInv
  <2> QED
    BY <2>1, <2>2, <2>3 DEF CapturedInv
<1>10. OldInv'
  BY DEF OldInv
<1>11. ChangesInv'
  <2>1. \A p \in Point : latest[p] \in Nat /\ \A e \in disk_tracker[p] : e.change \in Nat
    BY DEF Typed, Entries
  <2> QED
    BY <2>1 DEF ChangesInv, Typed
<1> QED
  BY Zenon, <1>3, <1>5, <1>6, <1>7, <1>8, <1>9, <1>10, <1>11

\* Blocks of all pointers are marked used, so writing into free blocks changes none.
LEMMA WriteIntoPagesInv == Inv /\ WriteIntoPages => Inv'
<1> SUFFICES ASSUME Inv, WriteIntoPages PROVE Inv'
  OBVIOUS
<1> USE DEF Inv, StoreInv
<1> DEFINE B == Blocks(put.ptr)
<1>1. /\ UNCHANGED <<counters, num_pages, bits, gaps, tracker, pending_updates, disk_bits,
                     disk_gaps, disk_tracker, flush>>
      /\ put.step = "write"
      /\ put' = [put EXCEPT !.step = "mark"]
      /\ pages' = [b \in Block |-> IF b \in B THEN change ELSE pages[b]]
      /\ disk_pages' = [b \in Block |-> disk_pages[b] \cup {pages'[b]}]
  BY DEF WriteIntoPages
<1>2. B \subseteq Block \ bits /\ put.ptr \in Ptr
  BY <1>1 DEF PutInv
<1>3. Block' = Block
  BY <1>1 DEF Block, counters
<1>4. put' \in Puts /\ put'.step = "mark" /\ put'.ptr = put.ptr /\ Blocks(put'.ptr) = B
  BY <1>1 DEF Typed, Puts, NoPut
<1> HIDE DEF B
<1>5. \A b \in bits : pages'[b] = pages[b] /\ disk_pages'[b] = disk_pages[b]
  BY ZenonT(40), <1>1, <1>2 DEF Typed, Mirrored
<1> USE <1>1 DEF counters
<1>6. Typed'
  <2>1. pages' \in [Block -> Nat]
    BY DEF Typed
  <2>2. disk_pages' \in [Block -> SUBSET Nat]
    BY <2>1 DEF Typed
  <2> QED
    BY <1>3, <1>4, <2>1, <2>2 DEF Typed
<1>7. Sized' /\ GapsTyped'
  BY <1>4 DEF Sized, GapsTyped
<1>8. \A p \in Point : Saved(p)' = Saved(p) /\ Ptrs(p)' = Ptrs(p)
  BY DEF Saved, Ptrs
<1>9. Mirrored' /\ Owned' /\ Apart' /\ FlushedStays' /\ ChangesInv'
  BY <1>3, <1>8 DEF Mirrored, Owned, Apart, FlushedStays, ChangesInv
<1>10. PutInv'
  BY <1>2, <1>3, <1>4 DEF PutInv
<1>11. \A p \in Point : \A x \in Ptrs(p) : \A b \in Blocks(x) :
          pages'[b] = pages[b] /\ disk_pages'[b] = disk_pages[b]
  BY Zenon, <1>5 DEF Owned
<1>12. StoredIntact'
  <2> SUFFICES ASSUME NEW p \in Point, NEW e \in disk_tracker[p], NEW b \in Blocks(e.ptr)
               PROVE  disk_pages'[b] = {e.change} /\ disk_bits[b] = {1}
    BY DEF StoredIntact
  <2>1. disk_pages[b] = {e.change} /\ disk_bits[b] = {1}
    BY DEF StoredIntact
  <2>2. e.ptr \in Ptrs(p)
    BY DEF Ptrs, Saved
  <2> QED
    BY Zenon, <1>11, <2>1, <2>2
<1>13. PendingInv'
  BY ZenonT(40), <1>8, <1>11 DEF PendingInv, Unsaved, Ptrs
<1>14. CapturedInv'
  <2>1. Early' = Early
    BY DEF Early
  <2>2. \A p \in Point : Early /\ flush.updates[p] # NoUpdate =>
           \A b \in Blocks(flush.updates[p].current) :
              pages'[b] = pages[b] /\ disk_pages'[b] = disk_pages[b]
    BY Zenon, <1>5, CapturedOwned
  <2>3. \A p \in Point : Early /\ flush.updates[p] # NoUpdate => Unsaved(p, flush.updates[p])'
    BY ZenonT(40), <1>8, <2>2 DEF CapturedInv, Unsaved
  <2>4. \A p \in Point : Early /\ flush.updates[p] # NoUpdate =>
                            Follows(p, flush.updates[p], pending_updates[p])'
    BY DEF CapturedInv, Follows
  <2>5. \A p \in Point : Early /\ flush.updates[p] # NoUpdate /\ flush.step = "write" =>
           \A b \in Blocks(flush.updates[p].current) :
              disk_pages'[b] = {flush.updates[p].change}
    BY ZenonT(40), <2>2 DEF CapturedInv
  <2> HIDE <1>1
  <2>6. UNCHANGED <<flush, tracker, disk_bits>>
    BY <1>1
  <2> QED
    BY Zenon, <2>1, <2>3, <2>4, <2>5, <2>6 DEF CapturedInv
<1>15. OldInv'
  BY <1>4 DEF OldInv
<1> QED
  BY <1>6, <1>7, <1>9, <1>10, <1>12, <1>13, <1>14, <1>15

\* Marking the blocks of a value makes them its own.
LEMMA MarkUsedInv == Inv /\ MarkUsed => Inv'
<1> SUFFICES ASSUME Inv, MarkUsed PROVE Inv'
  OBVIOUS
<1> USE DEF Inv, StoreInv
<1> DEFINE B == Blocks(put.ptr)
<1>1. /\ UNCHANGED <<counters, num_pages, pages, tracker, pending_updates, disk_pages,
                     disk_tracker, flush>>
      /\ put.step = "mark"
      /\ put' = [put EXCEPT !.step = "set"]
      /\ bits' = bits \cup B
      /\ disk_bits' = [b \in Block |-> disk_bits[b] \cup {Bit(b, bits')}]
  BY DEF MarkUsed, MarkBlocks
<1>2. B \subseteq Block \ bits /\ put.ptr \in Ptr
  BY <1>1 DEF PutInv
<1>3. bits' \subseteq Int /\ Block \subseteq Int /\ Block' = Block /\ bits' \subseteq Block
  BY <1>1, <1>2 DEF Typed, Block, counters
<1>4. GapsTyped' /\ Len(gaps') = Len(gaps)
  BY Zenon, <1>3, MarkedGaps DEF MarkUsed
<1>5. put' \in Puts /\ put'.step = "set" /\ put'.ptr = put.ptr /\ Blocks(put'.ptr) = B
  BY <1>1 DEF Typed, Puts, NoPut
<1> HIDE DEF B
<1> USE <1>1 DEF counters
<1>6. Typed'
  BY <1>3, <1>5 DEF Typed, Bit
<1>7. Sized'
  BY <1>4, <1>5 DEF Sized
<1>8. \A p \in Point : Saved(p)' = Saved(p) /\ Ptrs(p)' = Ptrs(p)
  BY DEF Saved, Ptrs
<1>9. Mirrored' /\ Owned' /\ Apart'
  BY <1>3, <1>8 DEF Mirrored, Owned, Apart
<1>10. PutInv'
  <2>1. \A b \in B : pages[b] = change
    BY DEF PutInv, B
  <2>2. \A p \in Point : \A x \in Ptrs(p) : Blocks(x) \cap B = {}
    BY <1>2 DEF Owned
  <2> QED
    BY Zenon, <1>2, <1>5, <1>8, <2>1, <2>2 DEF PutInv
<1>11. \A b \in bits : disk_bits[b] = {1} => disk_bits'[b] = {1}
  BY <1>3 DEF Bit
<1>12. StoredIntact'
  <2> SUFFICES ASSUME NEW p \in Point, NEW e \in disk_tracker[p], NEW b \in Blocks(e.ptr)
               PROVE  disk_pages[b] = {e.change} /\ disk_bits'[b] = {1}
    BY Zenon DEF StoredIntact
  <2>1. disk_pages[b] = {e.change} /\ disk_bits[b] = {1}
    BY DEF StoredIntact
  <2>2. b \in bits
    BY DEF Owned, Ptrs, Saved
  <2> QED
    BY Zenon, <1>11, <2>1, <2>2
<1>13. FlushedStays' /\ PendingInv' /\ ChangesInv'
  BY <1>8 DEF FlushedStays, PendingInv, Unsaved, ChangesInv
<1>14. CapturedInv'
  BY ZenonT(40), <1>8, <1>11, CapturedOwned DEF CapturedInv, Early, Unsaved, Follows
<1>15. OldInv'
  BY <1>2, <1>5 DEF OldInv
<1> QED
  BY <1>4, <1>6, <1>7, <1>9, <1>10, <1>12, <1>13, <1>14, <1>15

\* Setting the pointer leaves the one it replaces to be freed.
LEMMA SetPointerInv == Inv /\ SetPointer => Inv'
<1> SUFFICES ASSUME Inv, SetPointer PROVE Inv'
  OBVIOUS
<1> USE DEF Inv, StoreInv
<1>0. PICK q \in Point : q = put.point
  BY DEF SetPointer, Typed, Puts, NoPut
<1> DEFINE v == pending_updates[q]
           w == [current |-> put.ptr, change |-> change,
                 to_free |-> v.to_free \cup ({v.current} \ {NoPtr})]
<1>1. /\ UNCHANGED <<env, change, durable, num_pages, pages, bits, gaps, tracker, disk, flush>>
      /\ put.step = "set" /\ put' = NoPut
      /\ pending_updates' = [pending_updates EXCEPT ![q] = w]
      /\ latest' = [latest EXCEPT ![q] = change]
  BY Zenon, <1>0 DEF SetPointer
<1>2. /\ q \in Point /\ put.ptr \in Ptr /\ Blocks(put.ptr) \subseteq bits
      /\ \A b \in Blocks(put.ptr) : pages[b] = change
      /\ \A p \in Point : \A x \in Ptrs(p) : Blocks(x) \cap Blocks(put.ptr) = {}
  BY <1>1 DEF PutInv, Typed, Puts, NoPut
<1>3. put.ptr # NoPtr /\ \A p \in Point : put.ptr \notin Ptrs(p)
  BY Zenon, <1>2, PtrBlocks
<1>4. v \in Updates /\ w \in Updates /\ w # NoUpdate /\ w.current = put.ptr /\ w.change = change
      /\ w.to_free = v.to_free \cup ({v.current} \ {NoPtr})
  BY Zenon, <1>2, <1>3 DEF Typed, Updates, OptPtr, NoUpdate
<1> HIDE DEF w
<1>5. /\ pending_updates' \in [Point -> Updates] /\ latest' \in [Point -> Nat]
      /\ pending_updates'[q] = w /\ latest'[q] = change
      /\ \A p \in Point : p # q => pending_updates'[p] = pending_updates[p] /\ latest'[p] = latest[p]
  BY Zenon, <1>1, <1>2, <1>4 DEF Typed
<1>6. Typed'
  BY Zenon, <1>1, <1>5 DEF Typed, Block, disk, Puts
<1>7. put'.step = "none"
  BY Zenon, <1>1 DEF NoPut
<1>8. Sized' /\ GapsTyped'
  BY Zenon, <1>1, <1>7 DEF Sized, GapsTyped, disk
<1>9. \A p \in Point : /\ Saved(p)' = Saved(p)
                       /\ p # q => Ptrs(p)' = Ptrs(p)
                       /\ p = q => Ptrs(p)' \subseteq Ptrs(p) \cup {put.ptr}
  BY Zenon, <1>1, <1>4, <1>5 DEF Saved, Ptrs, disk
<1>10. Owned' /\ Apart'
  <2>1. \A p \in Point : \A x \in Ptrs(p)' : x \in Ptrs(p) \/ (p = q /\ x = put.ptr)
    BY <1>9
  <2>2. bits' = bits
    BY Zenon, <1>1
  <2> QED
    BY <1>2, <2>1, <2>2 DEF Owned, Apart
<1>11. Mirrored' /\ StoredIntact' /\ FlushedStays' /\ PutInv'
  BY Zenon, <1>1, <1>7 DEF Mirrored, StoredIntact, FlushedStays, PutInv, disk, Block
<1>12. PendingInv'
  <2>1. ASSUME NEW p \in Point, p # q
        PROVE  IF pending_updates'[p] = NoUpdate THEN tracker'[p].change = latest'[p]
               ELSE Unsaved(p, pending_updates[p])' /\ pending_updates'[p].change = latest'[p]
    BY ZenonT(40), <1>1, <1>5, <1>9, <2>1 DEF PendingInv, Unsaved
  <2>2. Unsaved(q, pending_updates[q])'
    <3>1. put.ptr \notin w.to_free \cup Saved(q)
      BY Zenon, <1>2, <1>3, <1>4 DEF Ptrs
    <3>2. Saved(q)' = Saved(q)
      BY <1>2, <1>9
    <3> QED
      BY Zenon, <1>1, <1>2, <1>3, <1>4, <1>5, <3>1, <3>2 DEF Unsaved
  <2> QED
    BY Zenon, <1>4, <1>5, <2>1, <2>2 DEF PendingInv
<1>13. CapturedInv'
  <2>0. Early' = Early
    BY <1>1 DEF Early
  <2> SUFFICES ASSUME Early, NEW p \in Point, flush.updates[p] # NoUpdate
               PROVE  Unsaved(p, flush.updates[p])' /\ Follows(p, flush.updates[p], pending_updates[p])'
    BY ZenonT(40), <1>1, <2>0 DEF CapturedInv, disk
  <2> DEFINE u == flush.updates[p]
  <2>1. p = q => Follows(p, u, w)
    <3> SUFFICES ASSUME p = q PROVE Follows(p, u, w)
      BY Zenon
    <3>1. Follows(p, u, v) /\ Unsaved(p, v)
      BY ZenonT(40) DEF CapturedInv, PendingInv, Follows
    <3>2. u.current # put.ptr
      BY <1>3, <3>1 DEF Follows, Ptrs
    <3>3. tracker[p].ptr \in Saved(p)
      BY ZenonT(40) DEF Mirrored, Saved
    <3>4. tracker[p].ptr \in w.to_free => tracker[p].ptr \in v.to_free
      BY ZenonT(40), <1>4, <3>1, <3>3 DEF Unsaved
    <3> QED
      BY Zenon, <1>4, <3>1, <3>2, <3>4 DEF Follows
  <2>2. Follows(p, u, pending_updates'[p])
    BY <1>5, <2>1 DEF CapturedInv
  <2>3. Unsaved(p, flush.updates[p])'
    BY ZenonT(40), <1>1, <1>9 DEF CapturedInv, Unsaved
  <2> QED
    BY Zenon, <1>1, <2>2, <2>3 DEF Follows
<1>14. OldInv'
  <2> SUFFICES ASSUME flush.step \in {"tracker", "free"}, NEW o \in flush.old, NEW p \in Point,
                      NEW x \in {tracker[p].ptr, pending_updates'[p].current}
                                   \cup pending_updates'[p].to_free
               PROVE  Blocks(o) \cap Blocks(x) = {}
    BY ZenonT(40), <1>1, <1>7 DEF OldInv
  <2>1. \/ x = put.ptr
        \/ x \in {tracker[p].ptr, pending_updates[p].current} \cup pending_updates[p].to_free
    BY Zenon, <1>4, <1>5
  <2> QED
    BY Zenon, <1>1, <2>1 DEF OldInv
<1>15. ChangesInv'
  <2>1. \A p \in Point : latest[p] <= latest'[p] /\ latest'[p] <= change
    BY <1>5 DEF ChangesInv, Typed
  <2>2. \A p \in Point : latest[p] \in Nat /\ latest'[p] \in Nat /\ durable[p] \in Nat
                          /\ (flush # NoFlush => flush.latest[p] \in Nat)
    BY <1>5 DEF Typed, Flushes
  <2> QED
    BY <1>1, <2>1, <2>2 DEF ChangesInv, disk
<1> QED
  BY <1>6, <1>8, <1>10, <1>11, <1>12, <1>13, <1>14, <1>15
=============================================================================
