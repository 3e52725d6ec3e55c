------------------------- MODULE GridstoreInvariant -------------------------
(***************************************************************************)
(* The inductive invariant behind the theorems about Gridstore.            *)
(***************************************************************************)
EXTENDS Gridstore

Ptr == [at : Nat, n : Nat \ {0}]

OptPtr == Ptr \cup {NoPtr}

Entries == [ptr : OptPtr, change : Nat]

Updates == [current : OptPtr, to_free : SUBSET Ptr, change : Nat]

Puts ==
    {NoPut, [step |-> "unopened"]}
        \cup [step : {"page", "cover", "write", "mark", "set", "panic"}, point : Point,
              ptr : [at : Nat \cup {None}, n : Nat \ {0}], grow : Nat]

Flushes ==
    {NoFlush}
        \cup [step : {"bits", "gaps", "pages", "write", "tracker", "free"},
              updates : [Point -> Updates], latest : [Point -> Nat], old : SUBSET Ptr,
              freed : BOOLEAN]

\* Types, but for the elements of gaps.
Typed ==
    /\ env \in Envs
    /\ change \in Nat /\ latest \in [Point -> Nat] /\ durable \in [Point -> Nat]
    /\ pages \in [Block -> Nat] /\ bits \subseteq Block
    /\ tracker \in [Point -> Entries]
    /\ pending_updates \in [Point -> Updates]
    /\ put \in Puts /\ flush \in Flushes
    /\ disk_pages \in [Block -> SUBSET Nat]
    /\ disk_bits \in [Block -> SUBSET {0, 1}]
    /\ disk_tracker \in [Point -> SUBSET Entries]

\* Pages that are attached, those still to be added and those the bitmask covers.
Sized ==
    /\ num_pages \in 1..env.pages
    /\ put.step = "page" => put.grow > 0 /\ num_pages + put.grow <= env.pages
    /\ put.step = "cover" => put.grow > 0 /\ num_pages + put.grow <= env.pages + 1
    /\ put.step = "cover" => Len(gaps) = NumRegions(num_pages - 1)
    /\ put.step \notin {"cover", "unopened"} => Len(gaps) = NumRegions(num_pages)

\* What is written last may be on the disk already.
Mirrored ==
    /\ \A p \in Point : tracker[p] \in disk_tracker[p]
    /\ \A b \in Block : pages[b] \in disk_pages[b] /\ Bit(b, bits) \in disk_bits[b]

Saved(p) == {e.ptr : e \in disk_tracker[p]}

\* All pointers of a point but those that a flush is about to free.
Ptrs(p) == Saved(p) \cup {pending_updates[p].current} \cup pending_updates[p].to_free

\* Their blocks are marked used, and no two of them share one.
Owned == \A p \in Point : \A x \in Ptrs(p) : Blocks(x) \subseteq bits

Apart ==
    \A p, q \in Point : \A x \in Ptrs(p), y \in Ptrs(q) :
        (p = q /\ x = y) \/ Blocks(x) \cap Blocks(y) = {}

\* The updates u of point p are not empty, and what they set is in the pages and was
\* not written to the tracker yet.
Unsaved(p, u) ==
    /\ u.current # NoPtr \/ u.to_free # {}
    /\ u.current # NoPtr =>
          /\ u.current \notin u.to_free \cup Saved(p)
          /\ \A b \in Blocks(u.current) : pages[b] = u.change

PendingInv ==
    \A p \in Point :
        IF pending_updates[p] = NoUpdate THEN tracker[p].change = latest[p]
        ELSE Unsaved(p, pending_updates[p]) /\ pending_updates[p].change = latest[p]

\* The blocks of a put are free until they are marked, and then its own.
PutInv ==
    /\ put.step \in {"write", "mark", "set"} => put.ptr \in Ptr
    /\ put.step \in {"write", "mark"} => Blocks(put.ptr) \subseteq Block \ bits
    /\ put.step \in {"mark", "set"} => \A b \in Blocks(put.ptr) : pages[b] = change
    /\ put.step = "set" =>
          /\ Blocks(put.ptr) \subseteq bits
          /\ \A p \in Point : \A x \in Ptrs(p) : Blocks(x) \cap Blocks(put.ptr) = {}

\* A flusher that has not written pointers yet.
Early == flush # NoFlush /\ ~flush.freed /\ flush.step \in {"bits", "gaps", "pages", "write"}

\* What was captured, u, compared with what is pending now, v.
Follows(p, u, v) ==
    /\ v # NoUpdate
    /\ u.to_free \subseteq v.to_free
    /\ u.current \in {NoPtr, v.current} \cup v.to_free
    /\ u.current # NoPtr /\ u.current = v.current => v.to_free = u.to_free
    /\ u.current = v.current /\ u.to_free = v.to_free => u.change = v.change
    /\ tracker[p].ptr \in v.to_free => tracker[p].ptr \in u.to_free

CapturedInv ==
    Early => \A p \in Point :
        LET u == flush.updates[p]
        IN  IF u = NoUpdate THEN tracker[p].change = flush.latest[p]
            ELSE /\ Unsaved(p, u) /\ Follows(p, u, pending_updates[p])
                 /\ u.change = flush.latest[p]
                 /\ flush.step # "bits" => \A b \in Blocks(u.current) : disk_bits[b] = {1}
                 /\ flush.step = "write" =>
                       \A b \in Blocks(u.current) : disk_pages[b] = {u.change}

\* Blocks that are about to be freed are of no pointer that is still in use.
OldInv ==
    /\ flush # NoFlush /\ flush.freed => flush.step \in {"bits", "gaps"}
    /\ flush.step \in {"tracker", "free"} =>
          \A o \in flush.old :
              /\ Blocks(o) \subseteq bits
              /\ put.step = "set" => Blocks(o) \cap Blocks(put.ptr) = {}
              /\ \A p \in Point :
                    \A x \in {tracker[p].ptr, pending_updates[p].current}
                                 \cup pending_updates[p].to_free :
                        Blocks(o) \cap Blocks(x) = {}

\* Changes: durable ones are on the disk, and a flusher gets there.
ChangesInv ==
    /\ \A p \in Point :
          /\ durable[p] <= latest[p] /\ latest[p] <= change
          /\ \A e \in disk_tracker[p] : e.change <= change
          /\ flush # NoFlush => durable[p] <= flush.latest[p] /\ flush.latest[p] <= latest[p]
    /\ flush.step = "tracker" => \A p \in Point : tracker[p].change = flush.latest[p]
    /\ flush.step = "free" \/ (flush # NoFlush /\ flush.freed) =>
          \A p \in Point : disk_tracker[p] = {tracker[p]} /\ tracker[p].change = flush.latest[p]

\* The values in the store are safe for these reasons, which hold at every step
\* of put_value, delete_value, clear and the flusher, and after a restart.
StoreInv ==
    /\ Typed /\ Sized /\ Mirrored /\ Owned /\ Apart /\ StoredIntact /\ FlushedStays
    /\ PendingInv /\ PutInv /\ CapturedInv /\ OldInv /\ ChangesInv
=============================================================================
