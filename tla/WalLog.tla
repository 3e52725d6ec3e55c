------------------------------- MODULE WalLog -------------------------------
(***************************************************************************)
(* What a write ahead log promises: records with consecutive indexes,      *)
(* appended at the end, cut off from the end, and forgotten from the front *)
(* only when they were acknowledged.  A record never changes its index and *)
(* is never replaced by another one without having been cut off.           *)
(***************************************************************************)
EXTENDS Integers, Sequences

VARIABLES
    base,       \* index of the first record
    records,    \* the records, from index base on
    acked       \* records below this index are not needed any more

LogInit == records = <<>> /\ acked = base

\* A record is added at the end.
AppendRecord(r, s) ==
    /\ Len(s) = Len(r) + 1 /\ SubSeq(s, 1, Len(r)) = r
    /\ UNCHANGED <<base, acked>>

\* Records from some index on are removed; an acknowledged one stays.
CutEnd(r, s) ==
    /\ Len(s) < Len(r) /\ s = SubSeq(r, 1, Len(s))
    /\ acked <= base + Len(s)
    /\ UNCHANGED <<base, acked>>

Acknowledge(r, s) ==
    /\ s = r
    /\ acked' > acked /\ acked' <= base + Len(r)
    /\ UNCHANGED base

\* Acknowledged records are removed, the last of them may stay.
CutFront(r, s) ==
    /\ Len(s) < Len(r) /\ s = SubSeq(r, Len(r) - Len(s) + 1, Len(r))
    /\ base' = base + (Len(r) - Len(s))
    /\ base' <= acked
    /\ UNCHANGED acked

LogNext ==
    LET r == records
        s == records'
    IN AppendRecord(r, s) \/ CutEnd(r, s) \/ Acknowledge(r, s) \/ CutFront(r, s)

LogSpec == LogInit /\ [][LogNext]_<<base, records, acked>>
=============================================================================
