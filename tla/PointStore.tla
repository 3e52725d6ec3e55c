----------------------------- MODULE PointStore -----------------------------
(***************************************************************************)
(* What the segments of a shard promise together: a map from point ids to  *)
(* contents that changes only by update operations, one at a time, in the  *)
(* order of the log.  Flushing, optimizing, taking snapshots and restarting *)
(* leave it alone.                                                         *)
(*                                                                         *)
(* The content of a point is the set of the operations it was made of: an  *)
(* upsert starts it anew, a payload update adds to it, and the empty set   *)
(* stands for a point that does not exist.                                 *)
(***************************************************************************)
EXTENDS Integers, Sequences

CONSTANTS Point, Ops

VARIABLES points, log

\* What operation i leaves of a point with content c.
Result(kind, i, c) ==
    IF kind = "delete" THEN {}
    ELSE IF kind = "upsert" THEN {i}
    ELSE IF c = {} THEN {} ELSE c \cup {i}

Write(op) ==
    LET i == Len(log) + 1
    IN  /\ log' = Append(log, op)
        /\ points' = [points EXCEPT ![op.point] = Result(op.kind, i, @)]

Next == \E op \in Ops : Write(op)

\* The holder may be opened with contents already.
Init == points \in [Point -> SUBSET (1..Len(log))]

Spec == Init /\ [][Next]_<<points, log>>
=============================================================================
