---------------------------- MODULE MCLocalShard ----------------------------
(***************************************************************************)
(* Instances of LocalShard for TLC: points and segments are model values.  *)
(***************************************************************************)
EXTENDS LocalShardInvariant, TLC

CONSTANTS p1, p2, p3, s1, s2

Upsert(P) == [kind |-> "upsert", points |-> P]

Delete(P) == [kind |-> "delete", points |-> P]

Noop == [kind |-> "noop", points |-> {}]

Declined == [kind |-> "declined", points |-> {}]

\* A point in each of two segments.
HomeApart == (p1 :> s1) @@ (p2 :> s2)

\* Two points in one segment and a third in another.
HomeShared == (p1 :> s1) @@ (p2 :> s1) @@ (p3 :> s2)

OpsMixed == {Upsert({p1, p2}), Delete({p1}), Noop, Declined}

OpsShared == {Upsert({p1, p2}), Upsert({p3})}

OpsHold == {Upsert({p1, p2}), Upsert({p3}), Delete({p2})}

\* Two points in one segment.
HomeTogether == (p1 :> s1) @@ (p2 :> s1)

\* One point in one segment.
HomeSingle == p1 :> s1

OpsRefused == {Upsert({p1}), Declined}

OpsUpsertDelete == {Upsert({p1, p2}), Delete({p1})}

\* The points after replaying the log from index `from' on the points `pts'.
Replayed(pts, from) ==
    LET replay[n \in 0..LastIndex] ==
            LET before == IF n = 0 THEN pts ELSE replay[n - 1]
            IN  IF n < from THEN before
                ELSE AppliedPts(before, n, PointsOfRecord(n))
    IN  replay[LastIndex]

\* A crash at any moment loses nothing: replaying the records from first_index
\* on, over what is on disk, gives the points that the whole log gives.
ReplayRestores ==
    Replayed(disk_pts, first_index) = Replayed([p \in Point |-> 0], 0)

=============================================================================
