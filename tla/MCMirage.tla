------------------------------ MODULE MCMirage ------------------------------
(***************************************************************************)
(* Instances of MirageRefinement for TLC: points at positions on a line or *)
(* at given distances, with one dead id.                                   *)
(***************************************************************************)
EXTENDS MirageRefinement

\* Scores of points on a line, higher is closer.
OnLine(pos) ==
    [a, b \in Pid |-> IF pos[a + 1] < pos[b + 1] THEN pos[a + 1] - pos[b + 1]
                      ELSE pos[b + 1] - pos[a + 1]]

\* Points apart from one another, at equal distances but for one pair.
Apart == [a, b \in Pid |-> IF a = b THEN 0 ELSE IF {a, b} = {0, 3} THEN -1 ELSE -2]

MCScores == {OnLine(<<0, 9, 1, 3, 7>>), OnLine(<<2, 9, 0, 2, 5>>), Apart}

\* A round after another, and an update after another.
MCSchedules == {[r |-> 2, iter |-> 1], [r |-> 1, iter |-> 2]}

MCAlive == {{0, 2, 3, 4}, {1, 3}}
=============================================================================
