---------------------------- MODULE MCGridstore ----------------------------
(***************************************************************************)
(* Instances of Gridstore for TLC.                                         *)
(***************************************************************************)
EXTENDS GridstoreInvariant, TLC

Quiet ==
    [sizes |-> {1}, changes |-> 0, pages |-> 1, used |-> {{}}, flushes |-> 0, fails |-> 0,
     crashes |-> 0, clears |-> 0, power |-> FALSE, forget |-> TRUE]

\* All blocks of the first page in use, but those of a set.
AllBut(free) == {(0..(PageBlocks - 1)) \ free}

\* The allocator, on a page that is used in many ways, and with pages that are
\* added.
Allocation ==
    [Quiet EXCEPT !.sizes = {4, 13}, !.changes = 1, !.pages = 3,
                  !.used = {u \cup {4} : u \in SUBSET {0, 1, 2, 3, 5, 6, 7, 8, 10, 11}}]

\* Puts and deletes while flushers run.
Churn ==
    [Quiet EXCEPT !.sizes = {1, 2}, !.changes = 4, !.flushes = 2, !.forget = FALSE,
                  !.used = AllBut({1, 5, 6})]

\* Two blocks that are used again, a flush that fails and a loss of power.
Power ==
    [Quiet EXCEPT !.changes = 4, !.flushes = 2, !.fails = 1, !.crashes = 1, !.power = TRUE,
                  !.used = AllBut({1, 11})]

\* A store that is cleared, and a crash while a page is added.
Cleared ==
    [Quiet EXCEPT !.changes = 3, !.flushes = 1, !.clears = 1, !.crashes = 1, !.pages = 2,
                  !.used = AllBut({1})]

MCEnvs == {Allocation, Churn, Power, Cleared}

\* Nothing tells the points apart.
Symmetry == Permutations(Point)

\* The allocator finds free blocks whatever the bits, and also with gaps that do not
\* belong to them.
ASSUME AllocatorSoundOnPage ==
    LET gapsOfRegion == {CalculateGaps(used, 0) : used \in SUBSET {0, 3, 4}}
    IN  \A used \in SUBSET {0, 2, 3, 6, 7, 9, 11}, g \in [1..2 -> gapsOfRegion], n \in {1, 3, 4, 7} :
            TrailingFree(g) \in Nat /\ AllocatesFree(used, g, 1, n)
=============================================================================
