------------------------------ MODULE WalDelta ------------------------------
(***************************************************************************)
(* Clock maps, recovery points and the resolution of a WAL delta.          *)
(*                                                                         *)
(* Every update operation carries a tag: the clock of its sender, the tick *)
(* of that clock and a random token.  A replica remembers for each clock   *)
(* the newest tick it has seen.  A replica that was away is recovered from *)
(* the log of another one, from the first record it may be missing.        *)
(***************************************************************************)
EXTENDS Integers, Sequences

CONSTANT Clock          \* a sender's peer id and clock id

\* A clock that is not in a map; the tick of an entry is never 0.
Vacant == [tick |-> 0, token |-> 0]
NoClocks == [k \in Clock |-> Vacant]

Tags == [clock : Clock, tick : Nat, token : Nat]

\* The record that occupies the first index of a new log has no tag.
Untagged == [tagged |-> FALSE]
Tagged(tag) == [tagged |-> TRUE, tag |-> tag]

-----------------------------------------------------------------------------
\* ClockMap

AdvanceClock(map, tag) ==
    IF map[tag.clock].tick < tag.tick
    THEN [map EXCEPT ![tag.clock] = [tick |-> tag.tick, token |-> tag.token]]
    ELSE map

\* A tick is accepted when it is newer, or the same operation once more; tick 0
\* is what a sender uses that does not know its clock.
Accepts(map, tag) ==
    /\ tag.tick > 0
    /\ AdvanceClock(map, tag)[tag.clock] = [tick |-> tag.tick, token |-> tag.token]

RecoveryPoint(map) == [k \in Clock |-> map[k].tick]

-----------------------------------------------------------------------------
\* resolve_wal_delta, on the records log[first], ..., log[Len(log)]

HigherThanCurrent(rp, newest) == \E k \in Clock : rp[k] > newest[k]
BelowCutoff(rp, newest, oldest) == \E k \in Clock : newest[k] > 0 /\ rp[k] < oldest[k]
WantedClocks(rp, newest) == {k \in Clock : newest[k] > 0 /\ rp[k] # newest[k]}

\* The clocks not yet found when the records from i on were read backwards.
Remaining(log, i, rp, wanted) ==
    {k \in wanted : \A j \in i .. Len(log) :
                       log[j].tagged /\ log[j].tag.clock = k => rp[k] + 1 < log[j].tag.tick}

\* The record at which the last clock is found.
Covers(log, first, i, rp, wanted) ==
    /\ i \in first .. Len(log)
    /\ Remaining(log, i, rp, wanted) = {}
    /\ Remaining(log, i + 1, rp, wanted) # {}
    /\ \A j \in i .. Len(log) : log[j].tagged

NoDelta == [kind |-> "none", at |-> 0]
EqualLogs == [kind |-> "equal", at |-> 0]
DeltaFrom(i) == [kind |-> "from", at |-> i]

\* Mutant: the record at which the scan stops is never needed.
RecoverAfter(log, i, rp) == IF i = Len(log) THEN EqualLogs ELSE DeltaFrom(i + 1)

\* Where the scan stops at record i: the record itself is needed when its tick
\* is the first missing one, otherwise the delta starts after it.
RecoverFrom(log, i, rp) ==
    IF log[i].tag.tick = rp[log[i].tag.clock] + 1 THEN DeltaFrom(i)
    ELSE IF i = Len(log) THEN EqualLogs ELSE DeltaFrom(i + 1)

\* The scan; it fails at a record without a tag and at the end of the log.
ScanBack(log, first, rp, wanted) ==
    IF \E i \in first .. Len(log) : Covers(log, first, i, rp, wanted)
    THEN RecoverFrom(log, CHOOSE i \in first .. Len(log) : Covers(log, first, i, rp, wanted), rp)
    ELSE NoDelta

ResolveWalDelta(log, first, rp, newest, oldest) ==
    IF \/ \A k \in Clock : rp[k] = 0
       \/ HigherThanCurrent(rp, newest)
       \/ BelowCutoff(rp, newest, oldest)
    THEN NoDelta
    ELSE IF WantedClocks(rp, newest) = {} THEN EqualLogs
    ELSE ScanBack(log, first, rp, WantedClocks(rp, newest))

-----------------------------------------------------------------------------
\* What a delta relies on

\* Records of one clock are in the order of their ticks, and a tick that occurs
\* twice belongs to one operation.
InOrder(log) ==
    \A i, j \in 1 .. Len(log) :
        i < j /\ log[i].tagged /\ log[j].tagged /\ log[i].tag.clock = log[j].tag.clock =>
            /\ log[i].tag.tick <= log[j].tag.tick
            /\ log[i].tag.tick = log[j].tag.tick => log[i] = log[j]

\* The clock map has seen every record of the log.
Seen(log, newest) ==
    \A i \in 1 .. Len(log) : log[i].tagged => log[i].tag.tick <= newest[log[i].tag.clock]
=============================================================================
