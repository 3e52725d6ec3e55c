-------------------------------- MODULE MCWal -------------------------------
(***************************************************************************)
(* Instances of Wal for TLC, and the properties of the log.                *)
(***************************************************************************)
EXTENDS Wal

VARIABLE found      \* the log the next process would open

LogIn(d, p) == [base |-> FirstOf(d, p), records |-> RecordsOf(d, p)]

MCInit == Init /\ found = LogIn(dir, page)

MCNext == Next /\ \E d \in {dir'}, p \in {page'} : found' = LogIn(d, p)

MCSpec == MCInit /\ [][MCNext]_<<vars, found>>

Quiet == [power |-> FALSE, truncate |-> FALSE, span |-> FALSE, nowait |-> TRUE, busy |-> TRUE,
          appends |-> 5]

\* The process crashes, between any two changes of files, and unapplied
\* operations are truncated, not over a whole closed segment.
Crashes == [Quiet EXCEPT !.truncate = TRUE]

\* Power is lost when no flush thread runs; every operation has wait = true.
PowerLosses == [Quiet EXCEPT !.power = TRUE, !.nowait = FALSE, !.busy = FALSE,
                                 !.appends = 4]

PassingEnvs == {Crashes, PowerLosses}

FourFiles == 1..4
Zero == {0}

-----------------------------------------------------------------------------

\* What a reader of the log sees is what the next process would open: between
\* two calls the segments in memory are the directory's.
ViewIsRecoverable ==
    Idle => /\ WalFirst = found.base /\ WalEnd = found.base + Len(found.records)
            /\ closed = ClosedOf(dir, page)
            /\ open = OpenFile(dir, page)
            /\ \A f \in File : dir[f].kind # "none" => len[f] = Parse(page[f])

\* At every moment a crash would find a log: append, retirement, truncation and
\* acknowledgement, cut between any two changes of files, never renumber or
\* reorder entries, bring a removed entry back, or lose one that was not removed.
Log == INSTANCE WalLog WITH
          base <- found.base, records <- found.records

RefinesLog == Log!LogSpec

\* An entry that was flushed is in the log after a loss of power, at its index.
FlushedSurvives ==
    [][crashes' # crashes /\ env.power =>
         /\ state' = "up"
         /\ found'.base = found.base
         /\ IsPrefix(found'.records, found.records)
         /\ found'.base + Len(found'.records) >= OpenStart + off[open]]_vars

\* The operations the segments have persisted are in the log: the next operation
\* never gets the number of one that was applied before.
AppliedNotAhead == state = "up" => persisted <= WalEnd
=============================================================================
