------------------------- MODULE MCReplicaRecovery -------------------------
(***************************************************************************)
(* Instances of ReplicaRecovery for TLC.                                   *)
(***************************************************************************)
EXTENDS ReplicaRecoveryInvariant, TLC

CONSTANTS a, b

Senders == {a, b}
Same == Permutations(Senders)

\* One clock, the flush worker of Source truncates its log.
Flushing == [tags |-> 2, faults |-> 2, clocks |-> {a}, flush |-> TRUE,
             pending |-> FALSE, lead |-> FALSE, late |-> FALSE, torn |-> FALSE, forget |-> FALSE]

\* One clock, a transfer that was aborted is repeated when Dest has seen more.
Repeated == [Flushing EXCEPT !.tags = 3, !.flush = FALSE]

\* Two clocks.
TwoClocks == [Flushing EXCEPT !.clocks = {a, b}, !.faults = 1, !.flush = FALSE]

SoundEnvs == {Flushing, Repeated, TwoClocks}

\* Two clocks, updates go on between reading the clocks and reading the log.
TornEnvs == {[TwoClocks EXCEPT !.torn = TRUE, !.tags = 3]}
=============================================================================
