SPECIFICATION Spec
CONSTANTS
    a = a
    b = b
    Clock <- Senders
    BatchSize = 1
    Envs <- TornEnvs
INVARIANT DeltaComplete
SYMMETRY Same
CHECK_DEADLOCK FALSE
