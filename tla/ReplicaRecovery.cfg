SPECIFICATION Spec
CONSTANTS
    a = a
    b = b
    Clock <- Senders
    BatchSize = 1
    Envs <- SoundEnvs
INVARIANTS TypeOK ActiveHasAcked DeltaComplete RecoveryPointHeld DeltaPremises RecoveryInv
SYMMETRY Same
CHECK_DEADLOCK FALSE
