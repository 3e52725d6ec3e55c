SPECIFICATION MCSpec
CONSTANTS
    File <- FourFiles
    Cap = 2
    RetainClosed = 1
    Envs <- PassingEnvs
    Starts <- Zero
    MaxCrashes = 1
INVARIANTS TypeOK ViewIsRecoverable AppliedNotAhead
PROPERTIES RefinesLog FlushedSurvives
CHECK_DEADLOCK FALSE
