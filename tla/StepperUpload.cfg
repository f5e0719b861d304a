\* The user uploads another batch while steps run.
SPECIFICATION Spec
CONSTANTS
    b1 = b1  b2 = b2  r1 = r1  r2 = r2
    Batches <- MCBatches
    NoBatch = NoBatch
    Runs <- MCRuns
    UploadAnytime = TRUE
INVARIANTS
    StrictOrder
CHECK_DEADLOCK FALSE
