\* The user waits for one thing before starting another.
SPECIFICATION Spec
CONSTANTS
    b1 = b1  b2 = b2  r1 = r1  r2 = r2
    Batches <- MCBatches
    NoBatch = NoBatch
    Runs <- MCRuns
    UploadAnytime = FALSE
INVARIANTS
    TypeOK
    StrictOrder
    StatusIsTrue
    ListsAreOfTheBatch
PROPERTIES
    RunsEnd
CHECK_DEADLOCK FALSE
