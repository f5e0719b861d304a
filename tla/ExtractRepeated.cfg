\* One job at a time, files with different bytes, a relay key only.
SPECIFICATION FairSpec
CONSTANTS
    fa = fa  fb = fb  same = same  other = other  j1 = j1
    Files <- MCFiles
    Content <- MCDistinct
    DocTypes = {"jsa", "regulation"}
    Tier <- MCTier
    Guarded <- MCNone
    Official = FALSE
    Jobs <- MCOneJob
    Slots = 1
    MaxClock = 2
    Overlap = FALSE
INVARIANTS
    TypeOK
    DataComesFromACopy
PROPERTIES
    AnswersStick
    JobsEnd
CHECK_DEADLOCK FALSE
