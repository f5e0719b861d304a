\* Two files, two processes, jobs alone, beside what a failed one left, or beside
\* each other.
SPECIFICATION FairSpec
CONSTANTS
    j1 = j1  j2 = j2
    Requests <- MCRequests
    Pdf <- MCPdf
    BaseName <- MCBaseName
    Told <- MCTold
    ModelTypes <- MCModelTypes
    Length <- MCLength
    Canonical <- MCCanonical
    Education <- MCEducation
    Supported <- MCSupported
    Candidates <- MCCandidates
    Jobs <- MCJobs
    Home <- MCProcesses
    Concurrency = 0
    MaxStarts <- MCMaxStarts
INVARIANTS
    TypeOK
    UploadIsWhole
    AnswersAreOfTheFile
    CalmCacheIsWhole
PROPERTIES
    JobsEnd
    ImplementsBook
CHECK_DEADLOCK FALSE
