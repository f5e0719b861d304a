\* One process and clients who repeat a request that failed.
SPECIFICATION Spec
CONSTANTS
    j1 = j1  j2 = j2
    Requests <- MCRequests
    Pdf <- MCPdf
    BaseName <- MCBaseName
    Told <- MCTold
    ModelTypes <- MCModelTypes
    Length <- MCLength
    Canonical <- MCCanonical
    Education <- MCEducation
    Supported <- MCSupported
    Candidates <- MCCandidates
    Jobs <- MCJobs
    Home <- MCOneProcess
    Concurrency = 0
    MaxStarts <- MCRetries
PROPERTIES
    AnswersSurviveRetries
CHECK_DEADLOCK FALSE
