\* Clients wait for each job of the batch; any job may crash at any statement.
SPECIFICATION Spec
CONSTANTS
    w1 = w1  w2 = w2  r1 = r1  r2 = r2  fa = fa  fb = fb  ua = ua  ub = ub
    none = none  before = before  after = after
    Workers <- MCOneWorker
    Rules <- MCRules
    Files <- MCFiles
    Usable <- MCUsable
    FactSets <- MCFactSets
    NoFacts = none
    Verdict <- MCVerdict
    Required <- MCRequired
    Marked <- MCMarked
    Excluded <- MCExcluded
    Statuses = {"PENDING", "ACCEPT", "REJECT"}
    Severities = {"HIGH", "LOW"}
    MaxStamp = 5
    Overlap = FALSE
INVARIANTS
    EvidenceBacksIssues
    ReportMatchesIssues
    WorkbookMatchesReport
PROPERTIES
    AuditIdempotent
    ImplementsPromise
CHECK_DEADLOCK FALSE
