\* Two jobs of the batch may run at once.
SPECIFICATION Spec
CONSTANTS
    w1 = w1  w2 = w2  r1 = r1  r2 = r2  fa = fa  fb = fb  ua = ua  ub = ub
    none = none  before = before  after = after
    Workers <- MCWorkers
    Rules <- MCRules
    Files <- MCFiles
    Usable <- MCUsable
    FactSets <- MCFactSets
    NoFacts = none
    Verdict <- MCVerdict
    Required <- MCRequired
    Marked <- MCMarked
    Excluded <- MCExcluded
    Statuses = {"PENDING", "ACCEPT"}
    Severities = {"HIGH"}
    MaxStamp = 4
    Overlap = TRUE
INVARIANTS
    TypeOK
    AtMostOneReport
    NoOrphanEvidence
    ExecutionsAreBacked
SYMMETRY Symmetry
CHECK_DEADLOCK FALSE
