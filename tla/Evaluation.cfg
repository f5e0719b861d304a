\* Four possible issues, three assertions, two evaluations of a batch.
SPECIFICATION Spec
CONSTANTS
    Gold <- MCGold
    Issues <- MCIssues
    Ratio <- MCRatio
    Inspections <- MCInspections
    Facts <- MCFacts
    Selections <- MCSelections
    MaxRows = 3
    MaxReports = 2
INVARIANTS
    MappingIsStable
    HitsShareAFile
PROPERTIES
    HitsAreKept
CHECK_DEADLOCK FALSE
