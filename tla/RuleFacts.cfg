\* Three files, two extractions.
SPECIFICATION Spec
CONSTANTS
    Files <- MCFiles
    Name <- MCName
    DocTypes <- MCTypes
    Inferred <- MCInferred
    SafetyNamed <- MCSafetyNamed
    Answers <- MCAnswers
    Data <- MCData
    Values <- MCValues
    Normal <- MCNormal
    Text <- MCText
    Day <- MCDay
    Length <- MCLength
    Generic = {"none", "two_generic"}
    MergeOrder <- MCMergeOrder
    Today = 2
    Rules <- MCRules
    MaxClock = 2
INVARIANTS
    TypeOK
    HitsHaveEvidence
    PeopleRulesAreExact
    DefectsAccumulate
    VerdictsIgnoreOrder
