\* Every setting and kind of document; two attempts for each client.
SPECIFICATION Spec
CONSTANTS
    MaxRetries = 2
    Settings <- MCSettings
INVARIANTS
    TypeOK
    RequestsBounded
    AnswersAreFoundAgain
    NoEmptyRelayAnswer
    OfficialIsASecondChoice
PROPERTIES
    CallEnds
CHECK_DEADLOCK FALSE
