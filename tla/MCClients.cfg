SPECIFICATION SuiteSpec
CONSTANTS
    Kinds = {"send", "cancelTurn", "approve", "delete"}
    MaxRequests = 4
    MaxScripts = 1
    MaxFaults = 0
    MaxSignIns = 2
    MaxStops = 1
    MaxRefusals = 1
    MaxEvents = 1
INVARIANTS
    SuiteTypeOK
    QueueServed
    AcpSound
    TerminalSound
    EvaluationSound
    StorageSound
PROPERTIES
    NothingOverwritten
    BrowserOpens
CHECK_DEADLOCK FALSE
