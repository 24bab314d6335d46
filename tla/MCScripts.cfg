SPECIFICATION SuiteSpec
CONSTANTS
    Runtimes = {p, q}
    NoOne = NoOne
    Processes = {p, q}
    Nobody = Nobody
    LeaseDuration = 3
    Heartbeat = 1
    MaxClock = 4
    MaxToken = 2
    Outcomes = {"Completed", "Cancelled"}
    MaxCalls = 2
    MaxResponses = 2
    MaxUsers = 2
    MaxCrashes = 1
SYMMETRY Symmetry
INVARIANTS
    SuiteTypeOK
    ScriptsAnswered
    RequestsSound
    PermissionsSound
    SingleOwner
    WritesFenced
    PromptOwnerKeepsLease
PROPERTIES
    OwnershipEndsByOwner
    ImplementsOwnership
    StartedUnanswered
CHECK_DEADLOCK FALSE
