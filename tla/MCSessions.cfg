SPECIFICATION SuiteSpec
CONSTANTS
    Runtimes = {r1, r2}
    Sources = {a, b}
    NoSource = NoSource
    MaxAge = 1
    ClaimTtl = 1
    MaxClock = 2
    Procs = {"a", "b"}
    Here = "a"
    MaxMsgs = 4
    MaxSets = 1
    MaxUndos = 1
    ItemIds = {i1, i2}
    Phases = {commentary, final}
    Calls = {c1}
    Reasoning = reasoning
    Unreadable = unreadable
    CancelFaults = FALSE
    MaxChanges = 3
SYMMETRY Symmetry
INVARIANTS
    SuiteTypeOK
    OneFetcher
    ClientsFollow
    ConversationIntact
    RequestComplete
    RuntimeSound
    DeltasReplayed
PROPERTIES
    InstalledMovesOn
    PrefixStable
CHECK_DEADLOCK FALSE
