SPECIFICATION SuiteSpec
CONSTANTS
    Procs = {p1, p2}
    MaxGenerations = 3
    MaxLogins = 2
    MaxLogouts = 1
    Ports = {1}
    Sharers = {p1, p2}
    MaxResets = 2
    MaxTokens = 2
    Tasks = {p1, p2}
    MaxConnections = 2
    MaxVersions = 2
    MaxCalls = 1
    Requests = {"r", "c"}
    Compactions = {"c"}
    Items = {"e"}
    MaxAttempts = 2
    MaxDelay = 2
    MaxElapsed = 1
    Capacity = 1
    MaxTime = 2
SYMMETRY Symmetry
INVARIANTS
    SuiteTypeOK
    OutputIntact
    CredentialsSafe
    McpCredentialsSound
    ServersSound
    SendAccounted
PROPERTIES
    PauseKept
CHECK_DEADLOCK FALSE
