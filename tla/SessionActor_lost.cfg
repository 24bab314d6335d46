SPECIFICATION Spec
CONSTANTS
    Kinds = {"send", "cancelTurn"}
    MaxRequests = 4
    MaxScripts = 0
    MaxFaults = 0
INVARIANT QueuedKept
