SPECIFICATION FairSpec
CONSTANTS
    Kinds = {"send", "cancelStream", "cancelTurn", "approve", "deny", "delete"}
    MaxRequests = 3
    MaxScripts = 1
    MaxFaults = 1
INVARIANT
    ActorSound
PROPERTIES
    RequestsAnswered
    StopCompletes
