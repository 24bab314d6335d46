SPECIFICATION DeltasSpec
CONSTANTS
    ItemIds = {i1, i2}
    Phases = {commentary, final}
    Calls = {c1}
    Reasoning = reasoning
    Unreadable = unreadable
    CancelFaults = TRUE
    MaxChanges = 3
INVARIANT ReplayIsRecorded
