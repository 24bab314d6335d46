SPECIFICATION Spec
CONSTANTS
    Runtimes = {p, q}
    NoOne = NoOne
    Outcomes = {"Completed", "Cancelled"}
    MaxCalls = 1
    MaxResponses = 3
    MaxUsers = 3
    MaxCrashes = 1
INVARIANT NothingUnfinishedKept
CHECK_DEADLOCK FALSE
