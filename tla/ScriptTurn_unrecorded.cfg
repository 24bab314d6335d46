SPECIFICATION Spec
CONSTANTS
    Runtimes = {p, q}
    NoOne = NoOne
    Outcomes = {"Completed", "Cancelled"}
    MaxCalls = 2
    MaxResponses = 2
    MaxUsers = 2
    MaxCrashes = 1
INVARIANT CallsAnswered
CHECK_DEADLOCK FALSE
