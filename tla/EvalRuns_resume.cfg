SPECIFICATION Spec
CONSTANTS
    Procs = {"a", "b"}
    Attempts = {1, 2}
    Dates = {1}
    Graders = 2
    MaxCommands = 3
    MaxFaults = 2
INVARIANT RerunAlwaysResumes
CHECK_DEADLOCK FALSE
