SPECIFICATION Spec
CONSTANTS
    MaxRevision = 5
    MaxEvents = 6
INVARIANT SnapshotCoherent
CHECK_DEADLOCK FALSE
