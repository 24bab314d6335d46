SPECIFICATION SuiteSpec
CONSTANTS
    Processes = {r1, r2}
    Nobody = Nobody
    LeaseDuration = 0
    Heartbeat = 0
    MaxClock = 1
    MaxToken = 2
    Unreadable = Unreadable
PROPERTIES
    PublishedEventually
    StaleTokenDropped
