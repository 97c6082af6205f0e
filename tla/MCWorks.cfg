CONSTANTS
    s1 = s1
    s2 = s2
    NoWork = NoWork
    Works <- TwoWorks
    MaxWorks = 2
    MaxQueued = 1
    WorkTTL = 1
    IdleTimeout = 1
    MaxCalls = 3
    MaxFaults = 2
SPECIFICATION Spec_Works
INVARIANTS WorksTypeOK NoStrayBrowser OwnerRemembered DesktopPrivate
PROPERTIES EndsOnceForAReason IdleWorksEnd
CHECK_DEADLOCK FALSE
