SPECIFICATION FairSpec
CONSTANTS
    Callers = {a, b, c}
    Hosts = {site}
    Records = {r1, r2}
    NoHost = NoHost
    NoRecord = NoRecord
    MinInterval = 1
    PerMinute = 2
    Minute = 3
    Budget = 1
    MaxTime = 3
INVARIANTS
    TypeOK
    OneTurn
    PaceKept
    HostsForgotten
PROPERTIES
    EveryoneLeaves
