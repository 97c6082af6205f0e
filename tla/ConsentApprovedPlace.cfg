SPECIFICATION Spec
CONSTANTS
    Sessions = {s1}
    Actions = {click}
    Passive = {}
    Tokens = {t1, t2}
    Places = {here, there}
    Home = here
    NoSession = NoSession
    NoAction = NoAction
    NoToken = NoToken
    Automatic <- AwayFromHome
    ApprovalTTL = 2
    ConsumedTTL = 3
    RecordTTL = 3
    MaxPending = 2
    MaxRev = 1
    MaxEpoch = 0
    MaxTime = 4
PROPERTY
    ApprovedPlace
