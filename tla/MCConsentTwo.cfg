SPECIFICATION Spec
CONSTANTS
    Sessions = {s1, s2}
    Actions = {click, scroll}
    Passive = {scroll}
    Tokens = {t1}
    Places = {here}
    Home = here
    NoSession = NoSession
    NoAction = NoAction
    NoToken = NoToken
    Automatic <- PassiveOnly
    ApprovalTTL = 1
    ConsumedTTL = 2
    RecordTTL = 2
    MaxPending = 1
    MaxRev = 0
    MaxEpoch = 1
    MaxTime = 2
PROPERTIES
    GatedByHuman
    NoEffectUnderControl
