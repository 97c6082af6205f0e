SPECIFICATION ServerSpec
CONSTANTS
    Forms = {f1, f2}
    GrantIds = {g1, g2}
    Pairs = {p1, p2, p3}
    Resources = {root, prefixed}
    NoForm = NoForm
    NoGrant = NoGrant
    NoResource = NoResource
    FormTTL = 1
    CodeTTL = 1
    AccessTTL = 1
    RefreshTTL = 2
    GrantMaxTTL = 3
    MaxTime = 4
    Reads = {1, 2}
    Callers = {"a", "b"}
    MaxWorks = 2
    MaxKept = 1
    MaxMishaps = 1
SYMMETRY Pools
INVARIANTS
    TypeOK
    RevokedForGood
    OneContinuation
    OneGrantPerConsent
    NeverPastLimit
    SameAudience
    ReadIsOwn
