SPECIFICATION FairSpec
CONSTANTS
    None = None
    Malformed = Malformed
    Collector = collector
    t1 = t1  t2 = t2  s1 = s1  o1 = o1  n1 = n1  red = red  blue = blue
    Objects <- AllObjects
    Tenants = {t1, t2}
    Subscriptions = {s1}
    Outputs = {o1}
    Bridges = {}
    Namespaces = {n1}
    Labels = {red, blue}
    NsOf <- Residence
    BridgeEnds <- NoBridges
    Movable = {n1}
    NameOf <- PlainNames
    NsLabels <- NoLabels
    NameLabels <- NoLabels
    Lower <- NoCase
    TenantSetting <- Settings
    SubscriptionSetting <- AlwaysC
    OutputSetting <- File
    BridgeSetting <- AlwaysC
    InitObjects <- Settled
    InitLabel <- RedN1
    MaxLag = 1
    Late = {t1, t2, o1}
    MaxEdits = 1
INVARIANTS IsolatedAtRest
PROPERTIES StaleRouteEnds
CHECK_DEADLOCK FALSE
