SPECIFICATION FairSpec
CONSTANTS
    None = None
    Malformed = Malformed
    t1 = t1  t2 = t2  o1 = o1  o2 = o2  s1 = s1  s2 = s2  b1 = b1  b2 = b2
    n1 = n1  n2 = n2  red = red  blue = blue
    Objects <- AllObjects
    NsOf <- Residence
    Tenants <- TwoTenants
    Outputs = {}
    Subscriptions = {}
    Bridges = {b1, b2}
    Namespaces = {n1}
    Labels = {red, blue}
    AuthOutputs = {}
    BridgeEnds <- PeerAndSelf
    TenantSpecs <- OnlyRed
    RefChoices = {}
    Deployed <- AllButT2
    Editable = {t2, b1}
    Movable = {}
    InitSpec <- OwnColour
    InitRefs <- RefsToO1
    InitLabel <- RedBlue
    InitSecrets = {}
    MaxLag = 1
    MaxEdits = 2
    MaxFaults = 1
    MaxRestarts = 0
PROPERTIES BridgesSettle
CHECK_DEADLOCK FALSE
