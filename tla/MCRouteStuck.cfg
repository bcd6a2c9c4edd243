SPECIFICATION CalmSpec
CONSTANTS
    None = None
    Malformed = Malformed
    t1 = t1  t2 = t2  o1 = o1  o2 = o2  s1 = s1  s2 = s2  b1 = b1  b2 = b2
    n1 = n1  n2 = n2  red = red  blue = blue
    Objects <- AllObjects
    NsOf <- Residence
    Tenants <- OneTenant
    Outputs = {o1}
    Subscriptions = {s1}
    Bridges = {}
    Namespaces = {n1}
    Labels = {red, blue}
    AuthOutputs = {o1}
    BridgeEnds <- NoBridges
    TenantSpecs = {}
    RefChoices = {}
    Deployed <- AllObjects
    Editable = {}
    Movable = {}
    InitSpec <- OwnColour
    InitRefs <- RefsToO1
    InitLabel <- RedBlue
    InitSecrets = {}
    MaxLag = 1
    MaxEdits = 1
    MaxFaults = 0
    MaxRestarts = 0
PROPERTIES OutputsRecover
CHECK_DEADLOCK FALSE
