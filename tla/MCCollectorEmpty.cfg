SPECIFICATION Spec
CONSTANTS
    None = None
    Collector = collector
    t1 = t1  t2 = t2  s1 = s1  s2 = s2  o1 = o1  o2 = o2  b1 = b1  sec1 = sec1  sec2 = sec2
    Objects <- AllObjects
    Tenants = {t1, t2}
    Subscriptions = {s1, s2}
    Outputs = {o1, o2}
    Bridges = {b1}
    Secrets = {sec1, sec2}
    SecretOf <- OwnSecret
    NameOf <- PlainNames
    NsLabels <- Namespaces
    NameLabels <- SameNames
    Lower <- LowerCase
    Full <- AsStored
    Scenarios <- EmptyScenarios
    EditValues <- NothingEdited
    MaxLag = 1
INVARIANT NoResourcesNotFailed
CHECK_DEADLOCK FALSE
