SPECIFICATION FairSpec
CONSTANTS
    None = None
    Collector = collector
    t1 = t1  t2 = t2  s1 = s1  s2 = s2  o1 = o1  o2 = o2  b1 = b1  sec1 = sec1  sec2 = sec2
    Objects <- AllObjects
    Tenants = {t1, t2}
    Subscriptions = {s1, s2}
    Outputs = {o1}
    Bridges = {}
    Secrets = {sec1}
    SecretOf <- OwnSecret
    NameOf <- PlainNames
    NsLabels <- Namespaces
    NameLabels <- SameNames
    Lower <- LowerCase
    Full <- AsStored
    Scenarios <- LiveScenarios
    EditValues <- LifecycleEdits
    MaxLag = 1
INVARIANTS CompleteInput SettledDeployed EnvBacked
PROPERTIES CollectorSettles ComesToRest
CHECK_DEADLOCK FALSE
