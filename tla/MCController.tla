--------------------------- MODULE MCController ---------------------------
(***************************************************************************)
(* An instance of TelemetryController for TLC.                             *)
(***************************************************************************)
EXTENDS TelemetryController, TLC

CONSTANTS t1, t2, s1, o1, n1, red, blue

AllObjects == RouteObjects \cup {Collector, "role", "sa", "binding", "auth", "otel"}
Residence == [r \in Outputs \cup Subscriptions |-> n1]
Picks(labels) == [sub |-> labels, log |-> {red, blue}]
NoBridges == [b \in {} |-> {}]
NoLabels == [o \in Outputs |-> <<>>]
RedN1 == [n \in Namespaces |-> red]
PlainNames == [x \in Outputs \cup Subscriptions |-> x]
Settings == [t \in Tenants |-> [storage |-> FALSE, defaults |-> {}]]
AlwaysC == [x \in Subscriptions \cup Bridges |-> "c1"]
File == [o \in Outputs |-> "otlp_grpc"]
NoCase == <<>>

\* t1 selects n1 with all in it, and t2 what t1 does not; the manager has come
\* to rest.
Statuses ==
    [x \in RouteObjects \cup {Collector} |->
        CASE x \in Tenants -> [Route!Created(x) EXCEPT !.spec = Picks(IF x = t1 THEN {red} ELSE {blue}), !.state = "ready",
                                                       !.subs = IF x = t1 THEN {s1} ELSE {}, !.logNs = {n1}]
          [] x \in Subscriptions -> [Route!Created(x) EXCEPT !.tenant = t1, !.state = "ready", !.refs = {o1}, !.outputs = {o1}]
          [] x \in Outputs -> [Route!Created(x) EXCEPT !.tenant = t1, !.state = "ready"]
          [] x = Collector -> [exists |-> TRUE, debug |-> FALSE, dryRun |-> FALSE, events |-> FALSE, axoflow |-> FALSE,
                               given |-> [volumes |-> {}, mounts |-> {}],
                               state |-> "ready", problems |-> {}, tenants |-> Tenants]]
Input ==
    LET Value(x) == Full(x, Statuses[x])
    IN  Coll!OtelColConfigInput(Value(Collector),
            [t \in Tenants |-> Coll!TenantInput(Value(t))],
            [s \in {s1} |-> Coll!SubscriptionInput(Value(s))],
            <<>>,
            <<Coll!OutputInput(o1, Value(o1), <<>>)>>)
Otel ==
    LET cfg == Coll!AssembleConfig(Input)
    IN  Coll!OtelCollector(Input, cfg, CHOOSE layout \in Coll!Layouts(Input, cfg) : TRUE)
Settled ==
    [x \in AllObjects |->
        CASE x \in RouteObjects \cup {Collector} -> Statuses[x]
          [] x = "otel" -> Coll!Child(Otel, TRUE)
          [] x = "auth" -> Coll!Child(<<>>, FALSE)
          [] OTHER -> Coll!Child("fixed", FALSE)]
=============================================================================
