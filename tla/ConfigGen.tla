----------------------------- MODULE ConfigGen -----------------------------
(***************************************************************************)
(* The configuration of the OpenTelemetry collector that is assembled for  *)
(* a Collector (pkg/resources/otel_conf_gen), as a function of its input.  *)
(*                                                                         *)
(* The input is what BuildConfigInputForCollector has read:                *)
(*   tenants  [tenant -> subs, logNs, all, storage, dir, transform,        *)
(*             flatten, defaults]                                          *)
(*   subs     [subscription -> outputs, refs, cond]                        *)
(*   bridges  sequence of [name, source, target, cond]                     *)
(*   outputs  sequence of [name, kind, path, auth, batch, cred]            *)
(*   debug, dryRun, events, axoflow, given                                 *)
(* The sequences are Go slices: an object two others refer to is in them   *)
(* twice, as it was read each time.                                        *)
(*                                                                         *)
(* A component or pipeline name is a tuple. Names of Kubernetes objects    *)
(* have neither "_" nor "/", so "a_b" put together from two of them is the *)
(* pair. What only names the object without its namespace is built from    *)
(* NameOf, which two objects may share.                                    *)
(***************************************************************************)
EXTENDS Naturals, Sequences, FiniteSets

Ext == INSTANCE SequencesExt

CONSTANTS
    NameOf,  \* NameOf[x]: metadata.name of a subscription or output
    None     \* a setting that is not given

When(c, S) == IF c THEN S ELSE {}

\* A list in a status that was read from the API is nil exactly when it is
\* empty: every such field is omitempty.
NotNil(list) == list # {}

-----------------------------------------------------------------------------
(* Names *)

DebugExporter == <<"debug">>
PrometheusExporter == <<"prometheus/message_metrics_exporter">>
MemoryLimiter == <<"memory_limiter">>
K8sAttributes == <<"k8s_attributes">>
FilterExclude == <<"filter/exclude">>
DeltaToCumulative == <<"deltatocumulative">>
MetricAttributes == <<"attributes/metricattributes">>
HealthCheck == <<"health_check">>
CountTenant == <<"count/tenant_metrics">>
CountOutput == <<"count/output_metrics">>
BytesExporter == <<"bytes/exporter">>

FileLog(t) == <<"file_log", t>>
K8sEvents(t) == <<"k8s_events", t>>
FileStorage(t) == <<"file_storage", t>>
TenantAttributes(t) == <<"attributes/tenant", t>>
Transform(name) == <<"transform", name>>
SubscriptionAttributes(s) == <<"attributes/subscription", NameOf[s]>>
ExporterNameAttributes(o) == <<"attributes/exporter_name", NameOf[o]>>
BatchProcessor(o) == <<"batch", NameOf[o]>>
Authenticator(o) == <<o.auth, o.name>>
TenantRoute(t) == <<"routing/tenant_subscriptions", t>>
SubscriptionRoute(s) == <<"routing/subscription_outputs", s>>
BridgeRoute(b) == <<"routing/bridge", b>>
LogsTenant(t) == <<"logs/tenant", t>>
LogsSubscription(t, s) == <<"logs/tenant_subscription", t, s>>
LogsOutput(s, o) == <<"logs/output", s, o>>
GetExporterNameForOutput(o) == <<o.kind, o.name>>

-----------------------------------------------------------------------------
(* The input *)

Outs(in) == {in.outputs[i] : i \in DOMAIN in.outputs}
SubscriptionsOf(in, t) == in.tenants[t].subs
OutputsOf(in, s) == in.subs[s].outputs

\* slices.IndexFunc: the first copy of an output.
FirstCopy(in, o) ==
    in.outputs[CHOOSE i \in DOMAIN in.outputs :
                  /\ in.outputs[i].name = o
                  /\ \A j \in 1..(i - 1) : in.outputs[j].name # o]

\* The tenants one of which FindTenantForOutput returns; the loop is over a Go
\* map, so it may be any of them.
FindTenantForOutput(in, o) ==
    {t \in DOMAIN in.tenants : \E s \in SubscriptionsOf(in, t) : o \in OutputsOf(in, s)}

HasReceivers(tenant) == NotNil(tenant.logNs) \/ tenant.all

\* ValidateConfigInput. Its first check, IsEmpty, never succeeds: the maps of
\* the relations are made, not nil, so the input never equals its zero value,
\* and ErrNoResources is never returned.
ValidateTenants(in) ==
    /\ DOMAIN in.tenants # {}
    /\ \A t \in DOMAIN in.tenants : ~(NotNil(in.tenants[t].logNs) /\ in.tenants[t].all)
ValidateSubscriptionsAndBridges(in) ==
    /\ DOMAIN in.subs # {} \/ in.bridges # <<>>
    /\ \A s \in DOMAIN in.subs : in.subs[s].refs # {}
    /\ \A i \in DOMAIN in.bridges : {in.bridges[i].source, in.bridges[i].target} \subseteq DOMAIN in.tenants
ValidateConfigInput(in) == ValidateTenants(in) /\ ValidateSubscriptionsAndBridges(in)

\* What BuildConfigInputForCollector has read is complete: what is in it is
\* referred to by a tenant, and what it refers to is in it.
Complete(in) ==
    /\ DOMAIN in.subs = UNION {SubscriptionsOf(in, t) : t \in DOMAIN in.tenants}
    /\ \A s \in DOMAIN in.subs : \A o \in OutputsOf(in, s) : \E c \in Outs(in) : c.name = o

\* No bridge was turned round between two reads of it.
ConsistentBridges(in) ==
    \A i, j \in DOMAIN in.bridges :
        in.bridges[i].name = in.bridges[j].name =>
            in.bridges[i].source = in.bridges[j].source /\ in.bridges[i].target = in.bridges[j].target

-----------------------------------------------------------------------------
(* The sections of the configuration *)

\* Every kind but the file exporter looks for the tenant of the output first.
Exported(in, o) == o.kind # None /\ (o.kind = "file" \/ FindTenantForOutput(in, o.name) # {})
GenerateExporters(in) ==
    IF in.dryRun THEN {DebugExporter}
    ELSE When(in.debug, {DebugExporter})
         \cup {PrometheusExporter}
         \cup {GetExporterNameForOutput(o) : o \in {o \in Outs(in) : Exported(in, o)}}

\* Where the name of a processor lacks the namespace, objects of one name share
\* it, and the map keeps the last one made.
GenerateProcessors(in) ==
    {K8sAttributes, MemoryLimiter, FilterExclude, DeltaToCumulative, MetricAttributes}
    \cup {TenantAttributes(t) : t \in DOMAIN in.tenants}
    \cup {Transform(in.tenants[t].transform) : t \in {t \in DOMAIN in.tenants : in.tenants[t].transform # None}}
    \cup {SubscriptionAttributes(s) : s \in DOMAIN in.subs}
    \cup {ExporterNameAttributes(o.name) : o \in Outs(in)}
    \cup {BatchProcessor(o.name) : o \in {o \in Outs(in) : o.batch}}

\* Mutant: persistence is switched off by mistake when logs are debugged.
ExtensionsWithoutStorage(in) ==
    When(~in.dryRun, {HealthCheck})
    \cup {Authenticator(o) : o \in {o \in Outs(in) : o.auth # None}}
    \cup {FileStorage(t) : t \in {t \in DOMAIN in.tenants :
                                     ~in.dryRun /\ ~in.debug /\ in.tenants[t].storage}}

GenerateExtensions(in) ==
    When(~in.dryRun, {HealthCheck})
    \cup {Authenticator(o) : o \in {o \in Outs(in) : o.auth # None}}
    \cup {FileStorage(t) : t \in {t \in DOMAIN in.tenants : ~in.dryRun /\ in.tenants[t].storage}}

\* Where the configuration writes to: the directories of the file storages, and
\* the files of the file exporters, of two copies of an output the last one's.
StorageDirectories(in) ==
    {[tenant |-> t, dir |-> in.tenants[t].dir] : t \in {t \in DOMAIN in.tenants : ~in.dryRun /\ in.tenants[t].storage}}
ExporterFiles(in) ==
    LET files == When(~in.dryRun, {i \in DOMAIN in.outputs : in.outputs[i].kind = "file"})
    IN  {in.outputs[i].path : i \in {i \in files : \A j \in files : j > i => in.outputs[j].name # in.outputs[i].name}}

GenerateReceivers(in) ==
    LET ts == {t \in DOMAIN in.tenants : HasReceivers(in.tenants[t])}
    IN  {FileLog(t) : t \in ts} \cup When(in.events, {K8sEvents(t) : t \in ts})

\* The extensions the exporters and receivers refer to: the storage of their
\* queues and checkpoints, and the authenticators.
PersistentKinds == {"otlp_grpc", "otlp_http", "fluentforwardexporter", "elasticsearch", "awss3"}
OutputKinds == PersistentKinds \cup {"file"}
AuthKinds == {"otlp_grpc", "otlp_http", "elasticsearch"}
ExtensionRefs(in) ==
    LET exported == When(~in.dryRun, {o \in Outs(in) : Exported(in, o)})
    IN  {FileStorage(t) : t \in {t \in DOMAIN in.tenants :
                /\ in.tenants[t].storage
                /\ \/ ~in.dryRun /\ HasReceivers(in.tenants[t])
                   \/ \E o \in exported : o.kind \in PersistentKinds /\ t \in FindTenantForOutput(in, o.name)}}
        \cup {Authenticator(o) : o \in {o \in exported : o.kind \in AuthKinds /\ o.auth # None}}

-----------------------------------------------------------------------------
(* Routing connectors: a table of conditions and pipelines, and the pipelines *)
(* for what no condition of the table matches                                 *)

Row(cond, pipelines) == [cond |-> cond, pipelines |-> pipelines]
RoutingConnector(id, table, defaults) == [id |-> id, table |-> table, defaults |-> defaults]
Connector(id, table) == RoutingConnector(id, table, {})

\* Mutant: a condition that was seen before replaces the pipelines.
TableOfLastSubscription(in, t) ==
    LET subs == SubscriptionsOf(in, t) \cap DOMAIN in.subs
    IN  {Row(in.subs[s].cond, {LogsSubscription(t, CHOOSE u \in subs : in.subs[u].cond = in.subs[s].cond)}) :
            s \in subs}

\* Subscriptions with the same condition share a row.
SubscriptionTable(in, t) ==
    LET subs == SubscriptionsOf(in, t) \cap DOMAIN in.subs
    IN  {Row(in.subs[s].cond, {LogsSubscription(t, u) : u \in {u \in subs : in.subs[u].cond = in.subs[s].cond}}) :
            s \in subs}

\* The map keeps the last copy of a bridge.
LastBridges(in) ==
    {in.bridges[i] : i \in {i \in DOMAIN in.bridges :
        \A j \in (i + 1)..Len(in.bridges) : in.bridges[j].name # in.bridges[i].name}}

GenerateConnectors(in) ==
    When(~in.dryRun, {Connector(CountTenant, {}), Connector(CountOutput, {})}
                     \cup When(in.axoflow, {Connector(BytesExporter, {})}))
    \cup {RoutingConnector(TenantRoute(t), SubscriptionTable(in, t), in.tenants[t].defaults) :
             t \in {t \in DOMAIN in.tenants : SubscriptionsOf(in, t) # {}}}
    \cup {Connector(SubscriptionRoute(s), {Row("true", {LogsOutput(s, o) : o \in OutputsOf(in, s)})}) :
             s \in {s \in DOMAIN in.subs : OutputsOf(in, s) # {}}}
    \cup {Connector(BridgeRoute(b.name), {Row(b.cond, {LogsTenant(b.target)})}) : b \in LastBridges(in)}

-----------------------------------------------------------------------------
(* Pipelines *)

Pipeline(id, receivers, processors, exporters) ==
    [id |-> id, receivers |-> receivers, processors |-> processors, exporters |-> exporters]

\* addConnectorToPipeline leaves a pipeline alone that has the connector: only
\* the first copy of a bridge that has t at an end counts.
Ends(b) == {b.source, b.target}
Counts(in, t, i) ==
    /\ t \in Ends(in.bridges[i])
    /\ \A j \in 1..(i - 1) : in.bridges[j].name = in.bridges[i].name => t \notin Ends(in.bridges[j])

\* Mutant: the ends of a bridge are swapped.
IncomingFromSource(in, t) ==
    {BridgeRoute(in.bridges[i].name) :
        i \in {i \in DOMAIN in.bridges : Counts(in, t, i) /\ in.bridges[i].source = t}}

IncomingBridges(in, t) ==
    {BridgeRoute(in.bridges[i].name) :
        i \in {i \in DOMAIN in.bridges : Counts(in, t, i) /\ in.bridges[i].target = t}}
OutgoingBridges(in, t) ==
    {BridgeRoute(in.bridges[i].name) :
        i \in {i \in DOMAIN in.bridges : Counts(in, t, i) /\ in.bridges[i].source = t}}

\* GenerateRootPipeline, the bridges and the transform processor.
RootPipeline(in, t) ==
    LET tenant == in.tenants[t]
    IN  Pipeline(LogsTenant(t),
            When(HasReceivers(tenant), {FileLog(t)} \cup When(in.events, {K8sEvents(t)}))
                \cup IncomingBridges(in, t),
            <<K8sAttributes, TenantAttributes(t), FilterExclude>>
                \o (IF tenant.transform # None THEN <<Transform(tenant.transform)>> ELSE <<>>),
            When(NotNil(tenant.subs), {TenantRoute(t)})
                \cup When(~in.dryRun, {CountTenant})
                \cup OutgoingBridges(in, t))

SubscriptionPipeline(t, s) ==
    Pipeline(LogsSubscription(t, s), {TenantRoute(t)}, <<SubscriptionAttributes(s)>>, {SubscriptionRoute(s)})

OutputExporters(in, copy) ==
    IF in.dryRun THEN {DebugExporter}
    ELSE When(in.debug, {DebugExporter})
         \cup When(copy.kind # None, {GetExporterNameForOutput(copy), CountOutput}
                                     \cup When(in.axoflow, {BytesExporter}))
OutputPipeline(in, s, o) ==
    LET copy == FirstCopy(in, o)
    IN  Pipeline(LogsOutput(s, o), {SubscriptionRoute(s)},
            <<ExporterNameAttributes(o)>> \o (IF copy.batch THEN <<BatchProcessor(o)>> ELSE <<>>),
            OutputExporters(in, copy))

MetricsPipeline(id, connector) ==
    Pipeline(id, {connector}, <<DeltaToCumulative, MetricAttributes>>, {PrometheusExporter})
GenerateMetricsPipelines(in) ==
    {MetricsPipeline(<<"metrics/tenant">>, CountTenant), MetricsPipeline(<<"metrics/output">>, CountOutput)}
    \cup When(in.axoflow, {MetricsPipeline(<<"metrics/output_bytes">>, BytesExporter)})

\* The subscriptions the tenants list, and the outputs of those that were read.
Listed(in) == {s \in DOMAIN in.subs : \E t \in DOMAIN in.tenants : s \in SubscriptionsOf(in, t)}
ListedPairs(in) == UNION {{<<t, s>> : s \in SubscriptionsOf(in, t)} : t \in DOMAIN in.tenants}
RoutedPairs(in) ==
    UNION {{<<s, o>> : o \in {o \in OutputsOf(in, s) : \E c \in Outs(in) : c.name = o}} : s \in Listed(in)}

GenerateNamedPipelines(in) ==
    {RootPipeline(in, t) : t \in DOMAIN in.tenants}
    \cup When(~in.dryRun, GenerateMetricsPipelines(in))
    \cup {SubscriptionPipeline(p[1], p[2]) : p \in ListedPairs(in)}
    \cup {OutputPipeline(in, p[1], p[2]) : p \in RoutedPairs(in)}

\* AssembleConfig: every pipeline begins with the memory limiter.
Limited(p) == [p EXCEPT !.processors = <<MemoryLimiter>> \o @]
AssembleConfig(in) ==
    [receivers |-> GenerateReceivers(in), exporters |-> GenerateExporters(in),
     processors |-> GenerateProcessors(in), connectors |-> GenerateConnectors(in),
     extensions |-> GenerateExtensions(in), uses |-> ExtensionRefs(in),
     storages |-> StorageDirectories(in), files |-> ExporterFiles(in),
     pipelines |-> {Limited(p) : p \in GenerateNamedPipelines(in)}]

-----------------------------------------------------------------------------
(* What the same input does not settle: the code ranges over Go maps, and     *)
(* lists come from the cache in any order.                                    *)

\* populateRoutingConnectorTable: the rows of each table, in some order.
TableOrders(cfg) ==
    LET tables == {c \in cfg.connectors : Cardinality(c.table) > 1}
    IN  {f \in [{c.id : c \in tables} -> UNION {Ext!SetToSeqs(c.table) : c \in tables}] :
            \A c \in tables : f[c.id] \in Ext!SetToSeqs(c.table)}

\* The storage of the queue of each exporter: that of the tenant
\* FindTenantForOutput came upon first.
PersistentQueues(in) == When(~in.dryRun, {o.name : o \in {o \in Outs(in) : o.kind \in PersistentKinds /\ Exported(in, o)}})
StorageOf(in, t) == IF in.tenants[t].storage THEN FileStorage(t) ELSE None
QueueStorages(in) ==
    {f \in [PersistentQueues(in) -> {StorageOf(in, t) : t \in DOMAIN in.tenants}] :
        \A o \in PersistentQueues(in) : f[o] \in {StorageOf(in, t) : t \in FindTenantForOutput(in, o)}}

\* Of tenants whose transforms have one name the last one's is kept. If one
\* that is kept flattens logs, the pods are told to by assembleAdditionalArgs.
KeptTransform(in, order, i) ==
    /\ in.tenants[order[i]].transform # None
    /\ \A j \in (i + 1)..Len(order) : in.tenants[order[j]].transform # in.tenants[order[i]].transform
AdditionalArgs(in, order) ==
    When(\E i \in DOMAIN order : KeptTransform(in, order, i) /\ in.tenants[order[i]].flatten,
         {"transform.flatten.logs"})

-----------------------------------------------------------------------------
(* ValidateAssembledConfig: otelcol's own check of the references. It sees   *)
(* the names of the components and of the pipelines, and not what is inside  *)
(* a component: routing tables, storage and authenticators.                  *)

ConnectorIds(cfg) == {c.id : c \in cfg.connectors}
ReferencesResolve(cfg) ==
    \A p \in cfg.pipelines :
        /\ p.receivers \subseteq cfg.receivers \cup ConnectorIds(cfg)
        /\ \A i \in DOMAIN p.processors : p.processors[i] \in cfg.processors
        /\ p.exporters \subseteq cfg.exporters \cup ConnectorIds(cfg)
ValidateAssembledConfig(cfg) == cfg.receivers # {} /\ cfg.exporters # {} /\ ReferencesResolve(cfg)

-----------------------------------------------------------------------------
(* What that check does not see *)

\* Every pipeline in a routing table exists and takes from that connector.
RoutesResolve(cfg) ==
    \A c \in cfg.connectors : \A row \in c.table : \A q \in row.pipelines :
        \E p \in cfg.pipelines : p.id = q /\ c.id \in p.receivers

\* Every storage and authenticator that is referred to is an extension.
ExtensionsResolve(cfg) == cfg.uses \subseteq cfg.extensions

\* The pipelines that are offered a log of the pipeline `start' for which
\* exactly the conditions in `sat' hold: through the rows of the connectors it
\* exports to. (Whether the routing connector goes on after the first row that
\* matches is a matter of its version.)
Follow(cfg, ps, sat) ==
    ps \cup {q \in cfg.pipelines :
               \E p \in ps, c \in cfg.connectors :
                  /\ c.id \in p.exporters /\ c.id \in q.receivers
                  /\ \/ \E row \in c.table : row.cond \in sat /\ q.id \in row.pipelines
                     \/ q.id \in c.defaults /\ \A row \in c.table : row.cond \notin sat}
ReachedPipelines(cfg, start, sat) ==
    LET after[n \in Nat] ==
            IF n = 0 THEN {p \in cfg.pipelines : p.id = start} ELSE Follow(cfg, after[n - 1], sat)
    IN  after[Cardinality(cfg.pipelines)]
ReachedExporters(cfg, start, sat) ==
    UNION {p.exporters \cap cfg.exporters : p \in ReachedPipelines(cfg, start, sat)}

\* The exporters the resources ask for: those of the outputs of the tenant's
\* subscriptions, and of the tenants its bridges lead to, one after another.
Cross(in, ts, sat) ==
    ts \cup {b.target : b \in {b \in LastBridges(in) : b.source \in ts /\ b.cond \in sat}}
BridgedTenants(in, t, sat) ==
    LET after[n \in Nat] == IF n = 0 THEN {t} ELSE Cross(in, after[n - 1], sat)
    IN  after[Cardinality(DOMAIN in.tenants)]
WantedSubscriptions(in, u, sat) ==
    LET matching == {s \in SubscriptionsOf(in, u) : in.subs[s].cond \in sat}
    IN  IF matching # {} THEN matching
        ELSE {s \in SubscriptionsOf(in, u) : LogsSubscription(u, s) \in in.tenants[u].defaults}
WantedOutputs(in, t, sat) ==
    UNION {OutputsOf(in, s) : s \in UNION {WantedSubscriptions(in, u, sat) : u \in BridgedTenants(in, t, sat)}}
WantedExporters(in, t, sat) ==
    LET copies == {FirstCopy(in, o) : o \in WantedOutputs(in, t, sat)}
    IN  IF in.dryRun THEN When(copies # {}, {DebugExporter})
        ELSE When(in.debug /\ copies # {}, {DebugExporter})
             \cup {GetExporterNameForOutput(o) : o \in {o \in copies : o.kind # None}}

\* A log takes exactly the ways its tenant asked for.
FlowExact(in, cfg, sat) ==
    \A t \in DOMAIN in.tenants :
        ReachedExporters(cfg, LogsTenant(t), sat) = WantedExporters(in, t, sat)
=============================================================================
