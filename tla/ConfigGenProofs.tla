-------------------------- MODULE ConfigGenProofs --------------------------
(***************************************************************************)
(* What holds of the assembled configuration for every input, of any size  *)
(* and from however stale and torn reads: what it refers to is in it, the  *)
(* order of reading leaves no trace in it, and logs go where they are      *)
(* asked to.                                                               *)
(***************************************************************************)
EXTENDS ConfigGen, WellFoundedInduction, SequenceTheorems, FiniteSetTheorems, TLAPS

(***************************************************************************)
(* Every storage and authenticator an exporter or receiver refers to is an *)
(* extension of the same configuration: generateExtensions and the         *)
(* generators of the components decide alike, in every mode.               *)
(***************************************************************************)
THEOREM ExtensionsAlwaysResolve ==
    ASSUME NEW in
    PROVE  ExtensionsResolve(AssembleConfig(in))
  <1>1. ASSUME NEW x \in ExtensionRefs(in)
        PROVE  x \in GenerateExtensions(in)
    <2>1. CASE \E t \in DOMAIN in.tenants : /\ x = FileStorage(t)
                                            /\ in.tenants[t].storage
                                            /\ ~in.dryRun
      BY <2>1 DEF GenerateExtensions
    <2>2. CASE \E o \in Outs(in) : x = Authenticator(o) /\ o.auth # None
      BY <2>2 DEF GenerateExtensions
    <2>3. QED
      BY <1>1, <2>1, <2>2 DEF ExtensionRefs, When
  <1>2. QED
    BY <1>1 DEF ExtensionsResolve, AssembleConfig

-----------------------------------------------------------------------------
\* A pipeline keeps its name and its receivers in AssembleConfig.
LEMMA Assembled ==
    ASSUME NEW in, NEW p \in GenerateNamedPipelines(in), NEW id, NEW receivers, NEW processors, NEW exporters,
           p = Pipeline(id, receivers, processors, exporters)
    PROVE  \E q \in AssembleConfig(in).pipelines : q.id = id /\ q.receivers = receivers
  <1>1. Limited(p) \in AssembleConfig(in).pipelines
    BY DEF AssembleConfig
  <1>2. Limited(p).id = id /\ Limited(p).receivers = receivers
    BY DEF Limited, Pipeline
  <1>3. QED
    BY <1>1, <1>2

\* A non-empty set of naturals has a least element.
LEMMA Least ==
    ASSUME NEW S \in SUBSET Nat, S # {}
    PROVE  \E m \in S : \A n \in S : ~(n < m)
  <1>1. IsWellFoundedOn(OpToRel(<, Nat), Nat)
    BY NatLessThanWellFounded
  <1>2. PICK m \in S : \A n \in S : <<n, m>> \notin OpToRel(<, Nat)
    BY <1>1, WFMin
  <1>3. \A n \in S : ~(n < m)
    BY <1>2 DEF OpToRel
  <1>4. QED
    BY <1>2, <1>3

\* A non-empty set of indices has a greatest one.
LEMMA Greatest ==
    ASSUME NEW n \in Nat, NEW I \in SUBSET (1 .. n), I # {}
    PROVE  \E m \in I : \A i \in I : ~(i > m)
  <1> DEFINE D == {n - i : i \in I}
  <1>1. D \in SUBSET Nat /\ D # {}
    <2>1. \A i \in I : n - i \in Nat
      OBVIOUS
    <2> QED BY <2>1
  <1>2. PICK d \in D : \A e \in D : ~(e < d)
    BY <1>1, Least
  <1>3. PICK m \in I : d = n - m
    BY <1>2
  <1>4. \A i \in I : ~(n - i < n - m)
    BY <1>2, <1>3
  <1> QED BY <1>3, <1>4

\* The tenant a bridge leads to takes from the bridge, whichever of the copies
\* of the bridge comes first.
LEMMA TargetReceives ==
    ASSUME NEW in, NEW S, in.bridges \in Seq(S), ConsistentBridges(in),
           NEW b \in LastBridges(in)
    PROVE  BridgeRoute(b.name) \in IncomingBridges(in, b.target)
  <1> DEFINE copies == {i \in DOMAIN in.bridges : in.bridges[i].name = b.name}
  <1>1. DOMAIN in.bridges \subseteq Nat
    OBVIOUS
  <1>2. PICK k \in DOMAIN in.bridges : b = in.bridges[k]
    BY DEF LastBridges
  <1>3. copies \in SUBSET Nat /\ copies # {}
    BY <1>1, <1>2
  <1>4. PICK i \in copies : \A n \in copies : ~(n < i)
    BY <1>3, Least
  <1>5. in.bridges[i].target = b.target
    BY <1>2, <1>4 DEF ConsistentBridges
  <1>6. Counts(in, b.target, i)
    <2>1. \A j \in 1..(i - 1) : j \in DOMAIN in.bridges /\ j < i
      BY <1>1, <1>4
    <2>2. \A j \in 1..(i - 1) : in.bridges[j].name # in.bridges[i].name
      BY <2>1, <1>4
    <2>3. QED
      BY <1>5, <2>2 DEF Counts, Ends
  <1>7. QED
    BY <1>4, <1>5, <1>6 DEF IncomingBridges

(***************************************************************************)
(* Every pipeline in a routing table is in the configuration and takes     *)
(* from that connector, for every complete input with valid bridges, of    *)
(* any number of tenants, subscriptions, outputs and bridges: the routing  *)
(* connectors (routing_connector.go) and the pipelines                     *)
(* (generateNamedPipelines), which are generated apart from each other and *)
(* joined by names only, fit together. otelcol's own validation does not   *)
(* look into the tables.                                                   *)
(***************************************************************************)
THEOREM RoutesAlwaysResolve ==
    ASSUME NEW in, NEW S, in.bridges \in Seq(S),
           Complete(in), ConsistentBridges(in), ValidateConfigInput(in)
    PROVE  RoutesResolve(AssembleConfig(in))
  <1> DEFINE cfg == AssembleConfig(in)
  <1> SUFFICES ASSUME NEW c \in GenerateConnectors(in), NEW row \in c.table, NEW q \in row.pipelines
               PROVE  \E p \in cfg.pipelines : p.id = q /\ c.id \in p.receivers
    BY DEF RoutesResolve, AssembleConfig
  <1>1. CASE \E t \in DOMAIN in.tenants : c = RoutingConnector(TenantRoute(t), SubscriptionTable(in, t), in.tenants[t].defaults)
    <2>1. PICK t \in DOMAIN in.tenants : c = RoutingConnector(TenantRoute(t), SubscriptionTable(in, t), in.tenants[t].defaults)
      BY <1>1
    <2>2. PICK s \in SubscriptionsOf(in, t) : q = LogsSubscription(t, s)
      BY <2>1 DEF RoutingConnector, SubscriptionTable, Row
    <2>3. SubscriptionPipeline(t, s) \in GenerateNamedPipelines(in)
      <3>1. <<t, s>> \in ListedPairs(in)
        BY <2>2 DEF ListedPairs
      <3>2. QED
        BY <3>1 DEF GenerateNamedPipelines
    <2>4. \E p \in cfg.pipelines : p.id = q /\ p.receivers = {TenantRoute(t)}
      BY <2>2, <2>3, Assembled DEF SubscriptionPipeline
    <2>5. QED
      BY <2>1, <2>4 DEF RoutingConnector
  <1>2. CASE \E s \in DOMAIN in.subs :
               c = Connector(SubscriptionRoute(s), {Row("true", {LogsOutput(s, o) : o \in OutputsOf(in, s)})})
    <2>1. PICK s \in DOMAIN in.subs :
               c = Connector(SubscriptionRoute(s), {Row("true", {LogsOutput(s, o) : o \in OutputsOf(in, s)})})
      BY <1>2
    <2>2. PICK o \in OutputsOf(in, s) : q = LogsOutput(s, o)
      BY <2>1 DEF Connector, RoutingConnector, Row
    <2>3. OutputPipeline(in, s, o) \in GenerateNamedPipelines(in)
      <3>1. s \in Listed(in)
        BY <2>1 DEF Complete, Listed
      <3>2. <<s, o>> \in RoutedPairs(in)
        BY <2>2, <3>1 DEF Complete, Listed, RoutedPairs
      <3>3. QED
        BY <3>2 DEF GenerateNamedPipelines
    <2>4. \E p \in cfg.pipelines : p.id = q /\ p.receivers = {SubscriptionRoute(s)}
      BY <2>2, <2>3, Assembled DEF OutputPipeline
    <2>5. QED
      BY <2>1, <2>4 DEF Connector, RoutingConnector
  <1>3. CASE \E b \in LastBridges(in) : c = Connector(BridgeRoute(b.name), {Row(b.cond, {LogsTenant(b.target)})})
    <2>1. PICK b \in LastBridges(in) : c = Connector(BridgeRoute(b.name), {Row(b.cond, {LogsTenant(b.target)})})
      BY <1>3
    <2>2. q = LogsTenant(b.target) /\ c.id = BridgeRoute(b.name)
      BY <2>1 DEF Connector, RoutingConnector, Row
    <2>3. b.target \in DOMAIN in.tenants
      BY DEF LastBridges, ValidateConfigInput, ValidateSubscriptionsAndBridges
    <2>4. RootPipeline(in, b.target) \in GenerateNamedPipelines(in)
      BY <2>3 DEF GenerateNamedPipelines
    <2>5. \E p \in cfg.pipelines : p.id = q /\ IncomingBridges(in, b.target) \subseteq p.receivers
      BY <2>2, <2>4, Assembled DEF RootPipeline
    <2>6. QED
      BY <2>2, <2>5, TargetReceives
  <1>4. CASE \E id \in {CountTenant, CountOutput, BytesExporter} : c = Connector(id, {})
    BY <1>4 DEF Connector, RoutingConnector
  <1>5. QED
    BY <1>1, <1>2, <1>3, <1>4 DEF GenerateConnectors, When

-----------------------------------------------------------------------------
(* How often and in which order outputs and bridges are read *)

\* The bridges of an input, and inputs that differ only in how often and in
\* which order outputs and bridges are listed.
Brs(in) == {in.bridges[i] : i \in DOMAIN in.bridges}
OneCopy(in) ==
    /\ in.outputs \in Seq(Outs(in)) /\ in.bridges \in Seq(Brs(in))
    /\ \A o, u \in Outs(in) : o.name = u.name => o = u
    /\ \A b, c \in Brs(in) : b.name = c.name => b = c
Alike(a, b) ==
    /\ a.tenants = b.tenants /\ a.subs = b.subs /\ Outs(a) = Outs(b) /\ Brs(a) = Brs(b)
    /\ a.debug = b.debug /\ a.dryRun = b.dryRun /\ a.events = b.events /\ a.axoflow = b.axoflow

\* A non-empty set of positions has a first and a last one.
LEMMA FirstAndLast ==
    ASSUME NEW n \in Nat, NEW S \in SUBSET (1 .. n), S # {}
    PROVE  /\ \E m \in S : \A j \in 1 .. (m - 1) : j \notin S
           /\ \E m \in S : \A j \in (m + 1) .. n : j \notin S
  <1>1. \E m \in S : \A j \in 1 .. (m - 1) : j \notin S
    <2>1. PICK m \in S : \A j \in S : ~(j < m)
      BY Least
    <2> QED BY <2>1
  <1>2. \E m \in S : \A j \in (m + 1) .. n : j \notin S
    <2>1. PICK m \in S : \A j \in S : ~(j > m)
      BY Greatest
    <2> QED BY <2>1
  <1> QED BY <1>1, <1>2

LEMMA TheCopy == ASSUME NEW in, OneCopy(in), NEW c \in Outs(in) PROVE FirstCopy(in, c.name) = c
  <1> DEFINE First(i) == in.outputs[i].name = c.name /\ \A j \in 1..(i - 1) : in.outputs[j].name # c.name
             copies == {i \in DOMAIN in.outputs : in.outputs[i].name = c.name}
  <1>1. PICK n \in Nat : DOMAIN in.outputs = 1 .. n
    BY LenProperties DEF OneCopy
  <1>2. copies \in SUBSET (1 .. n) /\ copies # {}
    BY <1>1 DEF Outs
  <1>3. PICK i \in copies : \A j \in 1 .. (i - 1) : j \notin copies
    BY <1>2, FirstAndLast
  <1>4. First(i) /\ i \in DOMAIN in.outputs
    BY <1>1, <1>3
  <1> DEFINE k == CHOOSE j \in DOMAIN in.outputs : First(j)
  <1>5. k \in DOMAIN in.outputs /\ First(k)
    <2> HIDE DEF First
    <2> QED BY <1>4
  <1>6. FirstCopy(in, c.name) = in.outputs[k]
    BY DEF FirstCopy
  <1>7. in.outputs[k] \in Outs(in) /\ in.outputs[k].name = c.name
    BY <1>5 DEF Outs
  <1> HIDE DEF k
  <1> QED BY <1>6, <1>7 DEF OneCopy

LEMMA TheBridges ==
    ASSUME NEW in, OneCopy(in)
    PROVE  /\ LastBridges(in) = Brs(in)
           /\ in.bridges = <<>> <=> Brs(in) = {}
           /\ \A t : IncomingBridges(in, t) = {BridgeRoute(b.name) : b \in {b \in Brs(in) : b.target = t}}
           /\ \A t : OutgoingBridges(in, t) = {BridgeRoute(b.name) : b \in {b \in Brs(in) : b.source = t}}
  <1>1. PICK n \in Nat : DOMAIN in.bridges = 1 .. n /\ Len(in.bridges) = n
    BY LenProperties DEF OneCopy
  <1>2. \A i \in 1 .. n : in.bridges[i] \in Brs(in)
    BY <1>1 DEF Brs
  <1>3. LastBridges(in) = Brs(in)
    <2>1. LastBridges(in) \subseteq Brs(in)
      BY <1>1 DEF LastBridges, Brs
    <2>2. ASSUME NEW b \in Brs(in) PROVE b \in LastBridges(in)
      <3> DEFINE S == {i \in 1 .. n : in.bridges[i] = b}
      <3>1. S \in SUBSET (1 .. n) /\ S # {}
        BY <1>1 DEF Brs
      <3>2. PICK m \in S : \A j \in (m + 1) .. n : j \notin S
        BY <3>1, FirstAndLast
      <3>3. \A j \in (m + 1) .. n : in.bridges[j].name # in.bridges[m].name
        BY <1>2, <3>2 DEF OneCopy
      <3>4. m \in DOMAIN in.bridges /\ in.bridges[m] = b
        BY <1>1, <3>2
      <3> QED BY <1>1, <3>3, <3>4 DEF LastBridges
    <2> QED BY <2>1, <2>2
  <1>4. in.bridges = <<>> <=> Brs(in) = {}
    <2>1. in.bridges = <<>> <=> n = 0
      <3>1. in.bridges \in Seq(Brs(in))
        BY DEF OneCopy
      <3>2. in.bridges = <<>> <=> Len(in.bridges) = 0
        BY <3>1, EmptySeq
      <3> QED BY <1>1, <3>2
    <2>2. CASE n = 0
      BY <1>1, <2>1, <2>2 DEF Brs
    <2>3. CASE n # 0
      <3>1. 1 \in 1 .. n
        BY <2>3
      <3> QED BY <1>2, <2>1, <2>3, <3>1
    <2> QED BY <2>2, <2>3
  <1>5. ASSUME NEW t, NEW b \in Brs(in), t \in Ends(b) PROVE \E i \in DOMAIN in.bridges : Counts(in, t, i) /\ in.bridges[i] = b
    <2> DEFINE S == {i \in 1 .. n : in.bridges[i] = b}
    <2>1. S \in SUBSET (1 .. n) /\ S # {}
      BY <1>1 DEF Brs
    <2>2. PICK m \in S : \A j \in 1 .. (m - 1) : j \notin S
      BY <2>1, FirstAndLast
    <2>3. \A j \in 1 .. (m - 1) : in.bridges[j].name # in.bridges[m].name
      BY <1>2, <2>2 DEF OneCopy
    <2>4. m \in DOMAIN in.bridges /\ in.bridges[m] = b
      BY <1>1, <2>2
    <2> QED BY <1>5, <2>3, <2>4 DEF Counts
  <1>6. ASSUME NEW t PROVE IncomingBridges(in, t) = {BridgeRoute(b.name) : b \in {b \in Brs(in) : b.target = t}}
    <2>1. \A b \in Brs(in) : b.target = t => t \in Ends(b)
      BY DEF Ends
    <2> QED BY <1>1, <1>2, <1>5, <2>1 DEF IncomingBridges
  <1>7. ASSUME NEW t PROVE OutgoingBridges(in, t) = {BridgeRoute(b.name) : b \in {b \in Brs(in) : b.source = t}}
    <2>1. \A b \in Brs(in) : b.source = t => t \in Ends(b)
      BY DEF Ends
    <2> QED BY <1>1, <1>2, <1>5, <2>1 DEF OutgoingBridges
  <1> QED BY <1>3, <1>4, <1>6, <1>7

LEMMA TheFiles ==
    ASSUME NEW in, OneCopy(in)
    PROVE  ExporterFiles(in) = When(~in.dryRun, {o.path : o \in {o \in Outs(in) : o.kind = "file"}})
  <1>1. PICK n \in Nat : DOMAIN in.outputs = 1 .. n
    BY LenProperties DEF OneCopy
  <1>2. CASE in.dryRun
    BY <1>2 DEF ExporterFiles, When
  <1>3. CASE ~in.dryRun
    <2> DEFINE files == {i \in DOMAIN in.outputs : in.outputs[i].kind = "file"}
               kept == {i \in files : \A j \in files : j > i => in.outputs[j].name # in.outputs[i].name}
    <2>1. ExporterFiles(in) = {in.outputs[i].path : i \in kept}
      BY <1>3 DEF ExporterFiles, When
    <2>2. \A i \in kept : in.outputs[i] \in Outs(in) /\ in.outputs[i].kind = "file"
      BY DEF Outs
    <2>3. ASSUME NEW o \in Outs(in), o.kind = "file" PROVE \E i \in kept : in.outputs[i] = o
      <3> DEFINE S == {i \in 1 .. n : in.outputs[i] = o}
      <3>1. S \in SUBSET (1 .. n) /\ S # {}
        BY <1>1 DEF Outs
      <3>2. PICK m \in S : \A j \in (m + 1) .. n : j \notin S
        BY <3>1, FirstAndLast
      <3>3. m \in files /\ in.outputs[m] = o
        BY <1>1, <2>3, <3>2
      <3>4. \A j \in files : in.outputs[j] \in Outs(in)
        BY DEF Outs
      <3>5. \A j \in files : j > m => in.outputs[j].name # in.outputs[m].name
        BY <1>1, <3>2, <3>4 DEF OneCopy
      <3> QED BY <3>3, <3>5
    <2> HIDE DEF kept
    <2> QED BY <1>3, <2>1, <2>2, <2>3 DEF When
  <1> QED BY <1>2, <1>3

(***************************************************************************)
(* How often and in which order BuildConfigInputForCollector came upon     *)
(* outputs and bridges, which it does in the order of Go maps, makes no    *)
(* difference to whether the input is accepted and to the configuration    *)
(* AssembleConfig makes of it, although the generators take the first copy *)
(* of an output here and the last one there: if the copies agree, two      *)
(* reconciliations of the same resources write the same.                   *)
(***************************************************************************)
THEOREM AlikeAssembled ==
    ASSUME NEW a, NEW b, Alike(a, b), OneCopy(a), OneCopy(b)
    PROVE  AssembleConfig(a) = AssembleConfig(b) /\ ValidateConfigInput(a) = ValidateConfigInput(b)
  <1>1. GenerateReceivers(a) = GenerateReceivers(b)
    BY DEF Alike, GenerateReceivers
  <1>2. GenerateExporters(a) = GenerateExporters(b)
    BY DEF Alike, GenerateExporters, Exported, FindTenantForOutput, SubscriptionsOf, OutputsOf
  <1>3. GenerateProcessors(a) = GenerateProcessors(b)
    BY DEF Alike, GenerateProcessors
  <1>4. GenerateExtensions(a) = GenerateExtensions(b)
    BY DEF Alike, GenerateExtensions
  <1>5. ExtensionRefs(a) = ExtensionRefs(b)
    BY DEF Alike, ExtensionRefs, Exported, FindTenantForOutput, SubscriptionsOf, OutputsOf
  <1>6. StorageDirectories(a) = StorageDirectories(b)
    BY DEF Alike, StorageDirectories
  <1>7. ExporterFiles(a) = ExporterFiles(b)
    BY TheFiles DEF Alike
  <1>8. GenerateConnectors(a) = GenerateConnectors(b)
    <2>1. \A t : SubscriptionTable(a, t) = SubscriptionTable(b, t)
      BY DEF Alike, SubscriptionTable, SubscriptionsOf
    <2>2. LastBridges(a) = LastBridges(b)
      BY TheBridges DEF Alike
    <2> DEFINE Counters(in) == When(~in.dryRun, {Connector(CountTenant, {}), Connector(CountOutput, {})}
                                                 \cup When(in.axoflow, {Connector(BytesExporter, {})}))
               ToSubscriptions(in) == {RoutingConnector(TenantRoute(t), SubscriptionTable(in, t), in.tenants[t].defaults) :
                                         t \in {t \in DOMAIN in.tenants : SubscriptionsOf(in, t) # {}}}
               ToOutputs(in) == {Connector(SubscriptionRoute(s), {Row("true", {LogsOutput(s, o) : o \in OutputsOf(in, s)})}) :
                                   s \in {s \in DOMAIN in.subs : OutputsOf(in, s) # {}}}
               Along(in) == {Connector(BridgeRoute(c.name), {Row(c.cond, {LogsTenant(c.target)})}) : c \in LastBridges(in)}
    <2>3. \A in : GenerateConnectors(in) = Counters(in) \cup ToSubscriptions(in) \cup ToOutputs(in) \cup Along(in)
      BY DEF GenerateConnectors
    <2>4. Counters(a) = Counters(b)
      BY DEF Alike
    <2>5. ToSubscriptions(a) = ToSubscriptions(b)
      BY <2>1 DEF Alike, SubscriptionsOf
    <2>6. ToOutputs(a) = ToOutputs(b)
      BY DEF Alike, OutputsOf
    <2>7. Along(a) = Along(b)
      BY <2>2
    <2> HIDE DEF Counters, ToSubscriptions, ToOutputs, Along
    <2> QED BY <2>3, <2>4, <2>5, <2>6, <2>7
  <1>9. GenerateNamedPipelines(a) = GenerateNamedPipelines(b)
    <2>1. \A t : RootPipeline(a, t) = RootPipeline(b, t)
      <3>1. \A t : IncomingBridges(a, t) = IncomingBridges(b, t) /\ OutgoingBridges(a, t) = OutgoingBridges(b, t)
        BY TheBridges DEF Alike
      <3> QED BY <3>1 DEF Alike, RootPipeline
    <2>2. ListedPairs(a) = ListedPairs(b) /\ RoutedPairs(a) = RoutedPairs(b)
      BY DEF Alike, ListedPairs, RoutedPairs, Listed, SubscriptionsOf, OutputsOf
    <2>3. \A p \in RoutedPairs(a) : OutputPipeline(a, p[1], p[2]) = OutputPipeline(b, p[1], p[2])
      <3> SUFFICES ASSUME NEW p \in RoutedPairs(a) PROVE OutputPipeline(a, p[1], p[2]) = OutputPipeline(b, p[1], p[2])
        OBVIOUS
      <3>1. PICK c \in Outs(a) : c.name = p[2]
        BY DEF RoutedPairs
      <3>2. FirstCopy(a, p[2]) = c /\ FirstCopy(b, p[2]) = c
        BY <3>1, TheCopy DEF Alike
      <3>3. OutputExporters(a, c) = OutputExporters(b, c)
        BY DEF Alike, OutputExporters
      <3> QED BY <3>2, <3>3 DEF OutputPipeline
    <2>4. When(~a.dryRun, GenerateMetricsPipelines(a)) = When(~b.dryRun, GenerateMetricsPipelines(b))
      BY DEF Alike, GenerateMetricsPipelines
    <2>5. DOMAIN a.tenants = DOMAIN b.tenants
      BY DEF Alike
    <2> QED BY <2>1, <2>2, <2>3, <2>4, <2>5 DEF GenerateNamedPipelines
  <1>10. ValidateConfigInput(a) = ValidateConfigInput(b)
    <2>1. a.bridges = <<>> <=> b.bridges = <<>>
      BY TheBridges DEF Alike
    <2>2. /\ \A i \in DOMAIN a.bridges : \E j \in DOMAIN b.bridges : a.bridges[i] = b.bridges[j]
          /\ \A j \in DOMAIN b.bridges : \E i \in DOMAIN a.bridges : a.bridges[i] = b.bridges[j]
      BY DEF Alike, Brs
    <2>3. ValidateTenants(a) = ValidateTenants(b)
      BY DEF Alike, ValidateTenants
    <2>4. ValidateSubscriptionsAndBridges(a) = ValidateSubscriptionsAndBridges(b)
      BY <2>1, <2>2 DEF Alike, ValidateSubscriptionsAndBridges
    <2> QED BY <2>3, <2>4 DEF ValidateConfigInput
  <1> QED BY <1>1, <1>2, <1>3, <1>4, <1>5, <1>6, <1>7, <1>8, <1>9, <1>10 DEF AssembleConfig

\* And so does what is left open.
LEMMA AlikeQueues ==
    ASSUME NEW a, NEW b, Alike(a, b)
    PROVE  QueueStorages(a) = QueueStorages(b) /\ \A order : AdditionalArgs(a, order) = AdditionalArgs(b, order)
  <1>1. PersistentQueues(a) = PersistentQueues(b)
    BY DEF Alike, PersistentQueues, Exported, FindTenantForOutput, SubscriptionsOf, OutputsOf
  <1>2. \A t : StorageOf(a, t) = StorageOf(b, t)
    BY DEF Alike, StorageOf
  <1>3. \A o : FindTenantForOutput(a, o) = FindTenantForOutput(b, o)
    BY DEF Alike, FindTenantForOutput, SubscriptionsOf, OutputsOf
  <1>4. QueueStorages(a) = QueueStorages(b)
    BY <1>1, <1>2, <1>3 DEF QueueStorages, Alike
  <1>5. \A order : AdditionalArgs(a, order) = AdditionalArgs(b, order)
    BY DEF Alike, AdditionalArgs, KeptTransform
  <1> QED BY <1>4, <1>5

-----------------------------------------------------------------------------
(* Where the logs of a tenant go. What is offered and what is asked for are   *)
(* both the result of following steps until there are no new ones.            *)

\* Induction, as a fact about sets.
LEMMA Induction ==
    ASSUME NEW good, 0 \in good, \A n \in Nat : n \in good => n + 1 \in good
    PROVE  Nat \subseteq good
  <1> DEFINE bad == {n \in Nat : n \notin good}
  <1>1. SUFFICES ASSUME bad # {} PROVE FALSE
    OBVIOUS
  <1>2. PICK m \in bad : \A n \in bad : ~(n < m)
    <2>1. bad \in SUBSET Nat
      OBVIOUS
    <2> HIDE DEF bad
    <2> QED BY <1>1, <2>1, Least
  <1>3. m \in Nat /\ m \notin good
    OBVIOUS
  <1>4. m - 1 \in Nat /\ (m - 1) + 1 = m /\ m - 1 < m
    BY <1>3
  <1>5. m - 1 \in good
    BY <1>2, <1>4
  <1> QED BY <1>3, <1>4, <1>5

\* A run of n steps of F from a.
Run(D, F, a, n, g) ==
    /\ g \in [0..n -> D]
    /\ g[0] = a
    /\ \A m \in 0..(n - 1) : g[m + 1] = F[g[m]]

LEMMA RunExists ==
    ASSUME NEW D, NEW F \in [D -> D], NEW a \in D
    PROVE  \A n \in Nat : \E g : Run(D, F, a, n, g)
  <1> DEFINE good == {n \in Nat : \E g : Run(D, F, a, n, g)}
  <1>1. 0 \in good
    <2>1. Run(D, F, a, 0, [i \in 0..0 |-> a])
      BY DEF Run
    <2> QED BY <2>1
  <1>2. ASSUME NEW n \in Nat, n \in good PROVE n + 1 \in good
    <2>1. PICK g : Run(D, F, a, n, g)
      BY <1>2
    <2> DEFINE h == [i \in 0..(n + 1) |-> IF i = n + 1 THEN F[g[n]] ELSE g[i]]
    <2>2. g \in [0..n -> D] /\ g[0] = a /\ \A i \in 0..(n - 1) : g[i + 1] = F[g[i]]
      BY <2>1 DEF Run
    <2>3. h \in [0..(n + 1) -> D] /\ h[0] = a
      BY <2>2
    <2>4. ASSUME NEW i \in 0..n PROVE h[i + 1] = F[h[i]]
      <3>1. CASE i = n
        BY <3>1
      <3>2. CASE i # n
        BY <2>2, <3>2
      <3> QED BY <3>1, <3>2
    <2>5. Run(D, F, a, n + 1, h)
      <3>1. (n + 1) - 1 = n
        OBVIOUS
      <3> HIDE DEF h
      <3> QED BY <2>3, <2>4, <3>1 DEF Run
    <2> QED BY <2>5
  <1> HIDE DEF good
  <1>3. Nat \subseteq good
    BY <1>1, <1>2, Induction
  <1> QED BY <1>3 DEF good

LEMMA RunUnique ==
    ASSUME NEW D, NEW F \in [D -> D], NEW a \in D, NEW k \in Nat, NEW n \in Nat, k <= n,
           NEW g, Run(D, F, a, k, g), NEW h, Run(D, F, a, n, h)
    PROVE  g[k] = h[k]
  <1> DEFINE good == {i \in Nat : i <= k => g[i] = h[i]}
  <1>1. 0 \in good
    BY DEF Run
  <1>2. ASSUME NEW i \in Nat, i \in good PROVE i + 1 \in good
    BY <1>2 DEF Run
  <1> HIDE DEF good
  <1>3. Nat \subseteq good
    BY <1>1, <1>2, Induction
  <1> QED BY <1>3 DEF good

\* What a recursive definition with the step F defines.
Steps(F, a, f) == f = [n \in Nat |-> IF n = 0 THEN a ELSE F[f[n - 1]]]

\* There is such a function.
LEMMA StepsExist ==
    ASSUME NEW D, NEW F \in [D -> D], NEW a \in D
    PROVE  \E f : Steps(F, a, f)
  <1> DEFINE G(n) == CHOOSE g : Run(D, F, a, n, g)
             f == [n \in Nat |-> G(n)[n]]
  <1>1. \A n \in Nat : Run(D, F, a, n, G(n))
    BY RunExists
  <1> HIDE DEF G
  <1>2. f[0] = a
    BY <1>1 DEF Run
  <1>3. ASSUME NEW n \in Nat, n # 0 PROVE f[n] = F[f[n - 1]]
    <2> DEFINE k == n - 1
    <2>1. k \in Nat /\ k + 1 = n /\ k \in 0..(n - 1) /\ k <= n
      BY <1>3
    <2>2. G(n)[n] = F[G(n)[k]]
      BY <1>1, <2>1 DEF Run
    <2>3. G(k)[k] = G(n)[k]
      BY <1>1, <2>1, RunUnique
    <2> QED BY <2>1, <2>2, <2>3
  <1>4. f = [n \in Nat |-> IF n = 0 THEN a ELSE F[f[n - 1]]]
    <2>1. \A n \in Nat : f[n] = IF n = 0 THEN a ELSE F[f[n - 1]]
      BY <1>2, <1>3
    <2>2. f = [n \in Nat |-> f[n]]
      OBVIOUS
    <2> HIDE DEF f
    <2> QED BY <2>1, <2>2
  <1> QED BY <1>4 DEF Steps

LEMMA StepsWithin ==
    ASSUME NEW D, NEW F \in [D -> D], NEW a \in D,
           NEW f, Steps(F, a, f)
    PROVE  f \in [Nat -> D]
  <1> DEFINE good == {n \in Nat : f[n] \in D}
  <1>1. 0 \in good
    BY DEF Steps
  <1>2. ASSUME NEW n \in Nat, n \in good PROVE n + 1 \in good
    <2>1. n + 1 \in Nat /\ n + 1 # 0 /\ (n + 1) - 1 = n
      OBVIOUS
    <2> QED BY <1>2, <2>1 DEF Steps
  <1>3. Nat \subseteq good
    <2> HIDE DEF good
    <2> QED BY <1>1, <1>2, Induction
  <1>4. f = [n \in Nat |-> f[n]]
    BY DEF Steps
  <1> QED BY <1>3, <1>4

\* Sets that only grow, within a finite one, and stay once they have not
\* grown, have stopped growing after as many steps as it has elements.
LEMMA StopsGrowing ==
    ASSUME NEW S, IsFiniteSet(S), NEW f \in [Nat -> SUBSET S], f[0] # {},
           \A n \in Nat : f[n] \subseteq f[n + 1],
           \A n \in Nat : f[n + 1] = f[n] => f[(n + 1) + 1] = f[n + 1]
    PROVE  f[Cardinality(S) + 1] = f[Cardinality(S)]
  <1> DEFINE good == {n \in Nat : f[n + 1] = f[n] \/ Cardinality(f[n]) > n}
  <1>1. \A n \in Nat : IsFiniteSet(f[n]) /\ Cardinality(f[n]) \in Nat /\ Cardinality(f[n]) <= Cardinality(S)
    BY FS_Subset, FS_CardinalityType
  <1>2. 0 \in good
    <2>1. Cardinality(f[0]) # 0
      BY <1>1, FS_EmptySet
    <2> QED BY <1>1, <2>1
  <1>3. ASSUME NEW n \in Nat, n \in good PROVE n + 1 \in good
    <2>1. CASE f[n + 1] = f[n]
      BY <2>1
    <2>2. CASE f[n + 1] # f[n]
      <3>1. /\ IsFiniteSet(f[n + 1]) /\ Cardinality(f[n + 1]) \in Nat
            /\ Cardinality(f[n]) \in Nat /\ Cardinality(f[n]) > n
        BY <1>1, <1>3, <2>2
      <3>2. f[n] \in SUBSET f[n + 1]
        OBVIOUS
      <3>3. Cardinality(f[n]) <= Cardinality(f[n + 1]) /\ Cardinality(f[n + 1]) # Cardinality(f[n])
        BY <2>2, <3>1, <3>2, FS_Subset
      <3> QED BY <3>1, <3>3
    <2> QED BY <2>1, <2>2
  <1>4. Nat \subseteq good
    <2> HIDE DEF good
    <2> QED BY <1>2, <1>3, Induction
  <1> DEFINE N == Cardinality(S)
  <1>5. N \in Nat
    BY FS_CardinalityType
  <1>6. ~(Cardinality(f[N]) > N)
    BY <1>1, <1>5
  <1> QED BY <1>4, <1>5, <1>6

\* R is the least set that has a and that F adds nothing to.
LeastFixpoint(S, F, a, R) ==
    /\ a \subseteq R /\ R \in SUBSET S /\ F[R] = R
    /\ \A T : a \subseteq T /\ (\A x \in SUBSET S : x \subseteq T => F[x] \subseteq T) => R \subseteq T

\* If F only adds to sets within a finite one, as many steps as that has
\* elements lead from a to that set.
LEMMA LeastClosed ==
    ASSUME NEW S, IsFiniteSet(S), NEW a \in SUBSET S, a # {}, NEW F \in [SUBSET S -> SUBSET S],
           \A x \in SUBSET S : x \subseteq F[x],
           NEW f, Steps(F, a, f),
           NEW R, R = f[Cardinality(S)]
    PROVE  LeastFixpoint(S, F, a, R)
  <1>1. f[0] = a /\ \A n \in Nat : f[n + 1] = F[f[n]]
    <2>1. \A n \in Nat : n + 1 \in Nat /\ n + 1 # 0 /\ (n + 1) - 1 = n
      OBVIOUS
    <2>2. 0 \in Nat
      OBVIOUS
    <2> QED BY <2>1, <2>2 DEF Steps
  <1>2. Nat \subseteq {n \in Nat : f[n] \in SUBSET S /\ a \subseteq f[n]}
    <2> DEFINE good == {n \in Nat : f[n] \in SUBSET S /\ a \subseteq f[n]}
    <2>1. 0 \in good
      BY <1>1
    <2>2. ASSUME NEW n \in Nat, n \in good PROVE n + 1 \in good
      <3>1. f[n] \in SUBSET S /\ a \subseteq f[n]
        BY <2>2
      <3>2. F[f[n]] \in SUBSET S /\ f[n] \subseteq F[f[n]]
        BY <3>1
      <3> QED BY <1>1, <3>1, <3>2
    <2> HIDE DEF good
    <2>3. Nat \subseteq good
      BY <2>1, <2>2, Induction
    <2> QED BY <2>3 DEF good
  <1>3. f \in [Nat -> SUBSET S]
    <2>1. f = [n \in Nat |-> f[n]]
      BY DEF Steps
    <2> QED BY <1>2, <2>1
  <1> DEFINE N == Cardinality(S)
  <1>4. N \in Nat
    BY FS_CardinalityType
  <1>5. f[N + 1] = f[N]
    <2>1. \A n \in Nat : f[n] \subseteq f[n + 1] /\ (f[n + 1] = f[n] => f[(n + 1) + 1] = f[n + 1])
      BY <1>1, <1>2
    <2> QED BY <1>1, <1>3, <2>1, StopsGrowing
  <1>6. ASSUME NEW T, a \subseteq T, \A x \in SUBSET S : x \subseteq T => F[x] \subseteq T
        PROVE  f[N] \subseteq T
    <2> DEFINE good == {n \in Nat : f[n] \subseteq T}
    <2>1. 0 \in good
      BY <1>1, <1>6
    <2>2. ASSUME NEW n \in Nat, n \in good PROVE n + 1 \in good
      <3>1. f[n] \in SUBSET S /\ f[n] \subseteq T
        BY <1>2, <2>2
      <3>2. F[f[n]] \subseteq T
        BY <1>6, <3>1
      <3> QED BY <1>1, <3>2
    <2>3. Nat \subseteq good
      <3> HIDE DEF good
      <3> QED BY <2>1, <2>2, Induction
    <2> QED BY <1>4, <2>3
  <1> HIDE DEF N
  <1>7. F[R] = R /\ a \subseteq R /\ R \in SUBSET S
    BY <1>1, <1>2, <1>4, <1>5 DEF N
  <1> QED BY <1>6, <1>7 DEF N, LeastFixpoint

-----------------------------------------------------------------------------
(* Pipelines and tenants that are reached *)

\* The pipelines of a name.
Named(cfg, id) == {p \in cfg.pipelines : p.id = id}

\* ReachedPipelines has the pipeline at hand, is closed under following the
\* routing tables, and is the least such set.
LEMMA PipelinesReached ==
    ASSUME NEW cfg, NEW start, NEW sat, IsFiniteSet(cfg.pipelines),
           NEW R, R = ReachedPipelines(cfg, start, sat),
           NEW first, first = Named(cfg, start), first # {}
    PROVE  /\ first \subseteq R /\ R \in SUBSET cfg.pipelines /\ Follow(cfg, R, sat) = R
           /\ \A T : first \subseteq T /\ (\A ps \in SUBSET cfg.pipelines : ps \subseteq T => Follow(cfg, ps, sat) \subseteq T)
                        => R \subseteq T
  <1> DEFINE D == SUBSET cfg.pipelines
             F == [ps \in D |-> Follow(cfg, ps, sat)]
             IsRun(f) == f = [n \in Nat |-> IF n = 0 THEN first ELSE Follow(cfg, f[n - 1], sat)]
             after == CHOOSE f : IsRun(f)
  <1>1. F \in [D -> D] /\ first \in D /\ \A x \in D : x \subseteq F[x]
    BY DEF Follow, Named
  <1>2. PICK f : Steps(F, first, f)
    <2> HIDE DEF F, D
    <2> QED BY <1>1, StepsExist
  <1>3. f \in [Nat -> D]
    <2> HIDE DEF F, D
    <2> QED BY <1>1, <1>2, StepsWithin
  <1>4. IsRun(f)
    <2>1. \A n \in Nat : n # 0 => n - 1 \in Nat /\ f[n - 1] \in D
      BY <1>3
    <2> HIDE DEF D
    <2>2. \A n \in Nat : (IF n = 0 THEN first ELSE F[f[n - 1]]) = (IF n = 0 THEN first ELSE Follow(cfg, f[n - 1], sat))
      BY <2>1
    <2> HIDE DEF F
    <2> QED BY <1>2, <2>2 DEF Steps
  <1>5. IsRun(after)
    <2> HIDE DEF IsRun
    <2> QED BY <1>4
  <1>6. R = after[Cardinality(cfg.pipelines)]
    BY DEF ReachedPipelines, Named
  <1> HIDE DEF after
  <1>7. Nat \subseteq {n \in Nat : after[n] \in D}
    <2> DEFINE good == {n \in Nat : after[n] \in D}
    <2>1. 0 \in good
      BY <1>1, <1>5
    <2>2. ASSUME NEW n \in Nat, n \in good PROVE n + 1 \in good
      <3>1. n + 1 \in Nat /\ n + 1 # 0 /\ (n + 1) - 1 = n
        OBVIOUS
      <3>2. after[n + 1] = Follow(cfg, after[n], sat)
        BY <1>5, <3>1
      <3> QED BY <2>2, <3>2 DEF Follow
    <2>3. Nat \subseteq good
      <3> HIDE DEF good
      <3> QED BY <2>1, <2>2, Induction
    <2> QED BY <2>3
  <1>8. Steps(F, first, after)
    <2>1. \A n \in Nat : n # 0 => after[n - 1] \in D
      BY <1>7
    <2> HIDE DEF D
    <2>2. \A n \in Nat : (IF n = 0 THEN first ELSE F[after[n - 1]]) = (IF n = 0 THEN first ELSE Follow(cfg, after[n - 1], sat))
      BY <2>1
    <2> HIDE DEF F
    <2> QED BY <1>5, <2>2 DEF Steps
  <1> HIDE DEF F
  <1>9. LeastFixpoint(cfg.pipelines, F, first, R)
    BY <1>1, <1>6, <1>8, LeastClosed
  <1>10. \A x \in D : F[x] = Follow(cfg, x, sat)
    BY DEF F
  <1>11. ASSUME NEW T, first \subseteq T, \A ps \in SUBSET cfg.pipelines : ps \subseteq T => Follow(cfg, ps, sat) \subseteq T
         PROVE  R \subseteq T
    <2>1. \A x \in D : x \subseteq T => F[x] \subseteq T
      BY <1>10, <1>11
    <2> QED BY <1>9, <1>11, <2>1 DEF LeastFixpoint
  <1>12. first \subseteq R /\ R \in D /\ Follow(cfg, R, sat) = R
    BY <1>9, <1>10 DEF LeastFixpoint
  <1> QED BY <1>11, <1>12

\* BridgedTenants has the tenant at hand, is closed under crossing bridges, and
\* is the least such set.
LEMMA TenantsReached ==
    ASSUME NEW in, NEW sat, IsFiniteSet(DOMAIN in.tenants), ValidateConfigInput(in),
           NEW t \in DOMAIN in.tenants, NEW R, R = BridgedTenants(in, t, sat)
    PROVE  /\ t \in R /\ R \in SUBSET DOMAIN in.tenants /\ Cross(in, R, sat) = R
           /\ \A T : t \in T /\ (\A ts \in SUBSET DOMAIN in.tenants : ts \subseteq T => Cross(in, ts, sat) \subseteq T)
                        => R \subseteq T
  <1> DEFINE D == SUBSET DOMAIN in.tenants
             F == [ts \in D |-> Cross(in, ts, sat)]
             IsRun(f) == f = [n \in Nat |-> IF n = 0 THEN {t} ELSE Cross(in, f[n - 1], sat)]
             after == CHOOSE f : IsRun(f)
  <1>0. \A b \in LastBridges(in) : b.target \in DOMAIN in.tenants
    BY DEF LastBridges, ValidateConfigInput, ValidateSubscriptionsAndBridges
  <1>1. F \in [D -> D] /\ {t} \in D /\ \A x \in D : x \subseteq F[x]
    BY <1>0 DEF Cross
  <1>2. PICK f : Steps(F, {t}, f)
    <2> HIDE DEF F, D
    <2> QED BY <1>1, StepsExist
  <1>3. f \in [Nat -> D]
    <2> HIDE DEF F, D
    <2> QED BY <1>1, <1>2, StepsWithin
  <1>4. IsRun(f)
    <2>1. \A n \in Nat : n # 0 => n - 1 \in Nat /\ f[n - 1] \in D
      BY <1>3
    <2> HIDE DEF D
    <2>2. \A n \in Nat : (IF n = 0 THEN {t} ELSE F[f[n - 1]]) = (IF n = 0 THEN {t} ELSE Cross(in, f[n - 1], sat))
      BY <2>1
    <2> HIDE DEF F
    <2> QED BY <1>2, <2>2 DEF Steps
  <1>5. IsRun(after)
    <2> HIDE DEF IsRun
    <2> QED BY <1>4
  <1>6. R = after[Cardinality(DOMAIN in.tenants)]
    BY DEF BridgedTenants
  <1> HIDE DEF after
  <1>7. Nat \subseteq {n \in Nat : after[n] \in D}
    <2> DEFINE good == {n \in Nat : after[n] \in D}
    <2>1. 0 \in good
      BY <1>1, <1>5
    <2>2. ASSUME NEW n \in Nat, n \in good PROVE n + 1 \in good
      <3>1. n + 1 \in Nat /\ n + 1 # 0 /\ (n + 1) - 1 = n
        OBVIOUS
      <3>2. after[n + 1] = Cross(in, after[n], sat)
        BY <1>5, <3>1
      <3> QED BY <1>0, <2>2, <3>2 DEF Cross
    <2>3. Nat \subseteq good
      <3> HIDE DEF good
      <3> QED BY <2>1, <2>2, Induction
    <2> QED BY <2>3
  <1>8. Steps(F, {t}, after)
    <2>1. \A n \in Nat : n # 0 => after[n - 1] \in D
      BY <1>7
    <2> HIDE DEF D
    <2>2. \A n \in Nat : (IF n = 0 THEN {t} ELSE F[after[n - 1]]) = (IF n = 0 THEN {t} ELSE Cross(in, after[n - 1], sat))
      BY <2>1
    <2> HIDE DEF F
    <2> QED BY <1>5, <2>2 DEF Steps
  <1> HIDE DEF F
  <1>9. LeastFixpoint(DOMAIN in.tenants, F, {t}, R)
    BY <1>1, <1>6, <1>8, LeastClosed
  <1>10. \A x \in D : F[x] = Cross(in, x, sat)
    BY DEF F
  <1>11. ASSUME NEW T, t \in T, \A ts \in SUBSET DOMAIN in.tenants : ts \subseteq T => Cross(in, ts, sat) \subseteq T
         PROVE  R \subseteq T
    <2>1. \A x \in D : x \subseteq T => F[x] \subseteq T
      BY <1>10, <1>11
    <2> QED BY <1>9, <1>11, <2>1 DEF LeastFixpoint
  <1>12. t \in R /\ R \in D /\ Cross(in, R, sat) = R
    BY <1>9, <1>10 DEF LeastFixpoint
  <1> QED BY <1>11, <1>12

-----------------------------------------------------------------------------
(* The pipelines and connectors of a configuration *)

\* The names of pipelines and connectors tell which they are and whose.
LEMMA NamesTell ==
    /\ \A t, u : LogsTenant(t) = LogsTenant(u) => t = u
    /\ \A t, s, u, v : LogsSubscription(t, s) = LogsSubscription(u, v) => t = u /\ s = v
    /\ \A s, o, u, v : LogsOutput(s, o) = LogsOutput(u, v) => s = u /\ o = v
    /\ \A t, u, v : LogsTenant(t) # LogsSubscription(u, v) /\ LogsTenant(t) # LogsOutput(u, v)
    /\ \A t, s, u, v : LogsSubscription(t, s) # LogsOutput(u, v)
    /\ \A t, u : TenantRoute(t) = TenantRoute(u) => t = u
    /\ \A t, u : SubscriptionRoute(t) = SubscriptionRoute(u) => t = u
    /\ \A t, u : BridgeRoute(t) = BridgeRoute(u) => t = u
    /\ \A t, u : TenantRoute(t) # SubscriptionRoute(u) /\ TenantRoute(t) # BridgeRoute(u)
                 /\ SubscriptionRoute(t) # BridgeRoute(u)
  BY DEF LogsTenant, LogsSubscription, LogsOutput, TenantRoute, SubscriptionRoute, BridgeRoute

\* No receiver and no other connector or exporter is named like a routing
\* connector.
Plain(x) == \A t : x # TenantRoute(t) /\ x # SubscriptionRoute(t) /\ x # BridgeRoute(t)
LEMMA PlainNames ==
    /\ \A t : Plain(FileLog(t)) /\ Plain(K8sEvents(t))
    /\ Plain(CountTenant) /\ Plain(CountOutput) /\ Plain(BytesExporter)
    /\ Plain(DebugExporter) /\ Plain(PrometheusExporter)
    /\ \A o : o.kind \in OutputKinds => Plain(GetExporterNameForOutput(o))
  <1>1. \A t : Plain(FileLog(t)) /\ Plain(K8sEvents(t))
    BY DEF Plain, FileLog, K8sEvents, TenantRoute, SubscriptionRoute, BridgeRoute
  <1>2. Plain(CountTenant) /\ Plain(CountOutput) /\ Plain(BytesExporter) /\ Plain(DebugExporter) /\ Plain(PrometheusExporter)
    BY DEF Plain, CountTenant, CountOutput, BytesExporter, DebugExporter, PrometheusExporter, TenantRoute,
           SubscriptionRoute, BridgeRoute
  <1>3. ASSUME NEW o, o.kind \in OutputKinds PROVE Plain(GetExporterNameForOutput(o))
    BY <1>3 DEF Plain, GetExporterNameForOutput, OutputKinds, PersistentKinds, TenantRoute, SubscriptionRoute, BridgeRoute
  <1> QED BY <1>1, <1>2, <1>3

\* The pipelines as they are in the configuration.
Root(in, t) == Limited(RootPipeline(in, t))
Branch(t, s) == Limited(SubscriptionPipeline(t, s))
Leaf(in, s, o) == Limited(OutputPipeline(in, s, o))

LEMMA LimitedFields ==
    ASSUME NEW id, NEW receivers, NEW processors, NEW exporters
    PROVE  LET p == Limited(Pipeline(id, receivers, processors, exporters))
           IN  p.id = id /\ p.receivers = receivers /\ p.exporters = exporters
  BY DEF Limited, Pipeline

LEMMA RootFields ==
    ASSUME NEW in, NEW t
    PROVE  /\ Root(in, t).id = LogsTenant(t)
           /\ Root(in, t).exporters = When(NotNil(in.tenants[t].subs), {TenantRoute(t)})
                                      \cup When(~in.dryRun, {CountTenant}) \cup OutgoingBridges(in, t)
           /\ Root(in, t).receivers = When(HasReceivers(in.tenants[t]), {FileLog(t)} \cup When(in.events, {K8sEvents(t)}))
                                      \cup IncomingBridges(in, t)
  BY DEF Root, RootPipeline, Limited, Pipeline

LEMMA RootEnds ==
    ASSUME NEW in, NEW t
    PROVE  OutgoingBridges(in, t) \subseteq Root(in, t).exporters /\ IncomingBridges(in, t) \subseteq Root(in, t).receivers
  BY RootFields

LEMMA BranchFields ==
    ASSUME NEW t, NEW s
    PROVE  /\ Branch(t, s).id = LogsSubscription(t, s)
           /\ Branch(t, s).receivers = {TenantRoute(t)} /\ Branch(t, s).exporters = {SubscriptionRoute(s)}
  BY DEF Branch, SubscriptionPipeline, Limited, Pipeline

LEMMA LeafFields ==
    ASSUME NEW in, NEW s, NEW o
    PROVE  /\ Leaf(in, s, o).id = LogsOutput(s, o)
           /\ Leaf(in, s, o).receivers = {SubscriptionRoute(s)}
           /\ Leaf(in, s, o).exporters = OutputExporters(in, FirstCopy(in, o))
  BY LimitedFields DEF Leaf, OutputPipeline

\* There are no others, but for those of the metrics.
Metric(p) ==
    /\ \A t, u : p.id # LogsTenant(t) /\ p.id # LogsSubscription(t, u) /\ p.id # LogsOutput(t, u)
    /\ \A x \in p.receivers : Plain(x)
LEMMA MetricsPipelines ==
    ASSUME NEW in, NEW p \in GenerateMetricsPipelines(in)
    PROVE  Metric(Limited(p))
  <1>1. PICK x \in {<<"metrics/tenant">>, <<"metrics/output">>, <<"metrics/output_bytes">>},
             c \in {CountTenant, CountOutput, BytesExporter} : p = MetricsPipeline(x, c)
    BY DEF GenerateMetricsPipelines, When
  <1>2. Limited(p).id = x /\ Limited(p).receivers = {c}
    BY <1>1, LimitedFields DEF MetricsPipeline
  <1>3. \A t, u : x # LogsTenant(t) /\ x # LogsSubscription(t, u) /\ x # LogsOutput(t, u)
    BY DEF LogsTenant, LogsSubscription, LogsOutput
  <1> QED BY <1>2, <1>3, PlainNames DEF Metric

LEMMA PipelineForms ==
    ASSUME NEW in, NEW q \in AssembleConfig(in).pipelines
    PROVE  \/ Metric(q) /\ \E p \in GenerateMetricsPipelines(in) : q = Limited(p)
           \/ \E t \in DOMAIN in.tenants : q = Root(in, t)
           \/ \E t \in DOMAIN in.tenants : \E s \in SubscriptionsOf(in, t) : q = Branch(t, s)
           \/ \E s \in DOMAIN in.subs : \E o \in OutputsOf(in, s) : q = Leaf(in, s, o)
  <1>1. PICK p \in GenerateNamedPipelines(in) : q = Limited(p)
    BY DEF AssembleConfig
  <1>2. CASE \E t \in DOMAIN in.tenants : p = RootPipeline(in, t)
    BY <1>1, <1>2 DEF Root
  <1>3. CASE p \in GenerateMetricsPipelines(in)
    BY <1>1, <1>3, MetricsPipelines
  <1>4. CASE \E x \in ListedPairs(in) : p = SubscriptionPipeline(x[1], x[2])
    <2>1. PICK x \in ListedPairs(in) : p = SubscriptionPipeline(x[1], x[2])
      BY <1>4
    <2>2. PICK t \in DOMAIN in.tenants : \E s \in SubscriptionsOf(in, t) : x = <<t, s>>
      BY <2>1 DEF ListedPairs
    <2> QED BY <1>1, <2>1, <2>2 DEF Branch
  <1>5. CASE \E x \in RoutedPairs(in) : p = OutputPipeline(in, x[1], x[2])
    <2>1. PICK x \in RoutedPairs(in) : p = OutputPipeline(in, x[1], x[2])
      BY <1>5
    <2>2. PICK s \in Listed(in) : \E o \in OutputsOf(in, s) : x = <<s, o>>
      BY <2>1 DEF RoutedPairs
    <2> QED BY <1>1, <2>1, <2>2 DEF Leaf, Listed
  <1> QED BY <1>1, <1>2, <1>3, <1>4, <1>5 DEF GenerateNamedPipelines, When

LEMMA PipelinesThere ==
    ASSUME NEW in, Complete(in)
    PROVE  /\ \A t \in DOMAIN in.tenants : Root(in, t) \in AssembleConfig(in).pipelines
           /\ \A t \in DOMAIN in.tenants : \A s \in SubscriptionsOf(in, t) :
                /\ Branch(t, s) \in AssembleConfig(in).pipelines
                /\ \A o \in OutputsOf(in, s) : Leaf(in, s, o) \in AssembleConfig(in).pipelines
  <1>1. ASSUME NEW t \in DOMAIN in.tenants PROVE Root(in, t) \in AssembleConfig(in).pipelines
    BY DEF Root, AssembleConfig, GenerateNamedPipelines
  <1>2. ASSUME NEW t \in DOMAIN in.tenants, NEW s \in SubscriptionsOf(in, t)
        PROVE  /\ Branch(t, s) \in AssembleConfig(in).pipelines
               /\ \A o \in OutputsOf(in, s) : Leaf(in, s, o) \in AssembleConfig(in).pipelines
    <2>1. <<t, s>> \in ListedPairs(in)
      BY DEF ListedPairs
    <2>2. SubscriptionPipeline(t, s) \in GenerateNamedPipelines(in)
      BY <2>1 DEF GenerateNamedPipelines
    <2>3. ASSUME NEW o \in OutputsOf(in, s) PROVE OutputPipeline(in, s, o) \in GenerateNamedPipelines(in)
      <3>1. s \in Listed(in)
        BY DEF Listed, Complete
      <3>2. <<s, o>> \in RoutedPairs(in)
        BY <3>1 DEF RoutedPairs, Listed, Complete
      <3> QED BY <3>2 DEF GenerateNamedPipelines
    <2> QED BY <2>2, <2>3 DEF Branch, Leaf, AssembleConfig
  <1> QED BY <1>1, <1>2

-----------------------------------------------------------------------------
(* Which pipeline leads to which *)

\* What is asked of an input: what the validation and the reads make sure of,
\* that no bridge was turned round, and that there is an end to it.
Usable(in) ==
    /\ Complete(in) /\ ValidateConfigInput(in) /\ ConsistentBridges(in)
    /\ in.bridges \in Seq({in.bridges[i] : i \in DOMAIN in.bridges}) /\ in.outputs \in Seq(Outs(in))
    /\ \A o \in Outs(in) : o.kind \in OutputKinds \cup {None}
    /\ IsFiniteSet(DOMAIN in.tenants)
    /\ \A t \in DOMAIN in.tenants : IsFiniteSet(SubscriptionsOf(in, t))
    /\ \A s \in DOMAIN in.subs : IsFiniteSet(OutputsOf(in, s))

\* The condition in Follow.
Chooses(c, q, sat) ==
    \/ \E row \in c.table : row.cond \in sat /\ q.id \in row.pipelines
    \/ q.id \in c.defaults /\ \A row \in c.table : row.cond \notin sat
Leads(cfg, p, q, sat) ==
    \E c \in cfg.connectors : c.id \in p.exporters /\ c.id \in q.receivers /\ Chooses(c, q, sat)

LEMMA FollowLeads ==
    ASSUME NEW cfg, NEW ps, NEW sat
    PROVE  Follow(cfg, ps, sat) = ps \cup {q \in cfg.pipelines : \E p \in ps : Leads(cfg, p, q, sat)}
  BY DEF Follow, Leads, Chooses

\* The connectors that choose something.
SubscriptionsConnector(in, t) == RoutingConnector(TenantRoute(t), SubscriptionTable(in, t), in.tenants[t].defaults)
OutputsConnector(in, s) == Connector(SubscriptionRoute(s), {Row("true", {LogsOutput(s, o) : o \in OutputsOf(in, s)})})
BridgeConnector(b) == Connector(BridgeRoute(b.name), {Row(b.cond, {LogsTenant(b.target)})})

LEMMA ConnectorForms ==
    ASSUME NEW in, NEW c \in AssembleConfig(in).connectors, NEW q, NEW sat, Chooses(c, q, sat)
    PROVE  \/ \E t \in DOMAIN in.tenants : c = SubscriptionsConnector(in, t)
           \/ \E s \in DOMAIN in.subs : c = OutputsConnector(in, s)
           \/ \E b \in LastBridges(in) : c = BridgeConnector(b)
  <1>1. \A id : ~Chooses(Connector(id, {}), q, sat)
    BY DEF Chooses, Connector, RoutingConnector
  <1>2. c \in GenerateConnectors(in)
    BY DEF AssembleConfig
  <1> QED BY <1>1, <1>2 DEF GenerateConnectors, When, SubscriptionsConnector, OutputsConnector, BridgeConnector

LEMMA ConnectorsThere ==
    ASSUME NEW in
    PROVE  /\ \A t \in DOMAIN in.tenants : SubscriptionsOf(in, t) # {} =>
                SubscriptionsConnector(in, t) \in AssembleConfig(in).connectors
           /\ \A s \in DOMAIN in.subs : OutputsOf(in, s) # {} => OutputsConnector(in, s) \in AssembleConfig(in).connectors
           /\ \A b \in LastBridges(in) : BridgeConnector(b) \in AssembleConfig(in).connectors
  BY DEF AssembleConfig, GenerateConnectors, SubscriptionsConnector, OutputsConnector, BridgeConnector

LEMMA RouteNames ==
    /\ \A in, t : SubscriptionsConnector(in, t).id = TenantRoute(t)
    /\ \A in, s : OutputsConnector(in, s).id = SubscriptionRoute(s)
    /\ \A b : BridgeConnector(b).id = BridgeRoute(b.name)
  BY DEF SubscriptionsConnector, OutputsConnector, BridgeConnector, Connector, RoutingConnector

LEMMA OneRow ==
    ASSUME NEW c, NEW cond, NEW ids, c.table = {Row(cond, ids)}, c.defaults = {}, NEW q, NEW sat
    PROVE  Chooses(c, q, sat) <=> cond \in sat /\ q.id \in ids
  <1>1. Row(cond, ids).cond = cond /\ Row(cond, ids).pipelines = ids
    BY DEF Row
  <1> QED BY <1>1 DEF Chooses

LEMMA ConnectorFields ==
    ASSUME NEW in
    PROVE  /\ \A t : /\ SubscriptionsConnector(in, t).id = TenantRoute(t)
                     /\ SubscriptionsConnector(in, t).table = SubscriptionTable(in, t)
                     /\ SubscriptionsConnector(in, t).defaults = in.tenants[t].defaults
           /\ \A s : /\ OutputsConnector(in, s).id = SubscriptionRoute(s)
                     /\ \A q, sat : "true" \in sat =>
                          (Chooses(OutputsConnector(in, s), q, sat) <=> \E o \in OutputsOf(in, s) : q.id = LogsOutput(s, o))
           /\ \A b : /\ BridgeConnector(b).id = BridgeRoute(b.name)
                     /\ \A q, sat : Chooses(BridgeConnector(b), q, sat) <=> b.cond \in sat /\ q.id = LogsTenant(b.target)
  <1>1. ASSUME NEW t PROVE /\ SubscriptionsConnector(in, t).id = TenantRoute(t)
                           /\ SubscriptionsConnector(in, t).table = SubscriptionTable(in, t)
                           /\ SubscriptionsConnector(in, t).defaults = in.tenants[t].defaults
    BY DEF SubscriptionsConnector, RoutingConnector
  <1>2. ASSUME NEW s PROVE /\ OutputsConnector(in, s).id = SubscriptionRoute(s)
                           /\ OutputsConnector(in, s).table = {Row("true", {LogsOutput(s, o) : o \in OutputsOf(in, s)})}
                           /\ OutputsConnector(in, s).defaults = {}
    BY DEF OutputsConnector, Connector, RoutingConnector
  <1>3. ASSUME NEW b PROVE /\ BridgeConnector(b).id = BridgeRoute(b.name)
                           /\ BridgeConnector(b).table = {Row(b.cond, {LogsTenant(b.target)})}
                           /\ BridgeConnector(b).defaults = {}
    BY DEF BridgeConnector, Connector, RoutingConnector
  <1>4. ASSUME NEW s, NEW q, NEW sat, "true" \in sat
        PROVE  Chooses(OutputsConnector(in, s), q, sat) <=> \E o \in OutputsOf(in, s) : q.id = LogsOutput(s, o)
    <2>1. Chooses(OutputsConnector(in, s), q, sat) <=> q.id \in {LogsOutput(s, o) : o \in OutputsOf(in, s)}
      BY <1>2, <1>4, OneRow
    <2> QED BY <2>1
  <1>5. ASSUME NEW b, NEW q, NEW sat
        PROVE  Chooses(BridgeConnector(b), q, sat) <=> b.cond \in sat /\ q.id = LogsTenant(b.target)
    <2>1. Chooses(BridgeConnector(b), q, sat) <=> b.cond \in sat /\ q.id \in {LogsTenant(b.target)}
      BY <1>3, OneRow
    <2> QED BY <2>1
  <1> QED BY <1>1, <1>2, <1>3, <1>4, <1>5

\* A tenant's connector chooses the subscriptions that match, or the defaults.
LEMMA SubscriptionsChosen ==
    ASSUME NEW in, Complete(in), NEW t \in DOMAIN in.tenants, NEW s \in SubscriptionsOf(in, t), NEW sat
    PROVE  Chooses(SubscriptionsConnector(in, t), Branch(t, s), sat) <=> s \in WantedSubscriptions(in, t, sat)
  <1> DEFINE subs == SubscriptionsOf(in, t)
             RowOf(u) == Row(in.subs[u].cond, {LogsSubscription(t, v) : v \in {v \in subs : in.subs[v].cond = in.subs[u].cond}})
             c == SubscriptionsConnector(in, t)
             id == LogsSubscription(t, s)
  <1>1. subs \subseteq DOMAIN in.subs
    BY DEF Complete
  <1>2. c.table = {RowOf(u) : u \in subs} /\ c.defaults = in.tenants[t].defaults /\ Branch(t, s).id = id
    <2>1. subs \cap DOMAIN in.subs = subs
      BY <1>1
    <2>2. SubscriptionTable(in, t) = {RowOf(u) : u \in subs}
      BY <2>1 DEF SubscriptionTable
    <2> QED BY <2>2, ConnectorFields, BranchFields
  <1>3. \A u \in subs : /\ RowOf(u).cond = in.subs[u].cond
                        /\ id \in RowOf(u).pipelines <=> in.subs[s].cond = in.subs[u].cond
    <2>1. \A u \in subs : /\ RowOf(u).cond = in.subs[u].cond
                          /\ RowOf(u).pipelines = {LogsSubscription(t, v) : v \in {v \in subs : in.subs[v].cond = in.subs[u].cond}}
      BY DEF Row
    <2> HIDE DEF RowOf
    <2> QED BY <2>1, NamesTell
  <1> HIDE DEF RowOf, c, id
  <1>4. (\E row \in c.table : row.cond \in sat /\ id \in row.pipelines) <=> in.subs[s].cond \in sat
    BY <1>2, <1>3
  <1>5. (\A row \in c.table : row.cond \notin sat) <=> \A u \in subs : in.subs[u].cond \notin sat
    BY <1>2, <1>3
  <1>6. Chooses(c, Branch(t, s), sat) <=>
          \/ in.subs[s].cond \in sat
          \/ id \in in.tenants[t].defaults /\ \A u \in subs : in.subs[u].cond \notin sat
    BY <1>2, <1>4, <1>5 DEF Chooses
  <1>7. s \in WantedSubscriptions(in, t, sat) <=>
          \/ in.subs[s].cond \in sat
          \/ id \in in.tenants[t].defaults /\ \A u \in subs : in.subs[u].cond \notin sat
    BY DEF WantedSubscriptions, id
  <1> QED BY <1>6, <1>7 DEF c

\* The tenant a bridge comes from sends to it, and nobody else does.
LEMMA SourceSends ==
    ASSUME NEW in, Usable(in), NEW b \in LastBridges(in)
    PROVE  /\ BridgeRoute(b.name) \in OutgoingBridges(in, b.source)
           /\ \A t : BridgeRoute(b.name) \in OutgoingBridges(in, t) => t = b.source
  <1> DEFINE copies == {i \in DOMAIN in.bridges : in.bridges[i].name = b.name}
  <1>1. DOMAIN in.bridges \subseteq Nat /\ \A i \in DOMAIN in.bridges : \A j \in 1..(i - 1) : j \in DOMAIN in.bridges /\ j < i
    <2>1. in.bridges \in Seq({in.bridges[i] : i \in DOMAIN in.bridges})
      BY DEF Usable
    <2>2. DOMAIN in.bridges = 1..Len(in.bridges) /\ Len(in.bridges) \in Nat
      BY <2>1
    <2> QED BY <2>2
  <1>2. PICK k \in DOMAIN in.bridges : b = in.bridges[k]
    BY DEF LastBridges
  <1>3. copies \in SUBSET Nat /\ copies # {}
    BY <1>1, <1>2
  <1>4. PICK i \in copies : \A n \in copies : ~(n < i)
    BY <1>3, Least
  <1>5. in.bridges[i].source = b.source
    BY <1>2, <1>4 DEF Usable, ConsistentBridges
  <1>6. Counts(in, b.source, i)
    <2>1. \A j \in 1..(i - 1) : in.bridges[j].name # in.bridges[i].name
      BY <1>1, <1>4
    <2> QED BY <1>5, <2>1 DEF Counts, Ends
  <1>7. BridgeRoute(b.name) \in OutgoingBridges(in, b.source)
    BY <1>4, <1>5, <1>6 DEF OutgoingBridges
  <1>8. ASSUME NEW t, BridgeRoute(b.name) \in OutgoingBridges(in, t) PROVE t = b.source
    <2>1. PICK j \in DOMAIN in.bridges : BridgeRoute(b.name) = BridgeRoute(in.bridges[j].name) /\ in.bridges[j].source = t
      BY <1>8 DEF OutgoingBridges
    <2>2. in.bridges[j].name = in.bridges[k].name
      BY <1>2, <2>1, NamesTell
    <2> QED BY <1>2, <2>1, <2>2 DEF Usable, ConsistentBridges
  <1> QED BY <1>7, <1>8

\* A pipeline is known by its name.
LEMMA RootNamed ==
    ASSUME NEW in, NEW q \in AssembleConfig(in).pipelines, NEW t, q.id = LogsTenant(t)
    PROVE  q = Root(in, t)
  <1>1. ~Metric(q)
    BY DEF Metric
  <1>2. \A v : q = Root(in, v) => v = t
    <2>1. \A v : Root(in, v).id = LogsTenant(v)
      BY RootFields
    <2> QED BY <2>1, NamesTell
  <1>3. \A v, s : q # Branch(v, s)
    BY BranchFields, NamesTell
  <1>4. \A s, o : q # Leaf(in, s, o)
    BY LeafFields, NamesTell
  <1> QED BY <1>1, <1>2, <1>3, <1>4, PipelineForms

LEMMA LeafNamed ==
    ASSUME NEW in, NEW q \in AssembleConfig(in).pipelines, NEW s, NEW o, q.id = LogsOutput(s, o)
    PROVE  q = Leaf(in, s, o)
  <1>1. ~Metric(q)
    BY DEF Metric
  <1>2. \A v : q # Root(in, v)
    <2>1. \A v : Root(in, v).id = LogsTenant(v)
      BY RootFields
    <2> QED BY <2>1, NamesTell
  <1>3. \A v, u : q # Branch(v, u)
    BY BranchFields, NamesTell
  <1>4. \A u, v : q = Leaf(in, u, v) => u = s /\ v = o
    BY LeafFields, NamesTell
  <1> QED BY <1>1, <1>2, <1>3, <1>4, PipelineForms

\* What the root pipeline of a tenant leads to.
LEMMA FromRoot ==
    ASSUME NEW in, Usable(in), NEW sat, NEW t \in DOMAIN in.tenants,
           NEW cfg, cfg = AssembleConfig(in), NEW q \in cfg.pipelines, Leads(cfg, Root(in, t), q, sat)
    PROVE  \/ \E b \in LastBridges(in) : b.source = t /\ b.cond \in sat /\ q = Root(in, b.target)
           \/ \E s \in WantedSubscriptions(in, t, sat) : s \in SubscriptionsOf(in, t) /\ q = Branch(t, s)
  <1>1. PICK c \in cfg.connectors : c.id \in Root(in, t).exporters /\ c.id \in q.receivers /\ Chooses(c, q, sat)
    BY DEF Leads
  <1>2. ASSUME NEW u \in DOMAIN in.tenants, c = SubscriptionsConnector(in, u)
        PROVE  \E s \in WantedSubscriptions(in, t, sat) : s \in SubscriptionsOf(in, t) /\ q = Branch(t, s)
    <2>1. c.id = TenantRoute(u)
      BY <1>2, ConnectorFields
    <2>2. u = t
      <3>1. \A x : TenantRoute(u) = TenantRoute(x) => u = x
        BY NamesTell
      <3>2. TenantRoute(u) \notin OutgoingBridges(in, t)
        BY NamesTell DEF OutgoingBridges
      <3>3. TenantRoute(u) # CountTenant
        BY PlainNames DEF Plain
      <3> QED BY <1>1, <2>1, <3>1, <3>2, <3>3, RootFields DEF When
    <2>3. PICK s \in SubscriptionsOf(in, t) : q = Branch(t, s)
      <3>1. TenantRoute(t) \in q.receivers
        BY <1>1, <2>1, <2>2
      <3>2. ~Metric(q)
        BY <3>1 DEF Metric, Plain
      <3>3. \A v \in DOMAIN in.tenants : q # Root(in, v)
        <4>1. \A v : TenantRoute(t) # FileLog(v) /\ TenantRoute(t) # K8sEvents(v)
          BY PlainNames DEF Plain
        <4>2. \A v : TenantRoute(t) \notin IncomingBridges(in, v)
          BY NamesTell DEF IncomingBridges
        <4> QED BY <3>1, <4>1, <4>2, RootFields DEF When
      <3>4. \A v \in DOMAIN in.subs : \A o \in OutputsOf(in, v) : q # Leaf(in, v, o)
        BY <3>1, LeafFields, NamesTell
      <3>5. \A v, s : q = Branch(v, s) => v = t
        BY <3>1, BranchFields, NamesTell
      <3> QED BY <3>2, <3>3, <3>4, <3>5, PipelineForms
    <2> QED BY <1>1, <1>2, <2>2, <2>3, SubscriptionsChosen DEF Usable
  <1>3. ASSUME NEW s \in DOMAIN in.subs, c = OutputsConnector(in, s) PROVE FALSE
    <2>1. c.id = SubscriptionRoute(s)
      BY <1>3, ConnectorFields
    <2>2. SubscriptionRoute(s) \notin OutgoingBridges(in, t) /\ SubscriptionRoute(s) # TenantRoute(t)
      BY NamesTell DEF OutgoingBridges
    <2>3. SubscriptionRoute(s) # CountTenant
      BY PlainNames DEF Plain
    <2> QED BY <1>1, <2>1, <2>2, <2>3, RootFields DEF When
  <1>4. ASSUME NEW b \in LastBridges(in), c = BridgeConnector(b)
        PROVE  b.source = t /\ b.cond \in sat /\ q = Root(in, b.target)
    <2>1. c.id = BridgeRoute(b.name) /\ b.cond \in sat /\ q.id = LogsTenant(b.target)
      BY <1>1, <1>4, ConnectorFields
    <2>2. BridgeRoute(b.name) \in OutgoingBridges(in, t)
      <3>1. BridgeRoute(b.name) # TenantRoute(t) /\ BridgeRoute(b.name) # CountTenant
        BY NamesTell, PlainNames DEF Plain
      <3> QED BY <1>1, <2>1, <3>1, RootFields DEF When
    <2>3. b.source = t
      BY <2>2, SourceSends
    <2>4. q = Root(in, b.target)
      BY <2>1, RootNamed
    <2> QED BY <2>1, <2>3, <2>4
  <1> QED BY <1>1, <1>2, <1>3, <1>4, ConnectorForms

\* It does lead there.
LEMMA AlongBridge ==
    ASSUME NEW in, Usable(in), NEW sat, NEW b \in LastBridges(in), b.cond \in sat,
           NEW t, t = b.source, NEW u, u = b.target, NEW cfg, cfg = AssembleConfig(in)
    PROVE  Leads(cfg, Root(in, t), Root(in, u), sat)
  <1> DEFINE c == BridgeConnector(b)
  <1>1. c \in cfg.connectors /\ c.id = BridgeRoute(b.name)
    BY ConnectorsThere, RouteNames
  <1>2. Root(in, u).id = LogsTenant(u)
    BY RootFields
  <1>3. Chooses(c, Root(in, u), sat)
    <2>1. \A q : Chooses(c, q, sat) <=> b.cond \in sat /\ q.id = LogsTenant(u)
      BY ConnectorFields
    <2> QED BY <1>2, <2>1
  <1>4. c.id \in Root(in, t).exporters
    <2>1. BridgeRoute(b.name) \in OutgoingBridges(in, t)
      BY SourceSends
    <2>2. OutgoingBridges(in, t) \subseteq Root(in, t).exporters
      BY Zenon, RootEnds
    <2> QED BY <1>1, <2>1, <2>2
  <1>5. c.id \in Root(in, u).receivers
    <2>1. in.bridges \in Seq({in.bridges[i] : i \in DOMAIN in.bridges}) /\ ConsistentBridges(in)
      BY DEF Usable
    <2>2. BridgeRoute(b.name) \in IncomingBridges(in, u)
      BY <2>1, TargetReceives
    <2>3. IncomingBridges(in, u) \subseteq Root(in, u).receivers
      BY Zenon, RootEnds
    <2> QED BY <1>1, <2>2, <2>3
  <1> HIDE DEF c
  <1> QED BY <1>1, <1>3, <1>4, <1>5 DEF Leads

LEMMA AlongSubscription ==
    ASSUME NEW in, Usable(in), NEW sat, NEW t \in DOMAIN in.tenants, NEW s \in SubscriptionsOf(in, t),
           s \in WantedSubscriptions(in, t, sat), NEW cfg, cfg = AssembleConfig(in)
    PROVE  Leads(cfg, Root(in, t), Branch(t, s), sat)
  <1> DEFINE c == SubscriptionsConnector(in, t)
  <1>1. c \in cfg.connectors /\ c.id = TenantRoute(t)
    BY ConnectorsThere, RouteNames
  <1>2. Chooses(c, Branch(t, s), sat)
    BY SubscriptionsChosen DEF Usable
  <1>3. c.id \in Root(in, t).exporters /\ c.id \in Branch(t, s).receivers
    BY <1>1, RootFields, BranchFields DEF When, NotNil, SubscriptionsOf
  <1> HIDE DEF c
  <1> QED BY <1>1, <1>2, <1>3 DEF Leads

\* A subscription's pipeline leads to those of its outputs.
LEMMA FromBranch ==
    ASSUME NEW in, Usable(in), NEW sat, "true" \in sat, NEW t \in DOMAIN in.tenants, NEW s \in SubscriptionsOf(in, t),
           NEW cfg, cfg = AssembleConfig(in), NEW q \in cfg.pipelines
    PROVE  Leads(cfg, Branch(t, s), q, sat) <=> \E o \in OutputsOf(in, s) : q = Leaf(in, s, o)
  <1> DEFINE d == OutputsConnector(in, s)
  <1>1. ASSUME Leads(cfg, Branch(t, s), q, sat) PROVE \E o \in OutputsOf(in, s) : q = Leaf(in, s, o)
    <2>1. PICK c \in cfg.connectors : c.id \in Branch(t, s).exporters /\ c.id \in q.receivers /\ Chooses(c, q, sat)
      BY <1>1 DEF Leads
    <2>2. c.id = SubscriptionRoute(s)
      BY <2>1, BranchFields
    <2>3. \A u \in DOMAIN in.tenants : c # SubscriptionsConnector(in, u)
      BY <2>2, RouteNames, NamesTell
    <2>4. \A b \in LastBridges(in) : c # BridgeConnector(b)
      <3>1. \A x : c.id # BridgeRoute(x)
        BY <2>2, NamesTell
      <3> QED BY <3>1, RouteNames
    <2>5. \A u \in DOMAIN in.subs : c = OutputsConnector(in, u) => u = s
      BY <2>2, RouteNames, NamesTell
    <2>6. c = d
      BY <2>1, <2>3, <2>4, <2>5, ConnectorForms
    <2>7. PICK o \in OutputsOf(in, s) : q.id = LogsOutput(s, o)
      BY <2>1, <2>6, ConnectorFields
    <2> QED BY <2>7, LeafNamed
  <1>2. ASSUME NEW o \in OutputsOf(in, s), q = Leaf(in, s, o) PROVE Leads(cfg, Branch(t, s), q, sat)
    <2>1. s \in DOMAIN in.subs
      BY DEF Usable, Complete
    <2>2. d \in cfg.connectors /\ d.id = SubscriptionRoute(s)
      BY <2>1, ConnectorsThere, ConnectorFields
    <2>3. Chooses(d, q, sat)
      BY <1>2, LeafFields, ConnectorFields
    <2>4. d.id \in Branch(t, s).exporters /\ d.id \in q.receivers
      BY <1>2, <2>2, LeafFields, BranchFields
    <2> HIDE DEF d
    <2> QED BY <2>2, <2>3, <2>4 DEF Leads
  <1> QED BY <1>1, <1>2

\* There are copies of the outputs of a subscription, and their pipelines lead
\* nowhere.
LEMMA CopiesRead ==
    ASSUME NEW in, Usable(in), NEW s \in DOMAIN in.subs, NEW o \in OutputsOf(in, s)
    PROVE  FirstCopy(in, o) \in Outs(in) /\ FirstCopy(in, o).name = o
  <1> DEFINE copies == {i \in DOMAIN in.outputs : in.outputs[i].name = o}
             First(i) == in.outputs[i].name = o /\ \A j \in 1..(i - 1) : in.outputs[j].name # o
  <1>1. DOMAIN in.outputs \subseteq Nat /\ \A i \in DOMAIN in.outputs : \A j \in 1..(i - 1) : j \in DOMAIN in.outputs /\ j < i
    <2>1. in.outputs \in Seq(Outs(in))
      BY DEF Usable
    <2>2. DOMAIN in.outputs = 1..Len(in.outputs) /\ Len(in.outputs) \in Nat
      BY <2>1
    <2> QED BY <2>2
  <1>2. copies \in SUBSET Nat /\ copies # {}
    <2>1. \E c \in Outs(in) : c.name = o
      BY DEF Usable, Complete
    <2>2. copies # {}
      BY <2>1 DEF Outs
    <2> QED BY <1>1, <2>2
  <1>3. PICK i \in copies : \A n \in copies : ~(n < i)
    BY <1>2, Least
  <1>4. First(i)
    BY <1>1, <1>3
  <1> DEFINE k == CHOOSE j \in DOMAIN in.outputs : First(j)
  <1>5. k \in DOMAIN in.outputs /\ First(k)
    <2> HIDE DEF First
    <2> QED BY <1>3, <1>4
  <1>6. FirstCopy(in, o) = in.outputs[k]
    BY DEF FirstCopy
  <1> HIDE DEF k
  <1> QED BY <1>5, <1>6 DEF Outs

LEMMA FromLeaf ==
    ASSUME NEW in, Usable(in), NEW sat, NEW s \in DOMAIN in.subs, NEW o \in OutputsOf(in, s),
           NEW cfg, cfg = AssembleConfig(in), NEW q
    PROVE  ~Leads(cfg, Leaf(in, s, o), q, sat)
  <1> DEFINE copy == FirstCopy(in, o)
  <1>1. \A x \in OutputExporters(in, copy) : Plain(x)
    <2>1. copy.kind # None => copy.kind \in OutputKinds
      BY CopiesRead DEF Usable
    <2> HIDE DEF copy
    <2> QED BY <2>1, PlainNames DEF OutputExporters, When
  <1>2. SUFFICES ASSUME NEW c \in cfg.connectors, c.id \in Leaf(in, s, o).exporters, Chooses(c, q, sat) PROVE FALSE
    BY DEF Leads
  <1>3. Plain(c.id)
    BY <1>1, <1>2, LeafFields
  <1>4. /\ \A t \in DOMAIN in.tenants : c # SubscriptionsConnector(in, t)
        /\ \A u \in DOMAIN in.subs : c # OutputsConnector(in, u)
        /\ \A b \in LastBridges(in) : c # BridgeConnector(b)
    BY <1>3, RouteNames DEF Plain
  <1> QED BY <1>2, <1>4, ConnectorForms

-----------------------------------------------------------------------------
(* Where a log goes *)

\* The values of a function on a finite set are finitely many.
LEMMA ImageFinite ==
    ASSUME NEW S, IsFiniteSet(S), NEW f, f = [x \in S |-> f[x]]
    PROVE  IsFiniteSet({f[x] : x \in S})
  <1> DEFINE T == {f[x] : x \in S}
  <1>1. f \in Surjection(S, T)
    BY DEF Surjection
  <1> QED BY <1>1, FS_Surjection

\* There is an end to the pipelines.
LEMMA PipelinesFinite ==
    ASSUME NEW in, Usable(in)
    PROVE  IsFiniteSet(AssembleConfig(in).pipelines)
  <1> DEFINE tenants == DOMAIN in.tenants
             subs == DOMAIN in.subs
             f == [t \in tenants |-> SubscriptionsOf(in, t)]
             g == [s \in subs |-> OutputsOf(in, s)]
             outputs == UNION {g[s] : s \in subs}
  <1>1. IsFiniteSet(tenants) /\ (\A t \in tenants : IsFiniteSet(f[t])) /\ (\A s \in subs : IsFiniteSet(g[s]))
    BY DEF Usable
  <1>2. IsFiniteSet(subs)
    <2>1. subs = UNION {f[t] : t \in tenants}
      BY DEF Usable, Complete
    <2>2. IsFiniteSet({f[t] : t \in tenants})
      BY <1>1, ImageFinite
    <2> QED BY <1>1, <2>1, <2>2, FS_UNION
  <1>3. IsFiniteSet(outputs)
    <2>1. IsFiniteSet({g[s] : s \in subs})
      BY <1>2, ImageFinite
    <2> QED BY <1>1, <2>1, FS_UNION
  <1> DEFINE all == AssembleConfig(in).pipelines
             roots == [t \in tenants |-> Root(in, t)]
             branches == [x \in tenants \X subs |-> Branch(x[1], x[2])]
             leaves == [x \in subs \X outputs |-> Leaf(in, x[1], x[2])]
             metrics == {Limited(p) : p \in GenerateMetricsPipelines(in)}
             found == {roots[t] : t \in tenants} \cup {branches[x] : x \in tenants \X subs}
                      \cup {leaves[x] : x \in subs \X outputs}
  <1>4. IsFiniteSet({roots[t] : t \in tenants})
    <2> HIDE DEF tenants
    <2> QED BY <1>1, ImageFinite
  <1>5. IsFiniteSet({branches[x] : x \in tenants \X subs})
    <2>1. IsFiniteSet(tenants \X subs)
      BY <1>1, <1>2, FS_Product
    <2> DEFINE pairs == tenants \X subs
    <2>2. branches = [x \in pairs |-> branches[x]]
      OBVIOUS
    <2> HIDE DEF pairs, branches
    <2>3. IsFiniteSet(pairs)
      <3> HIDE DEF tenants, subs, outputs
      <3> QED BY <2>1 DEF pairs
    <2>4. IsFiniteSet({branches[x] : x \in pairs})
      BY <2>2, <2>3, ImageFinite
    <2> QED BY <2>4 DEF pairs
  <1>6. IsFiniteSet({leaves[x] : x \in subs \X outputs})
    <2>1. IsFiniteSet(subs \X outputs)
      BY <1>2, <1>3, FS_Product
    <2> DEFINE pairs == subs \X outputs
    <2>2. leaves = [x \in pairs |-> leaves[x]]
      OBVIOUS
    <2> HIDE DEF pairs, leaves
    <2>3. IsFiniteSet(pairs)
      <3> HIDE DEF tenants, subs, outputs
      <3> QED BY <2>1 DEF pairs
    <2>4. IsFiniteSet({leaves[x] : x \in pairs})
      BY <2>2, <2>3, ImageFinite
    <2> QED BY <2>4 DEF pairs
  <1>7. IsFiniteSet(found)
    <2> HIDE DEF tenants, subs, outputs, roots, branches, leaves
    <2> QED BY <1>4, <1>5, <1>6, FS_Union
  <1>8. IsFiniteSet(metrics)
    <2> DEFINE a == Limited(MetricsPipeline(<<"metrics/tenant">>, CountTenant))
               b == Limited(MetricsPipeline(<<"metrics/output">>, CountOutput))
               c == Limited(MetricsPipeline(<<"metrics/output_bytes">>, BytesExporter))
    <2>1. metrics \in SUBSET {a, b, c}
      BY DEF GenerateMetricsPipelines, When
    <2> HIDE DEF a, b, c, metrics
    <2>2. IsFiniteSet({a, b, c})
      <3>1. IsFiniteSet({a}) /\ IsFiniteSet({b}) /\ IsFiniteSet({c})
        BY FS_Singleton
      <3>2. {a, b, c} = ({a} \cup {b}) \cup {c}
        OBVIOUS
      <3> QED BY <3>1, <3>2, FS_Union
    <2> QED BY <2>1, <2>2, FS_Subset
  <1>9. all \subseteq found \cup metrics
    <2> SUFFICES ASSUME NEW q \in all PROVE q \in found \cup metrics
      OBVIOUS
    <2>1. CASE \E t \in tenants : q = Root(in, t)
      BY <2>1
    <2>2. CASE \E t \in tenants : \E s \in SubscriptionsOf(in, t) : q = Branch(t, s)
      <3>0. PICK t \in tenants : \E s \in SubscriptionsOf(in, t) : q = Branch(t, s)
        BY <2>2
      <3>1. PICK s \in SubscriptionsOf(in, t) : q = Branch(t, s)
        BY <3>0
      <3>2. <<t, s>> \in tenants \X subs
        BY DEF Usable, Complete
      <3>3. branches[<<t, s>>] = Branch(t, s)
        BY <3>2
      <3> HIDE DEF branches, tenants, subs, roots, leaves
      <3> QED BY <3>1, <3>2, <3>3
    <2>3. CASE \E s \in subs : \E o \in OutputsOf(in, s) : q = Leaf(in, s, o)
      <3>0. PICK s \in subs : \E o \in OutputsOf(in, s) : q = Leaf(in, s, o)
        BY <2>3
      <3>1. PICK o \in OutputsOf(in, s) : q = Leaf(in, s, o)
        BY <3>0
      <3>2. <<s, o>> \in subs \X outputs
        OBVIOUS
      <3>3. leaves[<<s, o>>] = Leaf(in, s, o)
        BY <3>2
      <3> HIDE DEF branches, outputs, subs, roots, leaves
      <3> QED BY <3>1, <3>2, <3>3
    <2>4. CASE \E p \in GenerateMetricsPipelines(in) : q = Limited(p)
      BY <2>4
    <2> QED BY <2>1, <2>2, <2>3, <2>4, PipelineForms
  <1>10. all \in SUBSET (found \cup metrics)
    BY <1>9
  <1> HIDE DEF found, metrics
  <1> QED BY <1>7, <1>8, <1>10, FS_Union, FS_Subset

\* What the logs of the tenants in B, once there, come to.
Offered(in, B, sat, q) ==
    \E u \in B :
        \/ q = Root(in, u)
        \/ \E s \in WantedSubscriptions(in, u, sat) :
             q = Branch(u, s) \/ \E o \in OutputsOf(in, s) : q = Leaf(in, s, o)

LEMMA WantedListed ==
    ASSUME NEW in, NEW t, NEW sat
    PROVE  WantedSubscriptions(in, t, sat) \subseteq SubscriptionsOf(in, t)
  BY DEF WantedSubscriptions

LEMMA OfferedClosed ==
    ASSUME NEW in, Usable(in), NEW sat, "true" \in sat, NEW cfg, cfg = AssembleConfig(in),
           NEW B \in SUBSET DOMAIN in.tenants, Cross(in, B, sat) = B,
           NEW p, Offered(in, B, sat, p), NEW q \in cfg.pipelines, Leads(cfg, p, q, sat)
    PROVE  Offered(in, B, sat, q)
  <1>1. PICK u \in B :
          \/ p = Root(in, u)
          \/ \E s \in WantedSubscriptions(in, u, sat) :
               p = Branch(u, s) \/ \E o \in OutputsOf(in, s) : p = Leaf(in, s, o)
    BY DEF Offered
  <1>2. u \in DOMAIN in.tenants
    OBVIOUS
  <1>3. CASE p = Root(in, u)
    <2>1. CASE \E b \in LastBridges(in) : b.source = u /\ b.cond \in sat /\ q = Root(in, b.target)
      <3>1. PICK b \in LastBridges(in) : b.source = u /\ b.cond \in sat /\ q = Root(in, b.target)
        BY <2>1
      <3>2. b.target \in Cross(in, B, sat)
        BY <3>1 DEF Cross
      <3> QED BY <3>1, <3>2 DEF Offered
    <2>2. CASE \E s \in WantedSubscriptions(in, u, sat) : s \in SubscriptionsOf(in, u) /\ q = Branch(u, s)
      BY <2>2 DEF Offered
    <2> QED BY <1>2, <1>3, <2>1, <2>2, FromRoot
  <1>4. ASSUME NEW s \in WantedSubscriptions(in, u, sat), p = Branch(u, s) PROVE Offered(in, B, sat, q)
    <2>1. s \in SubscriptionsOf(in, u)
      BY WantedListed
    <2>2. \E o \in OutputsOf(in, s) : q = Leaf(in, s, o)
      BY <1>2, <1>4, <2>1, FromBranch
    <2> QED BY <2>2 DEF Offered
  <1>5. ASSUME NEW s \in WantedSubscriptions(in, u, sat), NEW o \in OutputsOf(in, s), p = Leaf(in, s, o) PROVE FALSE
    <2>1. s \in DOMAIN in.subs
      BY <1>2, WantedListed DEF Usable, Complete
    <2> QED BY <1>5, <2>1, FromLeaf
  <1> QED BY <1>1, <1>3, <1>4, <1>5

\* The pipelines that are reached from a tenant are those of the tenants that
\* are reached over bridges.
LEMMA ReachedExactly ==
    ASSUME NEW in, Usable(in), NEW sat, "true" \in sat, NEW cfg, cfg = AssembleConfig(in),
           NEW t \in DOMAIN in.tenants, NEW B, B = BridgedTenants(in, t, sat),
           NEW R, R = ReachedPipelines(cfg, LogsTenant(t), sat)
    PROVE  \A q : q \in R <=> Offered(in, B, sat, q)
  <1> DEFINE first == Named(cfg, LogsTenant(t))
             T == {q \in cfg.pipelines : Offered(in, B, sat, q)}
             G == {u \in DOMAIN in.tenants : Root(in, u) \in R}
  <1>1. Complete(in) /\ ValidateConfigInput(in) /\ IsFiniteSet(DOMAIN in.tenants) /\ IsFiniteSet(cfg.pipelines)
    BY PipelinesFinite DEF Usable
  <1>2. first = {Root(in, t)}
    <2>1. Root(in, t) \in cfg.pipelines /\ Root(in, t).id = LogsTenant(t)
      BY <1>1, PipelinesThere, RootFields
    <2>2. \A q \in first : q = Root(in, t)
      BY RootNamed DEF Named
    <2> QED BY <2>1, <2>2 DEF Named
  <1>3. /\ t \in B /\ B \in SUBSET DOMAIN in.tenants /\ Cross(in, B, sat) = B
        /\ \A X : t \in X /\ (\A ts \in SUBSET DOMAIN in.tenants : ts \subseteq X => Cross(in, ts, sat) \subseteq X)
                     => B \subseteq X
    BY <1>1, TenantsReached
  <1>4. /\ first \subseteq R /\ R \in SUBSET cfg.pipelines /\ Follow(cfg, R, sat) = R
        /\ \A X : first \subseteq X /\ (\A ps \in SUBSET cfg.pipelines : ps \subseteq X => Follow(cfg, ps, sat) \subseteq X)
                     => R \subseteq X
    <2>1. first # {}
      BY <1>2
    <2> QED BY <1>1, <2>1, PipelinesReached
  <1> HIDE DEF first
  <1>5. R \subseteq T
    <2>1. first \subseteq T
      BY <1>2, <1>3, <1>4 DEF Offered
    <2>2. ASSUME NEW ps \in SUBSET cfg.pipelines, ps \subseteq T PROVE Follow(cfg, ps, sat) \subseteq T
      <3>1. ASSUME NEW q \in cfg.pipelines, NEW p \in ps, Leads(cfg, p, q, sat) PROVE q \in T
        <4>1. Offered(in, B, sat, p)
          BY <2>2
        <4>2. Offered(in, B, sat, q)
          BY <1>3, <3>1, <4>1, OfferedClosed
        <4> QED BY <4>2
      <3> HIDE DEF T
      <3> QED BY <2>2, <3>1, FollowLeads
    <2> HIDE DEF T
    <2> QED BY <1>4, <2>1, <2>2
  <1>6. \A p \in R : \A q \in cfg.pipelines : Leads(cfg, p, q, sat) => q \in R
    BY <1>4, FollowLeads
  <1>7. B \subseteq G
    <2>1. t \in G
      BY <1>2, <1>4
    <2>2. ASSUME NEW ts \in SUBSET DOMAIN in.tenants, ts \subseteq G PROVE Cross(in, ts, sat) \subseteq G
      <3>1. ASSUME NEW b \in LastBridges(in), b.source \in ts, b.cond \in sat, NEW u, u = b.target PROVE u \in G
        <4>1. u \in DOMAIN in.tenants
          BY <1>1, <3>1 DEF LastBridges, ValidateConfigInput, ValidateSubscriptionsAndBridges
        <4>2. Root(in, u) \in cfg.pipelines
          BY <1>1, <4>1, PipelinesThere
        <4>3. PICK v : v = b.source
          OBVIOUS
        <4>4. Leads(cfg, Root(in, v), Root(in, u), sat)
          BY <3>1, <4>3, AlongBridge
        <4>5. Root(in, v) \in R
          BY <2>2, <3>1, <4>3
        <4> QED BY <1>6, <4>1, <4>2, <4>4, <4>5
      <3> HIDE DEF G
      <3> QED BY <2>2, <3>1 DEF Cross
    <2> HIDE DEF G
    <2> QED BY <1>3, <2>1, <2>2
  <1>8. ASSUME NEW u \in B, NEW s \in WantedSubscriptions(in, u, sat)
        PROVE  Branch(u, s) \in R /\ \A o \in OutputsOf(in, s) : Leaf(in, s, o) \in R
    <2>1. u \in DOMAIN in.tenants /\ s \in SubscriptionsOf(in, u) /\ Root(in, u) \in R
      BY <1>7, WantedListed
    <2>2. /\ Branch(u, s) \in cfg.pipelines
          /\ \A o \in OutputsOf(in, s) : Leaf(in, s, o) \in cfg.pipelines
      BY <1>1, <2>1, PipelinesThere
    <2>3. Leads(cfg, Root(in, u), Branch(u, s), sat)
      BY <2>1, AlongSubscription
    <2>4. Branch(u, s) \in R
      BY <1>6, <2>1, <2>2, <2>3
    <2>5. ASSUME NEW o \in OutputsOf(in, s) PROVE Leads(cfg, Branch(u, s), Leaf(in, s, o), sat)
      BY <2>1, <2>2, FromBranch
    <2> QED BY <1>6, <2>2, <2>4, <2>5
  <1>9. ASSUME NEW q, Offered(in, B, sat, q) PROVE q \in R
    BY <1>7, <1>8, <1>9 DEF Offered
  <1> QED BY <1>5, <1>9

\* The exporters of a configuration are no connectors.
LEMMA ExportersNamed ==
    ASSUME NEW in, Usable(in), NEW cfg, cfg = AssembleConfig(in)
    PROVE  /\ \A x \in cfg.exporters : Plain(x)
           /\ CountTenant \notin cfg.exporters /\ CountOutput \notin cfg.exporters /\ BytesExporter \notin cfg.exporters
  <1>1. cfg.exporters = GenerateExporters(in)
    BY DEF AssembleConfig
  <1>2. ASSUME NEW x \in cfg.exporters
        PROVE  Plain(x) /\ x # CountTenant /\ x # CountOutput /\ x # BytesExporter
    <2>1. CASE x \in {DebugExporter, PrometheusExporter}
      BY <2>1, PlainNames
         DEF CountTenant, CountOutput, BytesExporter, DebugExporter, PrometheusExporter
    <2>2. CASE \E o \in Outs(in) : Exported(in, o) /\ x = GetExporterNameForOutput(o)
      <3>1. PICK o \in Outs(in) : Exported(in, o) /\ x = GetExporterNameForOutput(o)
        BY <2>2
      <3>2. o.kind \in OutputKinds
        BY <3>1 DEF Exported, Usable
      <3>3. GetExporterNameForOutput(o) \notin {CountTenant, CountOutput, BytesExporter}
        BY <3>2 DEF GetExporterNameForOutput, OutputKinds, PersistentKinds, CountTenant, CountOutput, BytesExporter
      <3> QED BY <3>1, <3>2, <3>3, PlainNames
    <2> QED BY <1>1, <2>1, <2>2 DEF GenerateExporters, When
  <1> QED BY <1>2

\* Of what the pipelines on the way export to, only that of the outputs'
\* pipelines is an exporter.
LEMMA OnlyLeavesExport ==
    ASSUME NEW in, Usable(in), NEW cfg, cfg = AssembleConfig(in), NEW t, NEW s
    PROVE  Root(in, t).exporters \cap cfg.exporters = {} /\ Branch(t, s).exporters \cap cfg.exporters = {}
  <1>1. \A x \in OutgoingBridges(in, t) : x \notin cfg.exporters
    BY ExportersNamed DEF OutgoingBridges, Plain
  <1>2. TenantRoute(t) \notin cfg.exporters /\ SubscriptionRoute(s) \notin cfg.exporters
    BY ExportersNamed DEF Plain
  <1>3. CountTenant \notin cfg.exporters
    BY ExportersNamed
  <1> QED BY <1>1, <1>2, <1>3, RootFields, BranchFields DEF When

\* The exporters of an output's pipeline.
ExportersOf(in, copy) ==
    IF in.dryRun THEN {DebugExporter}
    ELSE When(in.debug, {DebugExporter}) \cup When(copy.kind # None, {GetExporterNameForOutput(copy)})
LEMMA LeafExports ==
    ASSUME NEW in, Usable(in), NEW cfg, cfg = AssembleConfig(in),
           NEW u \in DOMAIN in.tenants, NEW s \in SubscriptionsOf(in, u), NEW o \in OutputsOf(in, s)
    PROVE  Leaf(in, s, o).exporters \cap cfg.exporters = ExportersOf(in, FirstCopy(in, o))
  <1> DEFINE copy == FirstCopy(in, o)
  <1>1. Leaf(in, s, o).exporters = OutputExporters(in, copy) /\ cfg.exporters = GenerateExporters(in)
    BY LeafFields DEF AssembleConfig
  <1>2. copy \in Outs(in) /\ copy.name = o
    BY CopiesRead DEF Usable, Complete
  <1> HIDE DEF copy
  <1>3. copy.kind # None => Exported(in, copy)
    <2>1. u \in FindTenantForOutput(in, o)
      BY DEF FindTenantForOutput
    <2> QED BY <1>2, <2>1 DEF Exported
  <1>4. ASSUME in.dryRun
        PROVE  OutputExporters(in, copy) \cap GenerateExporters(in) = ExportersOf(in, copy)
    BY <1>4 DEF OutputExporters, GenerateExporters, ExportersOf
  <1>5. ASSUME ~in.dryRun
        PROVE  OutputExporters(in, copy) \cap GenerateExporters(in) = ExportersOf(in, copy)
    <2>1. CountOutput \notin GenerateExporters(in) /\ BytesExporter \notin GenerateExporters(in)
      BY <1>1, ExportersNamed
    <2>2. in.debug => DebugExporter \in GenerateExporters(in)
      BY <1>5 DEF GenerateExporters, When
    <2>3. copy.kind # None => GetExporterNameForOutput(copy) \in GenerateExporters(in)
      BY <1>2, <1>3, <1>5 DEF GenerateExporters
    <2> QED BY <1>5, <2>1, <2>2, <2>3 DEF OutputExporters, When, ExportersOf
  <1>6. OutputExporters(in, copy) \cap GenerateExporters(in) = ExportersOf(in, copy)
    BY <1>4, <1>5
  <1> QED BY <1>1, <1>6 DEF copy

(***************************************************************************)
(* The routing connectors and pipelines that AssembleConfig puts together  *)
(* (routing_connector.go, pipeline.go) offer a log of a tenant to exactly  *)
(* the exporters of the outputs of the subscriptions that match it, those  *)
(* of the tenant and of the tenants it is bridged to, one after another:   *)
(* no tenant's log gets to another tenant's output without a bridge. It    *)
(* holds for every input that is complete and valid and in which no bridge *)
(* was turned round, of any size, also if bridges form a cycle.            *)
(***************************************************************************)
THEOREM FlowsAsAsked ==
    ASSUME NEW in, Usable(in), NEW sat, "true" \in sat
    PROVE  FlowExact(in, AssembleConfig(in), sat)
  <1> DEFINE cfg == AssembleConfig(in)
  <1> SUFFICES ASSUME NEW t \in DOMAIN in.tenants
               PROVE  ReachedExporters(cfg, LogsTenant(t), sat) = WantedExporters(in, t, sat)
    BY DEF FlowExact
  <1> DEFINE B == BridgedTenants(in, t, sat)
             R == ReachedPipelines(cfg, LogsTenant(t), sat)
             wanted == WantedOutputs(in, t, sat)
             Exports(o) == ExportersOf(in, FirstCopy(in, o))
  <1>1. B \in SUBSET DOMAIN in.tenants
    BY TenantsReached DEF Usable
  <1>2. \A q : q \in R <=> Offered(in, B, sat, q)
    BY ReachedExactly
  <1>3. ReachedExporters(cfg, LogsTenant(t), sat) = UNION {q.exporters \cap cfg.exporters : q \in R}
    BY DEF ReachedExporters
  <1>4. \A o : o \in wanted <=> \E u \in B : \E s \in WantedSubscriptions(in, u, sat) : o \in OutputsOf(in, s)
    BY DEF WantedOutputs
  <1>5. \A u \in B : \A s \in WantedSubscriptions(in, u, sat) : \A o \in OutputsOf(in, s) :
          Leaf(in, s, o).exporters \cap cfg.exporters = Exports(o)
    <2> SUFFICES ASSUME NEW u \in B, NEW s \in WantedSubscriptions(in, u, sat), NEW o \in OutputsOf(in, s)
                 PROVE  Leaf(in, s, o).exporters \cap cfg.exporters = Exports(o)
      OBVIOUS
    <2>1. u \in DOMAIN in.tenants /\ s \in SubscriptionsOf(in, u)
      BY <1>1, WantedListed
    <2> QED BY <2>1, LeafExports
  <1>6. \A u, s : Root(in, u).exporters \cap cfg.exporters = {} /\ Branch(u, s).exporters \cap cfg.exporters = {}
    BY OnlyLeavesExport
  <1>7. WantedExporters(in, t, sat) = UNION {Exports(o) : o \in wanted}
    BY DEF WantedExporters, ExportersOf, When
  <1> HIDE DEF cfg, B, R, wanted, Exports
  <1>8. ASSUME NEW x, x \in UNION {q.exporters \cap cfg.exporters : q \in R} PROVE x \in UNION {Exports(o) : o \in wanted}
    <2>1. PICK q \in R : x \in q.exporters \cap cfg.exporters
      BY <1>8
    <2>2. PICK u \in B :
            \/ q = Root(in, u)
            \/ \E s \in WantedSubscriptions(in, u, sat) :
                 q = Branch(u, s) \/ \E o \in OutputsOf(in, s) : q = Leaf(in, s, o)
      BY <1>2 DEF Offered
    <2>3. PICK s \in WantedSubscriptions(in, u, sat) : \E o \in OutputsOf(in, s) : q = Leaf(in, s, o)
      BY <1>6, <2>1, <2>2
    <2>4. PICK o \in OutputsOf(in, s) : q = Leaf(in, s, o)
      BY <2>3
    <2>5. o \in wanted /\ x \in Exports(o)
      BY <1>4, <1>5, <2>1, <2>4
    <2> QED BY <2>5
  <1>9. ASSUME NEW o \in wanted, NEW x \in Exports(o) PROVE x \in UNION {q.exporters \cap cfg.exporters : q \in R}
    <2>1. PICK u \in B : \E s \in WantedSubscriptions(in, u, sat) : o \in OutputsOf(in, s)
      BY <1>4
    <2>2. PICK s \in WantedSubscriptions(in, u, sat) : o \in OutputsOf(in, s)
      BY <2>1
    <2>3. Leaf(in, s, o) \in R
      BY <1>2, <2>2 DEF Offered
    <2>4. x \in Leaf(in, s, o).exporters \cap cfg.exporters
      BY <1>5, <2>2
    <2> QED BY <2>3, <2>4
  <1> QED BY <1>3, <1>7, <1>8, <1>9
=============================================================================
