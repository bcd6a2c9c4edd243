--------------------------- MODULE WrittenProofs ---------------------------
(***************************************************************************)
(* What the collector controller has written to the OpenTelemetryCollector *)
(* and to the auth secret.                                                 *)
(***************************************************************************)
EXTENDS CollectorProofs

\* A write of another object leaves this one alone.
LEMMA OtherPut ==
    ASSUME ApiInv, NEW x \in Objects, NEW v, Put(x, v), NEW y \in Objects \ {x}
    PROVE  store'[y] = store[y] /\ CacheCurrent(y)' = CacheCurrent(y)
  BY PutStreams DEF ApiInv, CacheCurrent

\* ReconcileResource leaves the API alone or writes over the stored version.
LEMMA Reconciled ==
    ASSUME ApiInv, NEW child \in Children, NEW content, NEW outcome, ReconcileResource(child, content, outcome)
    PROVE  \/ UNCHANGED apiVars
           \/ /\ Put(child, Desired(child, content))
              /\ IF Exists(child) THEN cache[child] = store[child] ELSE ~store[child].exists
  <1>1. child \in Objects
    BY Kinds
  <1>2. CacheCurrent(child) => cache[child] = store[child]
    BY <1>1, StoredVersion DEF ApiInv
  <1> QED BY <1>2 DEF ReconcileResource

LEMMA TheChildren ==
    /\ {"role", "sa", "binding", "auth", "otel", Collector} \subseteq Objects
    /\ Children = {"role", "sa", "binding", "auth", "otel"} /\ Collector \notin Children
  BY Kinds DEF Children

\* What a step may do to the OpenTelemetryCollector.
OtelWritten ==
    /\ pc = "otel"
    /\ IF Exists("otel") THEN cache["otel"] = store["otel"] ELSE ~store["otel"].exists
    /\ \E layout \in Layouts(in, config) : store'["otel"] = Desired("otel", OtelCollector(in, config, layout))
OtelFinalized == store["otel"].exists /\ store'["otel"] = [store["otel"] EXCEPT !.finalizers = TRUE]
OtelEdited == "otel" \in DOMAIN EditValues /\ store'["otel"] \in EditValues["otel"]

LEMMA OtelStep ==
    ASSUME CollectorInv, [Next]_vars
    PROVE  store'["otel"] = store["otel"] \/ OtelWritten \/ OtelFinalized \/ OtelEdited
  <1> USE TheChildren
  <1>0. ApiInv
    BY DEF CollectorInv
  <1>1. CASE WorkerStep
    <2>1. CASE UNCHANGED store
      BY <2>1
    <2>2. ASSUME NEW outcome, NEW i \in DOMAIN Rbac, ReconcileRBAC(Rbac[i], outcome) PROVE store'["otel"] = store["otel"]
      <3>1. Rbac[i] \in {"role", "sa", "binding"}
        BY DEF Rbac
      <3>2. ReconcileResource(Rbac[i], "fixed", outcome)
        BY <2>2 DEF ReconcileRBAC
      <3>3. UNCHANGED apiVars \/ Put(Rbac[i], Desired(Rbac[i], "fixed"))
        BY <1>0, <3>1, <3>2, Reconciled
      <3> QED BY <1>0, <3>1, <3>3, OtherPut DEF apiVars
    <2>3. ASSUME NEW outcome, ReconcileAuthSecret(outcome) PROVE store'["otel"] = store["otel"]
      <3>1. UNCHANGED apiVars \/ Put("auth", Desired("auth", AuthSecret(in)))
        BY <1>0, <2>3, Reconciled DEF ReconcileAuthSecret
      <3> QED BY <1>0, <3>1, OtherPut DEF apiVars
    <2>4. ASSUME NEW outcome, ReconcileOtelCollector(outcome) PROVE store'["otel"] = store["otel"] \/ OtelWritten
      <3>1. PICK layout \in Layouts(in, config) : ReconcileResource("otel", OtelCollector(in, config, layout), outcome)
        BY <2>4 DEF ReconcileOtelCollector
      <3>2. CASE UNCHANGED apiVars
        BY <3>2 DEF apiVars
      <3>3. CASE /\ Put("otel", Desired("otel", OtelCollector(in, config, layout)))
                 /\ IF Exists("otel") THEN cache["otel"] = store["otel"] ELSE ~store["otel"].exists
        <4>1. store'["otel"] = Desired("otel", OtelCollector(in, config, layout))
          BY <1>0, <3>3, PutStreams DEF ApiInv
        <4> QED BY <2>4, <3>3, <4>1 DEF OtelWritten, ReconcileOtelCollector, At
      <3> QED BY <1>0, <3>1, <3>2, <3>3, Reconciled
    <2>5. CASE Publish
      <3>1. UNCHANGED apiVars \/ Put(Collector, own)
        BY <2>5 DEF Publish
      <3> QED BY <1>0, <3>1, OtherPut DEF apiVars
    <2> QED BY <1>1, <2>1, <2>2, <2>3, <2>4, <2>5
            DEF WorkerStep, ListTenants, TenantsRead, GetSecret, Assemble, CheckConfig, VisitTenant, GetSubscription,
                VisitSubscription, GetBridge, GetOutput, apiVars
  <1>2. CASE Environment
    <2>1. ASSUME NEW x \in DOMAIN EditValues \ {Collector}, NEW v \in EditValues[x], Edit(x, v)
          PROVE  store'["otel"] = store["otel"] \/ OtelEdited
      <3>1. Put(x, v) /\ x \in Objects
        BY <2>1, Edited DEF Edit
      <3>2. CASE x = "otel"
        BY <1>0, <3>1, <3>2, PutStreams DEF ApiInv, OtelEdited
      <3>3. CASE x # "otel"
        BY <1>0, <3>1, <3>3, OtherPut
      <3> QED BY <3>2, <3>3
    <2>2. ASSUME NEW spec, EditCollector(spec) PROVE store'["otel"] = store["otel"]
      BY <1>0, <2>2, OtherPut DEF EditCollector, Edit
    <2>3. CASE NamespaceEvent
      BY <2>3 DEF NamespaceEvent, apiVars
    <2>4. CASE AddFinalizer
      <3>1. Put("otel", [store["otel"] EXCEPT !.finalizers = TRUE]) /\ store["otel"].exists
        BY <2>4 DEF AddFinalizer, Edit
      <3> QED BY <1>0, <3>1, PutStreams DEF ApiInv, OtelFinalized
    <2> QED BY <1>2, <2>1, <2>2, <2>3, <2>4 DEF Environment
  <1>3. CASE UNCHANGED store
    BY <1>3
  <1> QED BY <1>1, <1>2, <1>3
          DEF Next, StartReconcile, StartError, ReadError, DeliverEvent, Deliver, Restart, InitialSync, vars, apiVars

(***************************************************************************)
(* An update of the OpenTelemetryCollector (ReconcileResource with the     *)
(* hook in OtelCollector) never takes away the finalizer of the otel       *)
(* operator, although the hook copies the finalizers of an object read     *)
(* from the cache, as long as others do not take it away either.           *)
(***************************************************************************)
THEOREM FinalizersKept ==
    ASSUME OthersKeepFinalizers
    PROVE  Spec => KeepsFinalizers
  <1> DEFINE Kept == store["otel"].exists /\ store'["otel"].exists /\ store["otel"].finalizers
                        => store'["otel"].finalizers
  <1>1. CollectorInv /\ [Next]_vars => [Kept]_vars
    <2> SUFFICES ASSUME CollectorInv, [Next]_vars PROVE Kept
      OBVIOUS
    <2>1. CASE OtelWritten
      BY <2>1 DEF OtelWritten, Desired, Child
    <2>2. CASE OtelFinalized
      <3>1. DOMAIN store["otel"] = {"exists", "content", "finalizers"}
        BY <2>2, TheChildren, Read, Edited DEF CollectorInv, OtelFinalized
      <3> QED BY <2>2, <3>1 DEF OtelFinalized
    <2>3. CASE OtelEdited
      BY <2>3 DEF OtelEdited, OthersKeepFinalizers
    <2> QED BY <2>1, <2>2, <2>3, OtelStep
  <1> QED BY <1>1, CollectorInvariant, PTL DEF Spec, KeepsFinalizers

-----------------------------------------------------------------------------
(* The configuration that is written *)

\* What the worker holds is not touched by anybody else.
WorkerLeftAlone == UNCHANGED <<pc, own, listed, todo, need, in, config, errs>>

\* What a step may do to the worker, as far as it concerns the configuration.
LEMMA ConfigStep ==
    ASSUME CollectorInv, [Next]_vars
    PROVE  \/ WorkerLeftAlone
           \/ pc' \in {"idle", "list", "tenants", "subscriptions", "secret", "publish"}
           \/ /\ pc = "subscriptions" /\ pc' = "assembled" /\ in' = in
              /\ ValidateConfigInput(in) /\ config' = AssembleConfig(in)
           \/ /\ pc = "assembled" /\ pc' = "role" /\ in' = in /\ config' = config
              /\ ValidateAssembledConfig(config)
           \/ pc \in Children /\ pc' \in Children /\ in' = in /\ config' = config
  <1> DEFINE Out == pc' \in {"idle", "list", "tenants", "subscriptions", "secret", "publish"}
  <1>1. ASSUME NEW kind, HandleError(kind) PROVE Out
    BY <1>1 DEF HandleError, BecomeIdle
  <1>2. CASE WorkerStep
    <2>1. CASE ListTenants \/ TenantsRead \/ GetSecret \/ Publish
      BY <1>1, <2>1 DEF ListTenants, TenantsRead, GetSecret, Publish, BecomeIdle
    <2>2. CASE Assemble
      BY <1>1, <2>2 DEF Assemble, At
    <2>3. CASE CheckConfig
      BY <1>1, <2>3 DEF CheckConfig, Accepted, At
    <2>4. CASE \E t \in Tenants : VisitTenant(t)
      BY <1>1, <2>4 DEF VisitTenant, At
    <2>5. CASE \E s \in Subscriptions : GetSubscription(s) \/ VisitSubscription(s)
      BY <1>1, <2>5 DEF GetSubscription, VisitSubscription, At
    <2>6. CASE (\E b \in Bridges : GetBridge(b)) \/ \E o \in Outputs : GetOutput(o)
      BY <1>1, <2>6 DEF GetBridge, GetOutput, At
    <2>7. ASSUME NEW outcome \in Outcomes, NEW i \in DOMAIN Rbac, ReconcileRBAC(Rbac[i], outcome)
          PROVE  Out \/ (pc \in Children /\ pc' \in Children /\ in' = in /\ config' = config)
      <3>1. Rbac[i] \in {"role", "sa", "binding"}
        BY DEF Rbac
      <3>2. pc \in Children /\ AfterRbac(Rbac[i]) \in Children
        BY <2>7, <3>1 DEF ReconcileRBAC, At, AfterRbac, Children
      <3> QED BY <1>1, <2>7, <3>2 DEF ReconcileRBAC
    <2>8. ASSUME NEW outcome \in Outcomes, ReconcileAuthSecret(outcome)
          PROVE  Out \/ (pc \in Children /\ pc' \in Children /\ in' = in /\ config' = config)
      BY <1>1, <2>8 DEF ReconcileAuthSecret, At, Children
    <2>9. ASSUME NEW outcome \in Outcomes, ReconcileOtelCollector(outcome) PROVE Out
      BY <1>1, <2>9 DEF ReconcileOtelCollector
    <2> QED BY <1>2, <2>1, <2>2, <2>3, <2>4, <2>5, <2>6, <2>7, <2>8, <2>9 DEF WorkerStep
  <1>3. CASE StartReconcile
    BY <1>3 DEF StartReconcile, WorkerLeftAlone, workerVars
  <1>4. CASE StartError \/ ReadError \/ Restart \/ \E x \in Objects : DeliverEvent(x)
    BY <1>1, <1>4 DEF StartError, ReadError, Restart, DeliverEvent, BecomeIdle, WorkerLeftAlone, workerVars
  <1>5. CASE Environment
    BY <1>5 DEF Environment, EditCollector, AddFinalizer, Edit, NamespaceEvent, WorkerLeftAlone, workerVars
  <1>6. CASE UNCHANGED vars
    BY <1>6 DEF vars, workerVars, WorkerLeftAlone
  <1> QED BY <1>2, <1>3, <1>4, <1>5, <1>6 DEF Next

\* The copies of a bridge agree on its ends.
LEMMA BridgesConsistent == ASSUME CollectorInv, BridgesKeepEnds PROVE ConsistentBridges(in)
  <1> SUFFICES ASSUME NEW i \in DOMAIN in.bridges, NEW j \in DOMAIN in.bridges,
                      in.bridges[i].name = in.bridges[j].name
               PROVE  in.bridges[i].source = in.bridges[j].source /\ in.bridges[i].target = in.bridges[j].target
    BY DEF ConsistentBridges
  <1>1. PICK b \in Bridges : \E v \in Proposed(b) : v # Absent /\ in.bridges[i] = BridgeInput(b, Full(b, v))
    BY DEF CollectorInv, InputInv
  <1>2. PICK c \in Bridges : \E v \in Proposed(c) : v # Absent /\ in.bridges[j] = BridgeInput(c, Full(c, v))
    BY DEF CollectorInv, InputInv
  <1>3. b = c
    BY <1>1, <1>2 DEF BridgeInput
  <1> QED BY <1>1, <1>2, <1>3 DEF BridgeInput, BridgesKeepEnds

\* What otelcol's own check accepts resolves altogether.
LEMMA AcceptedResolves ==
    ASSUME CollectorInv, BridgesKeepEnds, pc = "assembled", ValidateConfigInput(in), ValidateAssembledConfig(AssembleConfig(in))
    PROVE  Resolves(AssembleConfig(in))
  <1>1. Complete(in)
    BY DEF CollectorInv, ReadInv
  <1>2. in.bridges \in Seq({in.bridges[i] : i \in DOMAIN in.bridges})
    BY DEF CollectorInv, InputInv
  <1>3. RoutesResolve(AssembleConfig(in))
    BY <1>1, <1>2, BridgesConsistent, RoutesAlwaysResolve
  <1> QED BY <1>3, ExtensionsAlwaysResolve DEF Resolves, ValidateAssembledConfig

LEMMA ResolveStep ==
    ASSUME BridgesKeepEnds, OthersResolve, CollectorInv, ResolveInv, [Next]_vars
    PROVE  ResolveInv'
  <1>1. WrittenResolves'
    <2>1. CASE store'["otel"] = store["otel"]
      BY <2>1 DEF ResolveInv, WrittenResolves
    <2>2. CASE OtelWritten
      <3>1. Resolves(config)
        BY <2>2 DEF OtelWritten, ResolveInv, Children
      <3>2. store'["otel"].content.config = config
        BY <2>2 DEF OtelWritten, Desired, Child, OtelCollector
      <3> QED BY <3>1, <3>2 DEF WrittenResolves
    <2>3. CASE OtelFinalized
      <3>1. DOMAIN store["otel"] = {"exists", "content", "finalizers"}
        BY <2>3, TheChildren, Read, Edited DEF CollectorInv, OtelFinalized
      <3>2. store'["otel"].content = store["otel"].content
        BY <2>3, <3>1 DEF OtelFinalized
      <3> QED BY <2>3, <3>2 DEF OtelFinalized, ResolveInv, WrittenResolves
    <2>4. CASE OtelEdited
      BY <2>4, Edited DEF OtelEdited, OthersResolve, WrittenResolves
    <2> QED BY <2>1, <2>2, <2>3, <2>4, OtelStep
  <1>2. (pc = "assembled" => config = AssembleConfig(in) /\ ValidateConfigInput(in))'
    BY ConfigStep DEF WorkerLeftAlone, ResolveInv, Children
  <1>3. (pc \in Children => Resolves(config))'
    <2>1. CASE pc = "assembled" /\ pc' = "role" /\ config' = config /\ ValidateAssembledConfig(config)
      BY <2>1, AcceptedResolves DEF ResolveInv
    <2>2. CASE pc \in Children /\ config' = config
      BY <2>2 DEF ResolveInv
    <2>3. CASE pc' = "assembled" \/ pc' \in {"idle", "list", "tenants", "subscriptions", "secret", "publish"}
      BY <2>3 DEF Children
    <2>4. CASE WorkerLeftAlone
      BY <2>4 DEF WorkerLeftAlone, ResolveInv
    <2> QED BY <2>1, <2>2, <2>3, <2>4, ConfigStep
  <1> QED BY <1>1, <1>2, <1>3 DEF ResolveInv

LEMMA ResolveInitially == ASSUME OthersResolve, Init PROVE ResolveInv
  <1>1. PICK scenario \in Scenarios :
          store = [x \in Objects |-> IF x \in DOMAIN scenario.objects THEN scenario.objects[x] ELSE Absent]
    BY DEF Init
  <1>2. store["otel"] \in Proposed("otel")
    BY <1>1, TheChildren DEF Proposed
  <1> QED BY <1>2 DEF Init, ResolveInv, OthersResolve, WrittenResolves, Children

(***************************************************************************)
(* Whatever is written to the OpenTelemetryCollector resolves: pipelines,  *)
(* routing tables, storages and authenticators refer to something in the   *)
(* same configuration, however stale and torn the reads of                 *)
(* BuildConfigInputForCollector were, through all errors, conflicts and    *)
(* restarts. It is assumed that no bridge is turned round, and that others *)
(* do not write a configuration that does not resolve.                     *)
(***************************************************************************)
THEOREM WrittenAlwaysResolves ==
    ASSUME BridgesKeepEnds, OthersResolve
    PROVE  Spec => []WrittenResolves
  <1>1. Init => ResolveInv
    BY ResolveInitially
  <1>2. CollectorInv /\ ResolveInv /\ [Next]_vars => ResolveInv'
    BY ResolveStep
  <1>3. ResolveInv => WrittenResolves
    BY DEF ResolveInv
  <1> QED BY <1>1, <1>2, <1>3, CollectorInvariant, PTL DEF Spec

-----------------------------------------------------------------------------
(* Where it sends the logs *)

\* What the worker has read can be assembled.
LEMMA InputUsable ==
    ASSUME CollectorInv, BridgesKeepEnds, pc = "assembled", ValidateConfigInput(in)
    PROVE  Usable(in)
  <1>1. Complete(in) /\ ConsistentBridges(in)
    BY BridgesConsistent DEF CollectorInv, ReadInv
  <1>2. /\ in.bridges \in Seq({in.bridges[i] : i \in DOMAIN in.bridges}) /\ in.outputs \in Seq(Outs(in))
        /\ \A o \in Outs(in) : o.kind \in OutputKinds \cup {None}
    BY DEF CollectorInv, InputInv
  <1>3. IsFiniteSet(DOMAIN in.tenants)
    BY KindsAssumption, FS_Subset DEF CollectorInv, TypeOK
  <1>4. ASSUME NEW t \in DOMAIN in.tenants PROVE IsFiniteSet(SubscriptionsOf(in, t))
    <2>1. SubscriptionsOf(in, t) \subseteq Subscriptions
      BY DEF CollectorInv, TypeOK, InputInv, SubscriptionsOf
    <2> QED BY <2>1, KindsAssumption, FS_Subset
  <1>5. ASSUME NEW s \in DOMAIN in.subs PROVE IsFiniteSet(OutputsOf(in, s))
    <2>1. OutputsOf(in, s) \subseteq Outputs
      BY DEF CollectorInv, InputInv, OutputsOf
    <2> QED BY <2>1, KindsAssumption, FS_Subset
  <1> QED BY <1>1, <1>2, <1>3, <1>4, <1>5 DEF Usable

(***************************************************************************)
(* What the collector controller assembles (BuildConfigInputForCollector,  *)
(* AssembleConfig) offers a log of a tenant to exactly the exporters of    *)
(* the outputs the tenant's matching subscriptions ask for, and those of   *)
(* the tenants it is bridged to, in whatever order and however stale the   *)
(* resources were read, and whatever conditions the log meets. It is       *)
(* assumed that no bridge is turned round.                                 *)
(***************************************************************************)
THEOREM AlwaysRoutedAsAsked ==
    ASSUME BridgesKeepEnds
    PROVE  Spec => []RoutedAsAsked
  <1> DEFINE Valid == pc = "assembled" => config = AssembleConfig(in) /\ ValidateConfigInput(in)
  <1>1. Init => Valid
    BY DEF Init
  <1>2. CollectorInv /\ Valid /\ [Next]_vars => Valid'
    BY ConfigStep DEF WorkerLeftAlone, Children
  <1>3. CollectorInv /\ Valid => RoutedAsAsked
    <2> SUFFICES ASSUME CollectorInv, Valid, pc = "assembled", NEW sat \in SUBSET Conditions
                 PROVE  FlowExact(in, config, sat \cup {"true"})
      BY DEF RoutedAsAsked, At
    <2>1. Usable(in) /\ "true" \in sat \cup {"true"}
      BY InputUsable
    <2>2. FlowExact(in, AssembleConfig(in), sat \cup {"true"})
      BY <2>1, FlowsAsAsked
    <2> QED BY <2>2
  <1> QED BY <1>1, <1>2, <1>3, CollectorInvariant, PTL DEF Spec

-----------------------------------------------------------------------------
(* Where what has been read comes from *)

SubscriptionRead(s) == Exists(s) /\ in' = [in EXCEPT !.subs = Entry(@, s, SubscriptionInput(Cached(s)))]
BridgeRead(b) == Exists(b) /\ in' = [in EXCEPT !.bridges = Append(@, BridgeInput(b, Cached(b)))]
OutputRead(o) ==
    /\ pc = "subscriptions" /\ Exists(o)
    /\ in' = [in EXCEPT !.outputs = Append(@, OutputInput(o, Cached(o), NoData))]
    /\ pc' = IF Cached(o).auth # None THEN "secret" ELSE pc
WithSecret(out) == [out EXCEPT !.cred = cache[SecretOf[out.name]].data]
SecretRead ==
    /\ pc = "secret" /\ pc' = "subscriptions" /\ Exists(SecretOf[in.outputs[Len(in.outputs)].name])
    /\ in.outputs[Len(in.outputs)].auth \in AuthMethods
    /\ in' = [in EXCEPT !.outputs[Len(in.outputs)].cred = cache[SecretOf[in.outputs[Len(in.outputs)].name]].data]

\* What a step may do to the input.
LEMMA InputStep ==
    ASSUME CollectorInv, [Next]_vars
    PROVE  \/ in' = in /\ listed' = listed /\ (pc = "secret" => pc' = "secret")
           \/ Forget /\ pc' \in {"idle", "publish"}
           \/ ListTenants
           \/ /\ UNCHANGED <<apiVars, own, listed, config>> /\ pc # "idle"
              /\ \/ \E s \in Subscriptions : GetSubscription(s) /\ SubscriptionRead(s) /\ pc' = pc
                 \/ \E b \in Bridges : GetBridge(b) /\ BridgeRead(b) /\ pc' = pc
                 \/ \E o \in Outputs : GetOutput(o) /\ OutputRead(o)
                 \/ GetSecret /\ SecretRead
  <1> DEFINE Same == in' = in /\ listed' = listed /\ (pc = "secret" => pc' = "secret")
             Gone == Forget /\ pc' \in {"idle", "publish"}
  <1>1. ASSUME NEW kind, HandleError(kind) PROVE Gone
    BY <1>1 DEF HandleError, BecomeIdle
  <1>2. CASE WorkerStep
    <2>1. CASE ListTenants
      BY <2>1
    <2>2. CASE TenantsRead \/ Assemble \/ CheckConfig \/ Publish
      BY <1>1, <2>2 DEF TenantsRead, Assemble, CheckConfig, Publish, BecomeIdle, At
    <2>3. CASE GetSecret
      BY <1>1, <2>3 DEF GetSecret, SecretRead, At
    <2>4. CASE \E t \in Tenants : VisitTenant(t)
      BY <1>1, <2>4 DEF VisitTenant, At
    <2>5. CASE \E s \in Subscriptions : GetSubscription(s)
      BY <1>1, <2>5 DEF GetSubscription, SubscriptionRead, At
    <2>6. CASE \E b \in Bridges : GetBridge(b)
      BY <1>1, <2>6 DEF GetBridge, BridgeRead, At
    <2>7. CASE \E s \in Subscriptions : VisitSubscription(s)
      BY <2>7 DEF VisitSubscription, At
    <2>8. CASE \E o \in Outputs : GetOutput(o)
      BY <1>1, <2>8 DEF GetOutput, OutputRead, At
    <2>9. ASSUME NEW outcome \in Outcomes, NEW i \in DOMAIN Rbac, ReconcileRBAC(Rbac[i], outcome) PROVE Same \/ Gone
      <3>1. Rbac[i] # "secret"
        BY DEF Rbac
      <3> QED BY <1>1, <2>9, <3>1 DEF ReconcileRBAC, At
    <2>10. ASSUME NEW outcome \in Outcomes, ReconcileAuthSecret(outcome) \/ ReconcileOtelCollector(outcome) PROVE Same \/ Gone
      BY <1>1, <2>10 DEF ReconcileAuthSecret, ReconcileOtelCollector, At
    <2> QED BY <1>2, <2>1, <2>2, <2>3, <2>4, <2>5, <2>6, <2>7, <2>8, <2>9, <2>10 DEF WorkerStep
  <1>3. CASE StartReconcile
    BY <1>3 DEF StartReconcile, At, workerVars
  <1>4. CASE StartError \/ ReadError \/ Restart \/ \E x \in Objects : DeliverEvent(x)
    BY <1>1, <1>4 DEF StartError, ReadError, Restart, DeliverEvent, BecomeIdle, workerVars
  <1>5. CASE Environment
    BY <1>5 DEF Environment, EditCollector, AddFinalizer, Edit, NamespaceEvent, workerVars
  <1>6. CASE UNCHANGED vars
    BY <1>6 DEF vars, workerVars
  <1> QED BY <1>2, <1>3, <1>4, <1>5, <1>6 DEF Next

\* The outputs after one was read: the new one is the last.
LEMMA OutputAdded ==
    ASSUME CollectorInv, NEW o \in Outputs, OutputRead(o),
           NEW new, new = OutputInput(o, Cached(o), NoData), NEW n, n = Len(in.outputs)
    PROVE  /\ in'.outputs = Append(in.outputs, new) /\ Outs(in)' = Outs(in) \cup {new}
           /\ n \in Nat /\ DOMAIN in.outputs = 1 .. n
           /\ DOMAIN in'.outputs = 1 .. (n + 1) /\ Len(in'.outputs) = n + 1 /\ in'.outputs[n + 1] = new
           /\ \A i \in 1 .. n : in'.outputs[i] = in.outputs[i]
  <1>1. in'.outputs = Append(in.outputs, new)
    BY DEF OutputRead, CollectorInv, InputInv
  <1>2. in.outputs \in Seq(Outs(in))
    BY DEF CollectorInv, InputInv
  <1>3. Outs(in) = {in.outputs[i] : i \in DOMAIN in.outputs} /\ Outs(in)' = {in'.outputs[i] : i \in DOMAIN in'.outputs}
    BY DEF Outs
  <1>4. Outs(in)' = Outs(in) \cup {new}
    BY <1>1, <1>2, <1>3, Longer, SMTT(30)
  <1>5. in.outputs \in Seq(Outs(in) \cup {new})
    BY <1>2
  <1> QED BY <1>1, <1>4, <1>5, AppendProperties, LenProperties

\* The outputs after a secret was read: the last one has its data.
LEMMA SecretAdded ==
    ASSUME CollectorInv, SecretRead,
           NEW last, last = Len(in.outputs), NEW out, out = in.outputs[last],
           NEW new, new = WithSecret(out)
    PROVE  /\ last \in DOMAIN in.outputs /\ out \in Outs(in) /\ DOMAIN out = OutputFields /\ out.name \in Outputs
           /\ in'.outputs = [in.outputs EXCEPT ![last] = new]
           /\ DOMAIN in'.outputs = DOMAIN in.outputs /\ in'.outputs[last] = new
           /\ \A i \in DOMAIN in.outputs \ {last} : in'.outputs[i] = in.outputs[i]
           /\ Len(in'.outputs) = Len(in.outputs)
  <1>1. in.outputs # <<>> /\ in.outputs \in Seq(Outs(in))
    BY DEF SecretRead, CollectorInv, ReadInv, InputInv
  <1>2. last \in DOMAIN in.outputs /\ out \in Outs(in)
    BY <1>1, EmptySeq, LenProperties DEF Outs
  <1>3. DOMAIN out = OutputFields /\ out.name \in Outputs
    BY <1>2 DEF CollectorInv, InputInv
  <1>4. in'.outputs = [in.outputs EXCEPT ![last] = new]
    BY DEF SecretRead, WithSecret, CollectorInv, InputInv
  <1>5. /\ DOMAIN in'.outputs = DOMAIN in.outputs /\ in'.outputs[last] = new
        /\ \A i \in DOMAIN in.outputs \ {last} : in'.outputs[i] = in.outputs[i]
    BY <1>2, <1>4
  <1>6. Len(in'.outputs) = Len(in.outputs)
    <2>1. in'.outputs \in [DOMAIN in.outputs -> {in'.outputs[i] : i \in DOMAIN in.outputs}]
      BY <1>4
    <2>2. in'.outputs \in Seq({in'.outputs[i] : i \in DOMAIN in.outputs})
      BY <1>1, <2>1, SameLength
    <2>3. /\ DOMAIN in'.outputs = 1 .. Len(in'.outputs) /\ Len(in'.outputs) \in Nat
          /\ DOMAIN in.outputs = 1 .. Len(in.outputs) /\ Len(in.outputs) \in Nat
      BY <1>1, <2>2, LenProperties
    <2>4. last \in 1 .. Len(in'.outputs) /\ Len(in'.outputs) \in 1 .. Len(in'.outputs)
      BY <1>2, <1>5, <2>3
    <2>5. Len(in'.outputs) \in 1 .. last
      BY <1>5, <2>3, <2>4
    <2> QED BY <2>3, <2>4, <2>5
  <1> QED BY <1>2, <1>3, <1>4, <1>5, <1>6

\* What changes a collector in the store leaves what it was given.
LEMMA CollectorVersions ==
    ASSUME CollectorInv, OriginInv, [Next]_vars
    PROVE  \A v \in Versions(Collector)' \ {Absent} : GivenFrom(v.given)
  <1> DEFINE Good == \A v \in Versions(Collector)' \ {Absent} : GivenFrom(v.given)
  <1>0. ApiInv /\ Streams /\ CacheCoherent /\ Collector \in Objects
    BY Kinds DEF CollectorInv, ApiInv
  <1>1. ASSUME NEW x \in Objects, NEW v, Put(x, v), x = Collector => v = Absent \/ GivenFrom(v.given) PROVE Good
    <2>1. Versions(Collector)' \subseteq Versions(Collector) \cup (IF x = Collector THEN {v} ELSE {})
      BY <1>0, <1>1, PutStreams
    <2> QED BY <1>1, <2>1 DEF OriginInv
  <1>2. ASSUME UNCHANGED apiVars PROVE Good
    BY <1>2, StutterStreams DEF OriginInv
  <1>3. ASSUME NEW child \in Children, NEW content, NEW outcome, ReconcileResource(child, content, outcome) PROVE Good
    BY <1>0, <1>1, <1>2, <1>3, Reconciled, Kinds
  <1>4. CASE WorkerStep
    <2>1. CASE Publish
      <3>1. UNCHANGED apiVars \/ Put(Collector, own)
        BY <2>1 DEF Publish
      <3>2. GivenFrom(own.given)
        BY <2>1 DEF Publish, At, OriginInv
      <3> QED BY <1>0, <1>1, <1>2, <3>1, <3>2
    <2>2. ASSUME NEW outcome, NEW i \in DOMAIN Rbac, ReconcileRBAC(Rbac[i], outcome) PROVE Good
      <3>1. Rbac[i] \in Children
        BY DEF Rbac, Children
      <3> QED BY <1>3, <2>2, <3>1 DEF ReconcileRBAC
    <2>3. ASSUME NEW outcome, ReconcileAuthSecret(outcome) \/ ReconcileOtelCollector(outcome) PROVE Good
      BY <1>3, <2>3, TheChildren DEF ReconcileAuthSecret, ReconcileOtelCollector
    <2>4. CASE UNCHANGED apiVars
      BY <1>2, <2>4
    <2> QED BY <1>4, <2>1, <2>2, <2>3, <2>4
            DEF WorkerStep, ListTenants, TenantsRead, GetSecret, Assemble, CheckConfig, VisitTenant, GetSubscription,
                VisitSubscription, GetBridge, GetOutput
  <1>5. CASE Environment
    <2>1. ASSUME NEW x \in DOMAIN EditValues \ {Collector}, NEW v \in EditValues[x], Edit(x, v) PROVE Good
      BY <1>1, <2>1, Edited DEF Edit
    <2>2. ASSUME NEW spec \in EditValues[Collector], EditCollector(spec) PROVE Good
      <3>1. Put(Collector, Applied(spec)) /\ spec \in Proposed(Collector) /\ WellFormed(Collector, spec)
        BY <2>2, Edited, ObjectsAssumption DEF EditCollector, Edit
      <3>2. CASE spec = Absent
        BY <1>0, <1>1, <3>1, <3>2 DEF Applied, Absent
      <3>3. CASE spec # Absent /\ DOMAIN spec = CollectorFields
        <4>1. Applied(spec).given = spec.given
          BY <3>3 DEF Applied, CollectorFields
        <4> QED BY <1>0, <1>1, <3>1, <3>3, <4>1 DEF GivenFrom
      <3> QED BY <3>1, <3>2, <3>3, Edited
    <2>3. CASE NamespaceEvent
      BY <1>2, <2>3 DEF NamespaceEvent
    <2>4. CASE AddFinalizer
      BY <1>1, <2>4, TheChildren DEF AddFinalizer, Edit
    <2> QED BY <1>5, <2>1, <2>2, <2>3, <2>4 DEF Environment
  <1>6. ASSUME NEW x \in Objects, DeliverEvent(x) PROVE Good
    <2>1. Versions(Collector)' \subseteq Versions(Collector)
      BY <1>0, <1>6, DeliverStreams DEF DeliverEvent
    <2> QED BY <2>1 DEF OriginInv
  <1>7. CASE Restart
    <2>1. Versions(Collector)' \subseteq Versions(Collector)
      <3>1. Versions(Collector)' = {store[Collector]}
        BY <1>0, <1>7, SyncStreams DEF Restart
      <3> QED BY <1>0, <3>1, StoredVersion
    <2> QED BY <2>1 DEF OriginInv
  <1>8. CASE StartReconcile \/ StartError \/ ReadError \/ UNCHANGED vars
    BY <1>2, <1>8 DEF StartReconcile, StartError, ReadError, vars
  <1> QED BY <1>4, <1>5, <1>6, <1>7, <1>8 DEF Next

\* What is read of tenants and outputs is what others made of them.
LEMMA OriginRead ==
    ASSUME CollectorInv, OriginInv, [Next]_vars
    PROVE  /\ \A t \in DOMAIN in'.tenants : \E v \in Proposed(t) \ {Absent} : in'.tenants[t] = TenantInput(Full(t, v))
           /\ \A o \in Outs(in)' : \E v \in Proposed(o.name) \ {Absent} : o = OutputInput(o.name, Full(o.name, v), o.cred)
  <1> DEFINE FromTenant(t, r) == \E v \in Proposed(t) \ {Absent} : r = TenantInput(Full(t, v))
             FromOutput(o) == \E v \in Proposed(o.name) \ {Absent} : o = OutputInput(o.name, Full(o.name, v), o.cred)
  <1>1. (\A t \in DOMAIN in.tenants : FromTenant(t, in.tenants[t])) /\ \A o \in Outs(in) : FromOutput(o)
    BY DEF OriginInv
  <1> SUFFICES (\A t \in DOMAIN in'.tenants : FromTenant(t, in'.tenants[t])) /\ \A o \in Outs(in)' : FromOutput(o)
    OBVIOUS
  <1>2. ASSUME NEW x \in Sources, Exists(x) PROVE cache[x] \in Proposed(x) \ {Absent}
    BY <1>2, Read, Kinds DEF CollectorInv, Exists
  <1>3. ASSUME in'.tenants = in.tenants, in'.outputs = in.outputs
        PROVE  (\A t \in DOMAIN in'.tenants : FromTenant(t, in'.tenants[t])) /\ \A o \in Outs(in)' : FromOutput(o)
    <2> HIDE DEF FromTenant, FromOutput
    <2> QED BY <1>1, <1>3 DEF Outs
  <1>4. ASSUME in'.outputs = <<>> PROVE Outs(in)' = {}
    BY <1>4, EmptySeq DEF Outs
  <1>5. CASE Forget
    BY <1>4, <1>5, EmptySeq DEF Forget, NoInput
  <1>6. CASE ListTenants
    <2>1. /\ in'.outputs = <<>> /\ DOMAIN in'.tenants = SelectedTenants
          /\ \A t \in SelectedTenants : in'.tenants[t] = TenantInput(Full(t, cache[t]))
      BY <1>6 DEF ListTenants, OtelColConfigInput, Cached
    <2>2. \A t \in SelectedTenants : cache[t] \in Proposed(t) \ {Absent}
      BY <1>2, Kinds DEF SelectedTenants
    <2> QED BY <1>4, <2>1, <2>2
  <1>7. CASE \E s \in Subscriptions : SubscriptionRead(s)
    BY <1>3, <1>7 DEF SubscriptionRead, CollectorInv, InputInv
  <1>8. CASE \E b \in Bridges : BridgeRead(b)
    BY <1>3, <1>8 DEF BridgeRead, CollectorInv, InputInv
  <1>9. ASSUME NEW o \in Outputs, OutputRead(o)
        PROVE  (\A t \in DOMAIN in'.tenants : FromTenant(t, in'.tenants[t])) /\ \A c \in Outs(in)' : FromOutput(c)
    <2> DEFINE new == OutputInput(o, Cached(o), NoData)
    <2>1. Outs(in)' = Outs(in) \cup {new}
      BY <1>9, OutputAdded
    <2>2. FromOutput(new)
      <3>1. cache[o] \in Proposed(o) \ {Absent}
        BY <1>2, <1>9, Kinds DEF OutputRead
      <3>2. new.name = o /\ new.cred = NoData
        BY DEF OutputInput
      <3>3. new = OutputInput(new.name, Full(new.name, cache[o]), new.cred)
        BY <3>2 DEF Cached
      <3> QED BY <3>1, <3>2, <3>3
    <2>3. in'.tenants = in.tenants
      BY <1>9 DEF OutputRead, CollectorInv, InputInv
    <2> HIDE DEF new, FromOutput, FromTenant
    <2> QED BY <1>1, <2>1, <2>2, <2>3
  <1>10. CASE SecretRead
    <2>0. PICK last, out, new :
            /\ last = Len(in.outputs) /\ out = in.outputs[last]
            /\ new = WithSecret(out)
      OBVIOUS
    <2>1. /\ last \in DOMAIN in.outputs /\ out \in Outs(in) /\ DOMAIN out = OutputFields
          /\ DOMAIN in'.outputs = DOMAIN in.outputs /\ in'.outputs[last] = new
          /\ \A i \in DOMAIN in.outputs \ {last} : in'.outputs[i] = in.outputs[i]
      BY <1>10, <2>0, SecretAdded
    <2>2. FromOutput(new)
      <3>1. PICK v \in Proposed(out.name) \ {Absent} : out = OutputInput(out.name, Full(out.name, v), out.cred)
        BY <1>1, <2>1
      <3>2. new.name = out.name
        BY <2>0, <2>1 DEF WithSecret, OutputFields
      <3>3. new = OutputInput(out.name, Full(out.name, v), new.cred)
        BY <2>0, <2>1, <3>1 DEF WithSecret, OutputInput, OutputFields
      <3> QED BY <3>1, <3>2, <3>3
    <2>3. in'.tenants = in.tenants
      BY <1>10 DEF SecretRead, CollectorInv, InputInv
    <2>4. \A i \in DOMAIN in.outputs : in.outputs[i] \in Outs(in)
      BY DEF Outs
    <2> HIDE DEF FromOutput, FromTenant
    <2>5. \A i \in DOMAIN in'.outputs : FromOutput(in'.outputs[i])
      BY <1>1, <2>1, <2>2, <2>4
    <2> QED BY <1>1, <2>3, <2>5 DEF Outs
  <1>11. CASE in' = in
    BY <1>3, <1>11
  <1> HIDE DEF FromTenant, FromOutput
  <1> QED BY <1>5, <1>6, <1>7, <1>8, <1>9, <1>10, <1>11, InputStep

\* What a step may do to the collector that is held.
LEMMA OwnStep ==
    ASSUME CollectorInv, [Next]_vars
    PROVE  \/ pc' = "idle"
           \/ own' = own /\ (pc # "idle" \/ pc' = pc)
           \/ pc = "idle" /\ own' = cache[Collector] /\ Exists(Collector) /\ pc' = "list"
           \/ \E kind : pc # "idle" /\ pc' = "publish" /\ own' = [own EXCEPT !.state = "failed", !.problems = @ \cup {kind}]
           \/ /\ pc = "otel" /\ pc' = "publish"
              /\ own' = [own EXCEPT !.tenants = DOMAIN in.tenants, !.state = "ready", !.problems = {}]
  <1> DEFINE Marked == \E kind : pc' = "publish" /\ own' = [own EXCEPT !.state = "failed", !.problems = @ \cup {kind}]
  <1>1. ASSUME NEW kind, HandleError(kind) PROVE pc' = "idle" \/ Marked
    BY <1>1 DEF HandleError, BecomeIdle
  <1>2. CASE WorkerStep
    <2>1. CASE ListTenants \/ TenantsRead \/ GetSecret \/ Publish \/ Assemble \/ CheckConfig
      BY <1>1, <2>1 DEF ListTenants, TenantsRead, GetSecret, Publish, Assemble, CheckConfig, BecomeIdle, At
    <2>2. CASE \E t \in Tenants : VisitTenant(t)
      BY <1>1, <2>2 DEF VisitTenant, At
    <2>3. CASE \E s \in Subscriptions : GetSubscription(s) \/ VisitSubscription(s)
      BY <1>1, <2>3 DEF GetSubscription, VisitSubscription, At
    <2>4. CASE (\E b \in Bridges : GetBridge(b)) \/ \E o \in Outputs : GetOutput(o)
      BY <1>1, <2>4 DEF GetBridge, GetOutput, At
    <2>5. ASSUME NEW outcome \in Outcomes, NEW i \in DOMAIN Rbac, ReconcileRBAC(Rbac[i], outcome)
          PROVE  pc # "idle" /\ (pc' = "idle" \/ Marked \/ own' = own)
      <3>1. Rbac[i] # "idle"
        BY DEF Rbac
      <3> QED BY <1>1, <2>5, <3>1 DEF ReconcileRBAC, At
    <2>6. ASSUME NEW outcome \in Outcomes, ReconcileAuthSecret(outcome)
          PROVE  pc # "idle" /\ (pc' = "idle" \/ Marked \/ own' = own)
      BY <1>1, <2>6 DEF ReconcileAuthSecret, At
    <2>7. ASSUME NEW outcome \in Outcomes, ReconcileOtelCollector(outcome)
          PROVE  /\ pc = "otel"
                 /\ \/ pc' = "idle" \/ Marked
                    \/ /\ pc' = "publish"
                       /\ own' = [own EXCEPT !.tenants = DOMAIN in.tenants, !.state = "ready", !.problems = {}]
      BY <1>1, <2>7 DEF ReconcileOtelCollector, At
    <2> QED BY <1>2, <2>1, <2>2, <2>3, <2>4, <2>5, <2>6, <2>7 DEF WorkerStep
  <1>3. CASE StartReconcile
    BY <1>3 DEF StartReconcile, At, workerVars
  <1>4. CASE StartError \/ ReadError \/ Restart \/ \E x \in Objects : DeliverEvent(x)
    BY <1>1, <1>4 DEF StartError, ReadError, Restart, DeliverEvent, BecomeIdle, workerVars
  <1>5. CASE Environment
    BY <1>5 DEF Environment, EditCollector, AddFinalizer, Edit, NamespaceEvent, workerVars
  <1>6. CASE UNCHANGED vars
    BY <1>6 DEF vars, workerVars
  <1> QED BY <1>2, <1>3, <1>4, <1>5, <1>6 DEF Next

\* Only ListTenants takes the worker to the objects.
LEMMA LeavesReading ==
    ASSUME CollectorInv, [Next]_vars, pc \in {"idle", "list", "publish"}, pc' \notin {"idle", "list", "publish"}
    PROVE  ListTenants
  <1>1. ASSUME NEW kind, HandleError(kind) PROVE FALSE
    BY <1>1 DEF HandleError, BecomeIdle
  <1>2. CASE WorkerStep
    <2>1. ASSUME NEW i \in DOMAIN Rbac, NEW outcome, ReconcileRBAC(Rbac[i], outcome) PROVE FALSE
      <3>1. Rbac[i] \notin {"idle", "list", "publish"}
        BY DEF Rbac
      <3> QED BY <2>1, <3>1 DEF ReconcileRBAC, At
    <2> QED BY <1>2, <2>1
            DEF WorkerStep, TenantsRead, GetSecret, Assemble, CheckConfig, Publish, BecomeIdle, VisitTenant, GetSubscription,
                VisitSubscription, GetBridge, GetOutput, ReconcileAuthSecret, ReconcileOtelCollector, At
  <1>3. CASE StartReconcile \/ StartError \/ ReadError \/ Restart \/ \E x \in Objects : DeliverEvent(x)
    BY <1>1, <1>3 DEF StartReconcile, StartError, ReadError, Restart, DeliverEvent, BecomeIdle, workerVars
  <1>4. CASE Environment \/ UNCHANGED vars
    BY <1>4 DEF Environment, EditCollector, AddFinalizer, Edit, NamespaceEvent, vars, workerVars
  <1> QED BY <1>2, <1>3, <1>4 DEF Next

LEMMA OriginStep == ASSUME CollectorInv, OriginInv, [Next]_vars PROVE OriginInv'
  <1>1. \A v \in Versions(Collector)' \ {Absent} : GivenFrom(v.given)
    BY CollectorVersions
  <1>2. (pc \in {"assembled"} \cup Children => config = AssembleConfig(in))'
    BY ConfigStep DEF WorkerLeftAlone, OriginInv, Children
  <1>3. pc' # "idle" => GivenFrom(own'.given)
    <2>1. CASE pc # "idle" /\ own'.given = own.given
      BY <2>1 DEF OriginInv
    <2>2. CASE own' = cache[Collector] /\ Exists(Collector)
      <3>1. cache[Collector] \in Versions(Collector) \ {Absent}
        BY <2>2, Read, Kinds DEF CollectorInv, Exists, Versions
      <3> QED BY <2>2, <3>1 DEF OriginInv
    <2>3. CASE own' = own /\ (pc # "idle" \/ pc' = pc)
      BY <2>3 DEF OriginInv
    <2>4. pc # "idle" => DOMAIN own = CollectorFields
      BY DEF CollectorInv, InputInv
    <2>5. ASSUME NEW kind, pc # "idle", own' = [own EXCEPT !.state = "failed", !.problems = @ \cup {kind}]
          PROVE  own'.given = own.given
      BY <2>4, <2>5 DEF CollectorFields
    <2>6. ASSUME pc = "otel", own' = [own EXCEPT !.tenants = DOMAIN in.tenants, !.state = "ready", !.problems = {}]
          PROVE  own'.given = own.given
      BY <2>4, <2>6 DEF CollectorFields
    <2> QED BY <2>1, <2>2, <2>3, <2>5, <2>6, OwnStep
  <1>4. pc' \notin {"idle", "list", "publish"} => "given" \in DOMAIN in' /\ GivenFrom(in'.given)
    <2> DEFINE Reading == pc \notin {"idle", "list", "publish"}
    <2>1. CASE ListTenants
      BY <2>1 DEF ListTenants, OtelColConfigInput, OriginInv, At
    <2>2. CASE Forget /\ pc' \in {"idle", "publish"}
      BY <2>2
    <2>3. ASSUME NEW field \in {"subs", "bridges", "outputs"}, NEW v, in' = [in EXCEPT ![field] = v], Reading
          PROVE  "given" \in DOMAIN in' /\ GivenFrom(in'.given)
      BY <2>3 DEF OriginInv
    <2>4. CASE pc' \in {"idle", "list", "publish"}
      BY <2>4
    <2>5. CASE \/ \E s \in Subscriptions : GetSubscription(s) /\ SubscriptionRead(s)
               \/ \E b \in Bridges : GetBridge(b) /\ BridgeRead(b)
      BY <2>5, <2>3 DEF GetSubscription, SubscriptionRead, GetBridge, BridgeRead, At
    <2>6. CASE SecretRead \/ \E o \in Outputs : OutputRead(o)
      BY <2>6, <2>3 DEF SecretRead, OutputRead
    <2>7. CASE in' = in /\ pc \in {"idle", "list", "publish"} /\ pc' \notin {"idle", "list", "publish"}
      BY <2>1, <2>7, LeavesReading
    <2>8. CASE in' = in /\ Reading
      BY <2>8 DEF OriginInv
    <2> HIDE DEF Reading
    <2> QED BY <2>1, <2>2, <2>4, <2>5, <2>6, <2>7, <2>8, InputStep DEF Reading
  <1> QED BY <1>1, <1>2, <1>3, <1>4, OriginRead DEF OriginInv

LEMMA OriginInitially == ASSUME Init PROVE OriginInv
  <1>1. PICK scenario \in Scenarios :
          store = [x \in Objects |-> IF x \in DOMAIN scenario.objects THEN scenario.objects[x] ELSE Absent]
    BY DEF Init
  <1>2. Collector \in Objects /\ cache[Collector] = store[Collector] /\ pending[Collector] = <<>>
    BY Kinds DEF Init
  <1>3. store[Collector] \in Proposed(Collector)
    BY <1>1, <1>2 DEF Proposed
  <1>4. Versions(Collector) = {store[Collector]}
    BY <1>2, EmptySeq DEF Versions
  <1>5. DOMAIN in.tenants = {} /\ Outs(in) = {}
    BY EmptySeq DEF Init, NoInput, Outs
  <1> QED BY <1>3, <1>4, <1>5 DEF Init, OriginInv, GivenFrom, Children

LEMMA OriginInvariant == Spec => []OriginInv
  <1>1. Init => OriginInv
    BY OriginInitially
  <1>2. CollectorInv /\ OriginInv /\ [Next]_vars => OriginInv'
    BY OriginStep
  <1> QED BY <1>1, <1>2, CollectorInvariant, PTL DEF Spec

-----------------------------------------------------------------------------
(* The volumes of the pods *)

\* Volumes that are asked for in a sequence, at most one at each position.
Asked(asked) ==
    /\ \E n \in Nat : DOMAIN asked = 1 .. n
    /\ \A i \in DOMAIN asked : \A v, w \in asked[i] : v = w

\* What is added is asked for, has a name of its own, and is the first that is
\* asked for of its name.
LEMMA VolumesAdded ==
    ASSUME NEW pod, NEW asked, Asked(asked), NEW new, new = Template!NewVolumes(pod, asked)
    PROVE  /\ \A v \in new : \E i \in DOMAIN asked : v \in asked[i]
           /\ \A v \in new : ~Template!VolumeExists(pod, v.name)
           /\ \A v, w \in new : v.name = w.name => v = w
  <1>1. \A v \in new : \E i \in DOMAIN asked :
          /\ v \in asked[i] /\ ~Template!VolumeExists(pod, v.name)
          /\ \A j \in 1 .. (i - 1) : \A w \in asked[j] : w.name # v.name
    BY DEF Template!NewVolumes
  <1>2. PICK n \in Nat : DOMAIN asked = 1 .. n
    BY DEF Asked
  <1>3. ASSUME NEW v \in new, NEW w \in new, v.name = w.name PROVE v = w
    <2>1. PICK i \in 1 .. n : v \in asked[i] /\ \A j \in 1 .. (i - 1) : \A u \in asked[j] : u.name # v.name
      BY <1>1, <1>2
    <2>2. PICK k \in 1 .. n : w \in asked[k] /\ \A j \in 1 .. (k - 1) : \A u \in asked[j] : u.name # w.name
      BY <1>1, <1>2
    <2>3. ~(k \in 1 .. (i - 1)) /\ ~(i \in 1 .. (k - 1))
      BY <1>3, <2>1, <2>2
    <2>4. i = k
      BY <2>3
    <2> QED BY <1>2, <2>1, <2>2, <2>4 DEF Asked
  <1> QED BY <1>1, <1>3

LEMMA AskedAdded ==
    ASSUME NEW pod, NEW asked, Asked(asked), NEW new, new = Template!NewVolumes(pod, asked),
           NEW i \in DOMAIN asked, NEW v \in asked[i], ~Template!VolumeExists(pod, v.name),
           \A j \in DOMAIN asked : \A w \in asked[j] : w.name = v.name => w = v
    PROVE  v \in new
  <1>1. PICK n \in Nat : DOMAIN asked = 1 .. n
    BY DEF Asked
  <1> DEFINE S == {j \in 1 .. n : v \in asked[j]}
  <1>2. S \in SUBSET Nat /\ S # {}
    BY <1>1
  <1>3. PICK m \in S : \A j \in S : ~(j < m)
    BY <1>2, Least
  <1>4. \A j \in 1 .. (m - 1) : \A w \in asked[j] : w.name # v.name
    BY <1>1, <1>3
  <1>5. m \in DOMAIN asked /\ v \in asked[m]
    BY <1>1, <1>3
  <1> QED BY <1>4, <1>5 DEF Template!NewVolumes

\* A pod stays admissible if the paths are apart.
LEMMA StaysAdmissible ==
    ASSUME NEW pod, Template!Admissible(pod), NEW asked, Asked(asked), NEW new, new = Template!NewVolumes(pod, asked),
           \A v \in new : \A m \in pod.mounts : m.path # v.path,
           \A v, w \in new : v.path = w.path => v = w
    PROVE  Template!Admissible(Template!AddVolumes(pod, asked))
  <1> DEFINE more == Template!AddVolumes(pod, asked)
  <1>1. more.volumes = pod.volumes \cup new /\ more.mounts = pod.mounts \cup new
    BY DEF Template!AddVolumes
  <1>2. \A v \in new : \A w \in pod.volumes : v.name # w.name
    BY VolumesAdded DEF Template!VolumeExists
  <1>3. \A v, w \in new : v.name = w.name => v = w
    BY VolumesAdded
  <1> HIDE DEF more
  <1>4. \A v, w \in more.volumes : v.name = w.name => v = w
    BY <1>1, <1>2, <1>3 DEF Template!Admissible
  <1>5. \A v, w \in more.mounts : v.path = w.path => v = w
    BY <1>1 DEF Template!Admissible
  <1> QED BY <1>4, <1>5 DEF Template!Admissible, more

\* An order of a finite set has every element of it.
LEMMA EveryoneInOrder ==
    ASSUME NEW S, IsFiniteSet(S), NEW order \in Ext!SetToSeqs(S)
    PROVE  /\ \E n \in Nat : DOMAIN order = 1 .. n
           /\ \A i \in DOMAIN order : order[i] \in S
           /\ \A x \in S : \E i \in DOMAIN order : order[i] = x
  <1> DEFINE n == Cardinality(S)
  <1>1. n \in Nat
    BY FS_CardinalityType
  <1>2. order \in [1 .. n -> S] /\ \A i, j \in 1 .. n : i # j => order[i] # order[j]
    <2>1. Ext!Cardinality(S) = Cardinality(S)
      BY DEF Ext!Cardinality, Cardinality
    <2> QED BY <2>1 DEF Ext!SetToSeqs
  <1>3. order \in Injection(1 .. n, S)
    BY <1>2 DEF Injection, IsInjective
  <1>4. IsFiniteSet(1 .. n) /\ Cardinality(1 .. n) = n
    BY <1>1, FS_Interval
  <1>5. order \in Surjection(1 .. n, S)
    BY <1>3, <1>4, FS_Injection
  <1> QED BY <1>1, <1>2, <1>5 DEF Surjection

\* All that is asked for, and volumes that differ in name and path.
Elements(asked) == UNION {asked[i] : i \in DOMAIN asked}
Apart(vs) == \A v, w \in vs : v.name = w.name \/ v.path = w.path => v = w

\* If nothing is in the way, all that is asked for is added.
LEMMA AllAdded ==
    ASSUME NEW pod, Template!Admissible(pod), NEW asked, Asked(asked), NEW all, all = Elements(asked), Apart(all),
           \A v \in all : ~Template!VolumeExists(pod, v.name) /\ \A m \in pod.mounts : m.path # v.path,
           NEW more, more = Template!AddVolumes(pod, asked)
    PROVE  /\ Template!Admissible(more)
           /\ more.volumes = pod.volumes \cup all /\ more.mounts = pod.mounts \cup all
  <1>1. PICK new : new = Template!NewVolumes(pod, asked)
    OBVIOUS
  <1>2. new \subseteq all
    BY <1>1, VolumesAdded DEF Elements
  <1>3. all \subseteq new
    <2> SUFFICES ASSUME NEW i \in DOMAIN asked, NEW v \in asked[i] PROVE v \in new
      BY DEF Elements
    <2>1. \A j \in DOMAIN asked : \A w \in asked[j] : w \in all
      BY DEF Elements
    <2>2. \A j \in DOMAIN asked : \A w \in asked[j] : w.name = v.name => w = v
      BY <2>1 DEF Apart
    <2> QED BY <1>1, <2>1, <2>2, AskedAdded
  <1>4. Template!Admissible(more)
    BY <1>1, <1>2, StaysAdmissible DEF Apart
  <1> QED BY <1>1, <1>2, <1>3, <1>4 DEF Template!AddVolumes

LEMMA LogsAsked ==
    /\ Asked(Template!LogVolumes) /\ AllLogs = Elements(Template!LogVolumes)
    /\ \A v, w \in AllLogs : v.path = w.path => v = w
  <1> DEFINE a == [name |-> <<"varlog">>, path |-> <<<<"var">>, <<"log">>>>]
             b == [name |-> <<"varlibdockercontainers">>, path |-> <<<<"var">>, <<"lib">>, <<"docker">>, <<"containers">>>>]
  <1>1. Template!LogVolumes = <<{a}, {b}>>
    BY DEF Template!LogVolumes
  <1>2. a.path # b.path
    <2>1. Len(a.path) = 2 /\ Len(b.path) = 4
      OBVIOUS
    <2> QED BY <2>1
  <1> HIDE DEF a, b
  <1>3. DOMAIN Template!LogVolumes = 1 .. 2 /\ Template!LogVolumes[1] = {a} /\ Template!LogVolumes[2] = {b}
    BY <1>1
  <1>4. Asked(Template!LogVolumes)
    BY <1>3 DEF Asked
  <1>5. AllLogs = {a, b}
    BY <1>3 DEF AllLogs
  <1> QED BY <1>2, <1>4, <1>5 DEF AllLogs, Elements

\* A pod whose volumes are apart is admitted, and outside of dry-run mode the
\* directories that are asked for are open for writing.
LEMMA PodMade ==
    ASSUME NEW given, NEW dryRun, NEW buffers, NEW files, Template!Admissible(given), Asked(buffers), Asked(files),
           NEW B, B = Elements(buffers), Apart(B), NEW F, F = Elements(files), Apart(F),
           \A v \in B \cup F : ~Template!VolumeExists(given, v.name) /\ \A m \in given.mounts : m.path # v.path,
           \A v \in B : \A w \in F : v.name # w.name /\ v.path # w.path,
           \A v \in B \cup F : \A w \in AllLogs : v.path # w.path,
           \A v \in AllLogs : Template!VolumeExists(given, v.name) \/ \A m \in given.mounts : m.path # v.path,
           NEW pod, pod = Template!Pod(given, dryRun, buffers, files)
    PROVE  /\ Template!Admissible(pod)
           /\ ~dryRun => \A v \in B \cup F : v \in pod.init \cap pod.mounts \cap pod.volumes
  <1>1. PICK first, second :
          first = Template!AddVolumes(given, buffers) /\ second = Template!AddVolumes(first, files)
    OBVIOUS
  <1>2. /\ Template!Admissible(first) /\ first.volumes = given.volumes \cup B /\ first.mounts = given.mounts \cup B
    BY <1>1, AllAdded
  <1>3. \A v \in F : ~Template!VolumeExists(first, v.name) /\ \A m \in first.mounts : m.path # v.path
    BY <1>2 DEF Template!VolumeExists
  <1>4. /\ Template!Admissible(second) /\ second.volumes = first.volumes \cup F /\ second.mounts = first.mounts \cup F
    BY <1>1, <1>2, <1>3, AllAdded
  <1>5. PICK handled : handled = IF dryRun THEN given ELSE second
    OBVIOUS
  <1>6. /\ Template!Admissible(handled) /\ given.volumes \subseteq handled.volumes
        /\ handled.mounts \subseteq given.mounts \cup B \cup F
        /\ ~dryRun => handled.volumes = given.volumes \cup B \cup F /\ handled.mounts = given.mounts \cup B \cup F
    BY <1>2, <1>4, <1>5
  <1>7. PICK new, complete :
          new = Template!NewVolumes(handled, Template!LogVolumes) /\ complete = Template!AddVolumes(handled, Template!LogVolumes)
    OBVIOUS
  <1>8. new \subseteq AllLogs /\ \A v \in new : ~Template!VolumeExists(given, v.name)
    <2>1. (\A v \in new : \E i \in DOMAIN Template!LogVolumes : v \in Template!LogVolumes[i])
          /\ \A v \in new : ~Template!VolumeExists(handled, v.name)
      BY <1>7, LogsAsked, VolumesAdded
    <2> QED BY <1>6, <2>1 DEF AllLogs, Template!VolumeExists
  <1>9. Template!Admissible(complete)
    <2>1. \A v \in new : \A m \in handled.mounts : m.path # v.path
      BY <1>6, <1>8
    <2>2. \A v, w \in new : v.path = w.path => v = w
      BY <1>8, LogsAsked
    <2> QED BY <1>6, <1>7, <2>1, <2>2, LogsAsked, StaysAdmissible
  <1>10. /\ pod.volumes = complete.volumes /\ pod.mounts = complete.mounts /\ pod.init = handled.volumes \ given.volumes
    BY <1>1, <1>5, <1>7 DEF Template!Pod, Template!HandleVolumes
  <1>11. Template!Admissible(pod)
    BY <1>9, <1>10 DEF Template!Admissible
  <1>12. handled.volumes \subseteq complete.volumes /\ handled.mounts \subseteq complete.mounts
    BY <1>7 DEF Template!AddVolumes
  <1>13. \A v \in B \cup F : v \notin given.volumes
    BY DEF Template!VolumeExists
  <1> QED BY <1>6, <1>10, <1>11, <1>12, <1>13

\* The buffers that are asked for are those of the tenants that have been read.
LEMMA BuffersAsked ==
    ASSUME CollectorInv, OriginInv, DirectoriesApart, NEW order \in Ext!SetToSeqs(DOMAIN in.tenants),
           NEW buffers, buffers = Buffers(in, order),
           NEW all, all = Elements(buffers)
    PROVE  /\ Asked(buffers) /\ Apart(all) /\ all \subseteq AllBuffers /\ \A v \in all : v.name[1] = "buffervolume"
           /\ \A t \in DOMAIN in.tenants : in.tenants[t].storage => Template!BufferVolume(t, in.tenants[t].dir) \in all
  <1> DEFINE Buffer(t) == Template!BufferVolume(t, in.tenants[t].dir)
             Takers == {t \in DOMAIN in.tenants : in.tenants[t].storage}
  <1>1. IsFiniteSet(DOMAIN in.tenants) /\ DOMAIN in.tenants \subseteq Tenants
    BY KindsAssumption, FS_Subset DEF CollectorInv, TypeOK
  <1>2. /\ \E n \in Nat : DOMAIN order = 1 .. n
        /\ \A i \in DOMAIN order : order[i] \in DOMAIN in.tenants
        /\ \A t \in DOMAIN in.tenants : \E i \in DOMAIN order : order[i] = t
    BY <1>1, EveryoneInOrder
  <1>3. DOMAIN buffers = DOMAIN order /\ \A i \in DOMAIN order : buffers[i] = IF order[i] \in Takers THEN {Buffer(order[i])} ELSE {}
    BY <1>2 DEF When, Buffers
  <1>4. \A t \in Takers : Buffer(t) \in BufferVolumes(t) /\ t \in Tenants
    <2> SUFFICES ASSUME NEW t \in Takers PROVE Buffer(t) \in BufferVolumes(t) /\ t \in Tenants
      OBVIOUS
    <2>1. PICK v \in Proposed(t) \ {Absent} : in.tenants[t] = TenantInput(Full(t, v))
      BY DEF OriginInv
    <2>2. in.tenants[t].storage = Full(t, v).storage /\ in.tenants[t].dir = Full(t, v).dir
      BY <2>1 DEF TenantInput
    <2> QED BY <1>1, <2>2 DEF BufferVolumes
  <1>5. \A t : Buffer(t).name = <<"buffervolume", t>>
    BY DEF Template!BufferVolume
  <1> HIDE DEF Buffer, Takers
  <1>6. all = {Buffer(t) : t \in Takers}
    <2>1. \A v \in all : \E t \in Takers : v = Buffer(t)
      BY <1>3 DEF Elements
    <2>2. \A t \in Takers : Buffer(t) \in all
      <3> SUFFICES ASSUME NEW t \in Takers PROVE Buffer(t) \in all
        OBVIOUS
      <3>1. PICK i \in DOMAIN order : order[i] = t
        BY <1>2 DEF Takers
      <3> QED BY <1>3, <3>1 DEF Elements
    <2> QED BY <2>1, <2>2
  <1>7. Asked(buffers)
    BY <1>2, <1>3 DEF Asked
  <1>8. Apart(all)
    <2>1. ASSUME NEW t \in Takers, NEW u \in Takers, Buffer(t).name = Buffer(u).name \/ Buffer(t).path = Buffer(u).path
          PROVE  t = u
      <3>1. CASE Buffer(t).name = Buffer(u).name
        BY <1>5, <3>1
      <3>2. CASE Buffer(t).path = Buffer(u).path
        BY <1>4, <3>2 DEF DirectoriesApart
      <3> QED BY <2>1, <3>1, <3>2
    <2> QED BY <1>6, <2>1 DEF Apart
  <1>9. all \subseteq AllBuffers
    BY <1>4, <1>6 DEF AllBuffers
  <1>10. \A v \in all : v.name[1] = "buffervolume"
    BY <1>5, <1>6
  <1> QED BY <1>6, <1>7, <1>8, <1>9, <1>10 DEF Buffer, Takers

\* The directories that are asked for are those of the file outputs.
LEMMA FilesAsked ==
    ASSUME CollectorInv, OriginInv, DirectoriesApart,
           NEW files, files = Directories(in),
           NEW all, all = Elements(files)
    PROVE  /\ Asked(files) /\ Apart(all) /\ all \subseteq AllFiles /\ \A v \in all : v.name[1] = "file-exporter"
           /\ \A i \in DOMAIN in.outputs :
                in.outputs[i].kind = "file" => Template!FileExporterVolume(in.outputs[i].path) \in all
  <1>1. \E n \in Nat : DOMAIN in.outputs = 1 .. n
    <2>1. in.outputs \in Seq(Outs(in))
      BY DEF CollectorInv, InputInv
    <2> QED BY <2>1, LenProperties
  <1>2. DOMAIN files = DOMAIN in.outputs
        /\ \A i \in DOMAIN in.outputs :
             files[i] = IF in.outputs[i].kind = "file" THEN {Template!FileExporterVolume(in.outputs[i].path)} ELSE {}
    BY DEF When, Directories
  <1>3. \A i \in DOMAIN in.outputs :
          in.outputs[i].kind = "file" => Template!FileExporterVolume(in.outputs[i].path) \in AllFiles
    <2> SUFFICES ASSUME NEW i \in DOMAIN in.outputs, in.outputs[i].kind = "file"
                 PROVE  Template!FileExporterVolume(in.outputs[i].path) \in AllFiles
      OBVIOUS
    <2>1. PICK o : o = in.outputs[i]
      OBVIOUS
    <2>2. o \in Outs(in) /\ o.name \in Outputs
      BY <2>1 DEF Outs, CollectorInv, InputInv
    <2>3. PICK v \in Proposed(o.name) \ {Absent} : o = OutputInput(o.name, Full(o.name, v), o.cred)
      BY <2>2 DEF OriginInv
    <2>4. o.kind = Full(o.name, v).kind /\ o.path = Full(o.name, v).path
      BY <2>3 DEF OutputInput
    <2>5. Template!FileExporterVolume(o.path) \in FileVolumes(o.name)
      BY <2>1, <2>4 DEF FileVolumes
    <2> QED BY <2>1, <2>2, <2>5 DEF AllFiles
  <1>4. \A v \in AllFiles : \E path : v = Template!FileExporterVolume(path)
    BY DEF AllFiles, FileVolumes
  <1>5. \A path : /\ Template!FileExporterVolume(path).path = Template!Dir(path)
                  /\ Template!FileExporterVolume(path).name
                       = <<"file-exporter", Template!SanitizePathForVolumeName(Template!Dir(path))>>
    BY DEF Template!FileExporterVolume
  <1>6. \A v, w \in AllFiles : v.path = w.path => v.name = w.name
    BY <1>4, <1>5
  <1>7. Asked(files)
    BY <1>1, <1>2 DEF Asked
  <1>8. all \subseteq AllFiles
    <2> SUFFICES ASSUME NEW v \in all PROVE v \in AllFiles
      OBVIOUS
    <2>1. PICK i \in DOMAIN files : v \in files[i]
      BY DEF Elements
    <2>2. i \in DOMAIN in.outputs
      BY <1>2, <2>1
    <2>3. CASE in.outputs[i].kind = "file"
      <3>1. files[i] = {Template!FileExporterVolume(in.outputs[i].path)}
        BY <1>2, <2>2, <2>3
      <3> QED BY <1>3, <2>1, <2>2, <2>3, <3>1
    <2>4. CASE in.outputs[i].kind # "file"
      BY <1>2, <2>1, <2>2, <2>4
    <2> QED BY <2>3, <2>4
  <1>9. Apart(all)
    BY <1>6, <1>8 DEF Apart, DirectoriesApart
  <1>10. \A v \in all : v.name[1] = "file-exporter"
    BY <1>4, <1>5, <1>8
  <1> QED BY <1>2, <1>7, <1>8, <1>9, <1>10 DEF Elements

\* What is made of the input can be made into pods and has its directories.
LEMMA InputMounted ==
    ASSUME CollectorInv, OriginInv, DirectoriesApart, pc = "otel", NEW layout \in Layouts(in, config)
    PROVE  Mounted(OtelCollector(in, config, layout))
  <1>1. PICK order, buffers, files, given, dryRun, pod :
          /\ order = layout.order /\ buffers = Buffers(in, order) /\ files = Directories(in)
          /\ given = in.given /\ dryRun = in.dryRun /\ pod = Template!Pod(given, dryRun, buffers, files)
    OBVIOUS
  <1>2. PICK B, F : B = Elements(buffers) /\ F = Elements(files)
    OBVIOUS
  <1>3. order \in Ext!SetToSeqs(DOMAIN in.tenants)
    BY <1>1 DEF Layouts
  <1>4. /\ Asked(buffers) /\ Apart(B) /\ B \subseteq AllBuffers /\ \A v \in B : v.name[1] = "buffervolume"
        /\ \A t \in DOMAIN in.tenants : in.tenants[t].storage => Template!BufferVolume(t, in.tenants[t].dir) \in B
    BY <1>1, <1>2, <1>3, BuffersAsked
  <1>5. /\ Asked(files) /\ Apart(F) /\ F \subseteq AllFiles /\ \A v \in F : v.name[1] = "file-exporter"
        /\ \A i \in DOMAIN in.outputs :
             in.outputs[i].kind = "file" => Template!FileExporterVolume(in.outputs[i].path) \in F
    BY <1>1, <1>2, FilesAsked
  <1>6. GivenApart(given)
    BY <1>1 DEF OriginInv, GivenFrom, DirectoriesApart
  <1>7. \A v \in B : \A w \in F : v.name # w.name /\ v.path # w.path
    BY <1>4, <1>5 DEF DirectoriesApart
  <1>8. \A v \in B \cup F : \A w \in AllLogs : v.path # w.path
    BY <1>4, <1>5 DEF DirectoriesApart
  <1>9. /\ Template!Admissible(given)
        /\ \A v \in B \cup F : ~Template!VolumeExists(given, v.name) /\ \A m \in given.mounts : m.path # v.path
        /\ \A v \in AllLogs : Template!VolumeExists(given, v.name) \/ \A m \in given.mounts : m.path # v.path
    BY <1>4, <1>5, <1>6 DEF GivenApart
  <1>10. /\ Template!Admissible(pod)
         /\ ~dryRun => \A v \in B \cup F : v \in pod.init \cap pod.mounts \cap pod.volumes
    BY <1>1, <1>2, <1>4, <1>5, <1>7, <1>8, <1>9, PodMade
  <1>11. ASSUME NEW s \in StorageDirectories(in)
         PROVE  Template!Writable(pod, Template!DetermineFileStorageDirectory(s.dir, s.tenant))
    <2>1. PICK t \in DOMAIN in.tenants :
            in.tenants[t].storage /\ ~dryRun /\ s = [tenant |-> t, dir |-> in.tenants[t].dir]
      BY <1>1 DEF StorageDirectories
    <2>2. PICK v : v = Template!BufferVolume(t, in.tenants[t].dir)
      OBVIOUS
    <2>3. v \in pod.init \cap pod.mounts \cap pod.volumes
      BY <1>4, <1>10, <2>1, <2>2
    <2>4. v.path = Template!DetermineFileStorageDirectory(s.dir, s.tenant)
      BY <2>1, <2>2 DEF Template!BufferVolume
    <2> QED BY <2>3, <2>4 DEF Template!Writable
  <1>12. ASSUME NEW file \in ExporterFiles(in) PROVE Template!Writable(pod, Template!Dir(file))
    <2>1. PICK i \in DOMAIN in.outputs : in.outputs[i].kind = "file" /\ ~dryRun /\ file = in.outputs[i].path
      BY <1>1 DEF ExporterFiles, When
    <2>2. PICK v : v = Template!FileExporterVolume(file)
      OBVIOUS
    <2>3. v \in pod.init \cap pod.mounts \cap pod.volumes
      BY <1>5, <1>10, <2>1, <2>2
    <2>4. v.path = Template!Dir(file)
      BY <2>2 DEF Template!FileExporterVolume
    <2> QED BY <2>3, <2>4 DEF Template!Writable
  <1>13. PICK content : content = OtelCollector(in, config, layout)
    OBVIOUS
  <1>14. content.pod = pod /\ content.config = config
    BY <1>1, <1>13 DEF OtelCollector, Volumes
  <1>15. config.storages = StorageDirectories(in) /\ config.files = ExporterFiles(in)
    BY DEF OriginInv, AssembleConfig, Children
  <1>16. Mounted(content)
    BY <1>10, <1>11, <1>12, <1>14, <1>15 DEF Mounted
  <1> QED BY <1>13, <1>16

LEMMA MountedStep ==
    ASSUME DirectoriesApart, OthersMount, CollectorInv, OriginInv, DirectoriesMounted, [Next]_vars
    PROVE  DirectoriesMounted'
  <1>1. CASE store'["otel"] = store["otel"]
    BY <1>1 DEF DirectoriesMounted
  <1>2. CASE OtelWritten
    <2>1. PICK layout \in Layouts(in, config) : store'["otel"] = Desired("otel", OtelCollector(in, config, layout))
      BY <1>2 DEF OtelWritten
    <2>2. Mounted(OtelCollector(in, config, layout))
      BY <1>2, InputMounted DEF OtelWritten
    <2>3. store'["otel"].content = OtelCollector(in, config, layout)
      BY <2>1 DEF Desired, Child
    <2> QED BY <2>2, <2>3 DEF DirectoriesMounted
  <1>3. CASE OtelFinalized
    <2>1. DOMAIN store["otel"] = {"exists", "content", "finalizers"}
      BY <1>3, TheChildren, Read, Edited DEF CollectorInv, OtelFinalized
    <2>2. store'["otel"].content = store["otel"].content
      BY <1>3, <2>1 DEF OtelFinalized
    <2> QED BY <1>3, <2>2 DEF OtelFinalized, DirectoriesMounted
  <1>4. CASE OtelEdited
    BY <1>4, Edited DEF OtelEdited, OthersMount, DirectoriesMounted
  <1> QED BY <1>1, <1>2, <1>3, <1>4, OtelStep

(***************************************************************************)
(* The pods of the OpenTelemetryCollector can be made, and every directory *)
(* its configuration writes to is brought in from the host, mounted at its *)
(* own path and opened for writing: assembleConfig puts the directories    *)
(* into the configuration and handleVolumes the volumes into the pod       *)
(* template, from one input but by different code, in any order of the     *)
(* tenants and with outputs that are read twice. It is assumed that the    *)
(* tenants, the file outputs and the pod template of the collector do not  *)
(* ask for one directory twice, or for two under one name, and that what   *)
(* others write over the collector has its directories.                    *)
(***************************************************************************)
THEOREM DirectoriesAlwaysMounted ==
    ASSUME DirectoriesApart, OthersMount
    PROVE  Spec => []DirectoriesMounted
  <1>1. Init => DirectoriesMounted
    <2> SUFFICES ASSUME Init PROVE DirectoriesMounted
      OBVIOUS
    <2>1. PICK scenario \in Scenarios :
            store = [x \in Objects |-> IF x \in DOMAIN scenario.objects THEN scenario.objects[x] ELSE Absent]
      BY DEF Init
    <2>2. store["otel"] \in Proposed("otel")
      BY <2>1, TheChildren DEF Proposed
    <2> QED BY <2>2 DEF OthersMount, DirectoriesMounted
  <1>2. CollectorInv /\ OriginInv /\ DirectoriesMounted /\ [Next]_vars => DirectoriesMounted'
    BY MountedStep
  <1> QED BY <1>1, <1>2, CollectorInvariant, OriginInvariant, PTL DEF Spec

-----------------------------------------------------------------------------
(* The auth secret *)

\* A key is an authentication method, labels and a field.
LEMMA Enclosed ==
    ASSUME NEW S, NEW labels \in Seq(S), NEW auth \in S, NEW field \in S,
           NEW key, key = <<auth>> \o (labels \o <<field>>)
    PROVE  /\ Len(labels) \in Nat /\ Len(key) = Len(labels) + 2
           /\ key[Len(labels) + 2] = field
           /\ \A i \in 1 .. Len(labels) : key[i + 1] = labels[i]
  <1> DEFINE rest == labels \o <<field>>
             n == Len(labels)
  <1>1. /\ rest \in Seq(S) /\ n \in Nat /\ Len(rest) = n + 1 /\ rest[n + 1] = field
        /\ \A i \in 1 .. n : rest[i] = labels[i]
    BY LenProperties
  <1>2. Len(key) = Len(rest) + 1 /\ \A i \in 1 .. Len(rest) : key[i + 1] = rest[i]
    <2>1. key = <<auth>> \o rest
      OBVIOUS
    <2> HIDE DEF rest
    <2>2. <<auth>> \in Seq(S) /\ Len(<<auth>>) = 1
      OBVIOUS
    <2>3. /\ Len(key) = 1 + Len(rest)
          /\ \A i \in 1 .. 1 + Len(rest) : key[i] = IF i <= 1 THEN <<auth>>[i] ELSE rest[i - 1]
      BY <1>1, <2>1, <2>2, ConcatProperties
    <2> QED BY <1>1, <2>3
  <1> HIDE DEF rest
  <1>3. \A i \in 1 .. n : i \in 1 .. Len(rest)
    BY <1>1
  <1>4. n + 1 \in 1 .. Len(rest) /\ Len(rest) + 1 = n + 2 /\ (n + 1) + 1 = n + 2
    <2> HIDE DEF n
    <2> QED BY <1>1
  <1>5. key[n + 2] = field
    <2>1. key[(n + 1) + 1] = rest[n + 1]
      BY <1>2, <1>4
    <2> QED BY <1>1, <1>4, <2>1
  <1> QED BY <1>1, <1>2, <1>3, <1>4, <1>5

LEMMA KeyShape ==
    ASSUME NEW S, NEW o, NsLabels[o.name] \in Seq(S), NameLabels[o.name] \in Seq(S), o.auth \in S, NEW field \in S
    PROVE  /\ NsLabels[o.name] \o NameLabels[o.name] \in Seq(S)
           /\ SecretKey(o, field) = <<o.auth>> \o ((NsLabels[o.name] \o NameLabels[o.name]) \o <<field>>)
  <1> DEFINE ns == NsLabels[o.name]
             name == NameLabels[o.name]
             auth == o.auth
  <1>0. ns \in Seq(S) /\ name \in Seq(S) /\ SecretKey(o, field) = <<auth>> \o ns \o name \o <<field>>
    BY DEF SecretKey
  <1>1. <<auth>> \in Seq(S) /\ <<field>> \in Seq(S)
    OBVIOUS
  <1> HIDE DEF ns, name, auth
  <1>2. ns \o name \in Seq(S) /\ <<auth>> \o ns \o name = <<auth>> \o (ns \o name)
    BY <1>0, <1>1, ConcatProperties, ConcatAssociative
  <1>3. (<<auth>> \o (ns \o name)) \o <<field>> = <<auth>> \o ((ns \o name) \o <<field>>)
    BY <1>1, <1>2, ConcatAssociative
  <1> QED BY <1>0, <1>2, <1>3 DEF ns, name, auth

\* The labels and the field of two outputs' keys are those of the outputs.
LEMMA KeysDistinct ==
    ASSUME LabelsDistinct, NEW o, NEW u, o.name \in Outputs, u.name \in Outputs, NEW f, NEW g,
           SecretKey(o, f) = SecretKey(u, g)
    PROVE  o.name = u.name /\ f = g
  <1> DEFINE S == STRING \cup {o.auth, u.auth, f, g}
             A == NsLabels[o.name] \o NameLabels[o.name]
             B == NsLabels[u.name] \o NameLabels[u.name]
             key == SecretKey(o, f)
  <1>1. /\ NsLabels[o.name] \in Seq(S) /\ NameLabels[o.name] \in Seq(S)
        /\ NsLabels[u.name] \in Seq(S) /\ NameLabels[u.name] \in Seq(S)
    BY DEF LabelsDistinct
  <1>2. o.auth \in S /\ u.auth \in S /\ f \in S /\ g \in S
    OBVIOUS
  <1> HIDE DEF S
  <1>3. A \in Seq(S) /\ key = <<o.auth>> \o (A \o <<f>>)
    BY <1>1, <1>2, KeyShape
  <1>4. B \in Seq(S) /\ key = <<u.auth>> \o (B \o <<g>>)
    BY <1>1, <1>2, KeyShape
  <1> HIDE DEF A, B, key
  <1>5. /\ Len(A) \in Nat /\ Len(key) = Len(A) + 2 /\ key[Len(A) + 2] = f
        /\ \A i \in 1 .. Len(A) : key[i + 1] = A[i]
    BY <1>2, <1>3, Enclosed
  <1>6. /\ Len(B) \in Nat /\ Len(key) = Len(B) + 2 /\ key[Len(B) + 2] = g
        /\ \A i \in 1 .. Len(B) : key[i + 1] = B[i]
    BY <1>2, <1>4, Enclosed
  <1>7. A = B
    <2>1. Len(A) = Len(B) /\ \A i \in 1 .. Len(A) : A[i] = B[i]
      BY <1>5, <1>6
    <2> QED BY <1>3, <1>4, <2>1, SeqEqual
  <1>8. f = g
    BY <1>5, <1>6, <1>7
  <1> QED BY <1>7, <1>8 DEF LabelsDistinct, A, B

\* Under an output's key is what a copy of the output was given.
OutputsTyped(input) == input.outputs \in Seq(Outs(input)) /\ \A o \in Outs(input) : o.name \in Outputs

LEMMA KeyedByOutput ==
    ASSUME LabelsDistinct, NEW input, OutputsTyped(input),
           NEW i \in Authenticated(input), NEW field \in Given(input.outputs[i])
    PROVE  \E j \in Authenticated(input) :
              /\ input.outputs[j].name = input.outputs[i].name
              /\ AuthSecret(input)[SecretKey(input.outputs[i], field)] = input.outputs[j].cred[field]
  <1> DEFINE data == UNION {{<<j, f>> : f \in Given(input.outputs[j])} : j \in Authenticated(input)}
             Key(p) == SecretKey(input.outputs[p[1]], p[2])
             key == Key(<<i, field>>)
             Last(k, p) == Key(p) = k /\ \A q \in data : q[1] > p[1] => Key(q) # k
             chosen == CHOOSE p \in data : Last(key, p)
             I == {j \in Authenticated(input) : \E f \in Given(input.outputs[j]) : Key(<<j, f>>) = key}
  <1>1. /\ DOMAIN input.outputs = 1 .. Len(input.outputs) /\ Len(input.outputs) \in Nat
        /\ \A j \in DOMAIN input.outputs : input.outputs[j].name \in Outputs
    BY LenProperties DEF OutputsTyped, Outs
  <1>2. Authenticated(input) \subseteq DOMAIN input.outputs
    BY DEF Authenticated
  <1>3. \A p : p \in data <=> \E j \in Authenticated(input) : \E f \in Given(input.outputs[j]) : p = <<j, f>>
    OBVIOUS
  <1>4. PICK m \in I : \A j \in I : ~(j > m)
    <2>1. I \in SUBSET (1 .. Len(input.outputs)) /\ i \in I
      BY <1>1, <1>2
    <2> HIDE DEF I
    <2> QED BY <1>1, <2>1, Greatest
  <1>5. \E p \in data : Last(key, p)
    <2>1. PICK f \in Given(input.outputs[m]) : Key(<<m, f>>) = key
      BY <1>4
    <2>2. <<m, f>> \in data
      BY <1>3, <1>4, <2>1
    <2>3. ASSUME NEW q \in data, Key(q) = key PROVE ~(q[1] > m)
      <3>1. PICK j \in Authenticated(input) : \E g \in Given(input.outputs[j]) : q = <<j, g>>
        BY <1>3, <2>3
      <3>2. j \in I
        BY <2>3, <3>1
      <3>3. q[1] = j
        BY <3>1
      <3> HIDE DEF I, data, Key, key
      <3> QED BY <1>4, <3>2, <3>3
    <2> QED BY <2>1, <2>2, <2>3
  <1>6. chosen \in data /\ Key(chosen) = key
    BY <1>5
  <1>7. PICK j \in Authenticated(input) : \E f \in Given(input.outputs[j]) : chosen = <<j, f>>
    BY <1>3, <1>6
  <1>8. PICK f \in Given(input.outputs[j]) : chosen = <<j, f>>
    BY <1>7
  <1>9. input.outputs[j].name = input.outputs[i].name /\ f = field
    <2>1. SecretKey(input.outputs[j], f) = SecretKey(input.outputs[i], field)
      <3>1. Key(<<j, f>>) = SecretKey(input.outputs[j], f) /\ key = SecretKey(input.outputs[i], field)
        OBVIOUS
      <3> HIDE DEF Key, key, chosen
      <3> QED BY <1>6, <1>8, <3>1
    <2>2. input.outputs[j].name \in Outputs /\ input.outputs[i].name \in Outputs
      BY <1>1, <1>2
    <2> QED BY <2>1, <2>2, KeysDistinct
  <1>10. AuthSecret(input)[key] = input.outputs[chosen[1]].cred[chosen[2]]
    <2> DEFINE keys == {Key(p) : p \in data}
               Value(k) == LET p == CHOOSE p \in data : Last(k, p) IN input.outputs[p[1]].cred[p[2]]
    <2>1. key \in keys
      BY <1>3
    <2>2. AuthSecret(input) = [k \in keys |-> Value(k)]
      BY Zenon DEF AuthSecret
    <2>3. Value(key) = input.outputs[chosen[1]].cred[chosen[2]]
      BY Zenon
    <2> HIDE DEF keys, Value, key, chosen
    <2>4. AuthSecret(input)[key] = Value(key)
      BY <2>1, <2>2
    <2> QED BY <2>3, <2>4
  <1>11. key = SecretKey(input.outputs[i], field)
    OBVIOUS
  <1> HIDE DEF key, chosen
  <1>12. AuthSecret(input)[key] = input.outputs[j].cred[field]
    BY <1>8, <1>9, <1>10
  <1> QED BY <1>9, <1>11, <1>12

(***************************************************************************)
(* The auth secret has every output's credentials under the output's key   *)
(* (AuthSecret), if no two outputs have the same labels: the name of an    *)
(* environment variable keeps only letters and digits of a namespace and a *)
(* name, and so does not tell a-b/c from a/b-c.                            *)
(***************************************************************************)
THEOREM CredentialsOwn ==
    ASSUME LabelsDistinct
    PROVE  Spec => []OwnCredentials
  <1>1. CollectorInv => OwnCredentials
    <2>1. CollectorInv => OutputsTyped(in)
      BY DEF CollectorInv, InputInv, OutputsTyped
    <2> QED BY <2>1, KeyedByOutput DEF OwnCredentials
  <1> QED BY <1>1, CollectorInvariant, PTL

-----------------------------------------------------------------------------
(* The environment of the pods and the auth secret *)

LEMMA TheWatched ==
    /\ Watched \subseteq Objects /\ {Collector, "auth", "otel"} \subseteq Watched /\ Sources \subseteq Watched
    /\ \A x \in Watched : x \in Sources \cup {"auth"} \/ x \in {Collector, "otel"}
    /\ Collector \notin Sources
  BY Kinds, TheChildren, KindsAssumption DEF Watched

LEMMA SeenStutter == ASSUME UNCHANGED apiVars, queued => queued', Seen PROVE Seen'
  BY DEF Seen, apiVars, CacheCurrent

LEMMA SeenPut ==
    ASSUME ApiInv, NEW x \in Objects, NEW v, Put(x, v), queued => queued',
           Seen \/ (x \in Watched /\ v # store[x])
    PROVE  Seen'
  <1>1. /\ store'[x] = v /\ (v = store[x] \/ ~CacheCurrent(x)')
        /\ \A y \in Objects \ {x} : store'[y] = store[y] /\ pending'[y] = pending[y]
    BY PutStreams DEF ApiInv
  <1>2. v = store[x] => pending' = pending /\ \A y \in Objects : store'[y] = store[y]
    BY <1>1 DEF Put
  <1> QED BY <1>1, <1>2, TheWatched DEF Seen, CacheCurrent

LEMMA SeenDeliver == ASSUME CollectorInv, NEW x \in Objects, DeliverEvent(x), Seen PROVE Seen'
  <1>1. /\ store' = store /\ queued' = (queued \/ QueuedBy(x))
        /\ \A y \in Objects \ {x} : pending'[y] = pending[y]
    BY DeliverStreams DEF DeliverEvent, CollectorInv, ApiInv
  <1>2. ASSUME x \in Sources \cup {"auth"}, ~queued' PROVE ~CacheCurrent(Collector)' \/ ~store'[Collector].exists
    <2>1. ~cache[Collector].exists
      BY <1>1, <1>2 DEF QueuedBy, Exists
    <2>2. CacheCurrent(Collector) => cache[Collector] = store[Collector]
      BY StoredVersion, TheChildren DEF CollectorInv, ApiInv
    <2>3. CacheCurrent(Collector)' = CacheCurrent(Collector)
      BY <1>1, <1>2, TheChildren, TheWatched DEF CacheCurrent
    <2> QED BY <1>1, <2>1, <2>2, <2>3
  <1>3. x \in {Collector, "otel"} => queued'
    BY <1>1 DEF QueuedBy
  <1>4. ASSUME x \notin Watched PROVE Seen'
    BY <1>1, <1>4, TheWatched DEF Seen, CacheCurrent
  <1> QED BY <1>2, <1>3, <1>4, TheWatched DEF Seen

\* What others do is noticed, or does not concern the two objects.
Noticed == Seen' \/ (~Seen /\ store'["auth"] = store["auth"] /\ store'["otel"] = store["otel"])

LEMMA EditNoticed == ASSUME CollectorInv, NEW x \in Objects, NEW v, Edit(x, v) PROVE Noticed
  <1>1. Put(x, v) /\ v # store[x] /\ queued' = queued /\ ApiInv
    BY DEF Edit, CollectorInv
  <1>2. \A y \in Objects \ {x} : store'[y] = store[y]
    BY <1>1, PutStreams DEF ApiInv
  <1> QED BY <1>1, <1>2, SeenPut, TheWatched DEF Noticed

LEMMA EnvironmentNoticed == ASSUME CollectorInv, Environment PROVE Noticed
  <1>1. ASSUME NEW x \in DOMAIN EditValues, NEW v, Edit(x, v) PROVE Noticed
    BY <1>1, Edited, EditNoticed
  <1>2. ASSUME NEW spec, EditCollector(spec) PROVE Noticed
    BY <1>2, TheChildren, EditNoticed DEF EditCollector
  <1>3. CASE NamespaceEvent
    BY <1>3, SeenStutter DEF NamespaceEvent, QueuedByNamespace, Noticed, apiVars
  <1>4. CASE AddFinalizer
    BY <1>4, TheChildren, EditNoticed DEF AddFinalizer
  <1> QED BY <1>1, <1>2, <1>3, <1>4 DEF Environment

LEMMA CredentialsSame ==
    ASSUME CredentialInv, in'.outputs = in.outputs, pc = "secret" => pc' = "secret"
    PROVE  CredentialInv'
  <1>1. Outs(in)' = Outs(in)
    BY DEF Outs
  <1> QED BY <1>1 DEF CredentialInv

LEMMA CredentialsNone == ASSUME in'.outputs = <<>> PROVE CredentialInv'
  <1>1. DOMAIN <<>> = {}
    BY EmptySeq
  <1>2. Outs(in)' = {}
    BY <1>1 DEF Outs
  <1> QED BY <1>1, <1>2 DEF CredentialInv

LEMMA CredentialsOutput == ASSUME CollectorInv, CredentialInv, NEW o \in Outputs, OutputRead(o) PROVE CredentialInv'
  <1>1. PICK new, n : new = OutputInput(o, Cached(o), NoData) /\ n = Len(in.outputs)
    OBVIOUS
  <1>2. /\ n \in Nat /\ DOMAIN in.outputs = 1 .. n
        /\ DOMAIN in'.outputs = 1 .. (n + 1) /\ Len(in'.outputs) = n + 1 /\ in'.outputs[n + 1] = new
        /\ \A i \in 1 .. n : in'.outputs[i] = in.outputs[i]
    BY <1>1, OutputAdded
  <1>3. HasAuthentication(new) => pc' = "secret"
    BY <1>1 DEF OutputRead, OutputInput, HasAuthentication
  <1>4. ASSUME NEW i \in DOMAIN in'.outputs PROVE Credited(in'.outputs[i]) \/ (pc' = "secret" /\ i = Len(in'.outputs))
    <2>1. i \in 1 .. n \/ i = n + 1
      BY <1>2
    <2>2. CASE i \in 1 .. n
      BY <1>2, <2>2 DEF CredentialInv, OutputRead
    <2>3. CASE i = n + 1
      BY <1>2, <1>3, <2>3 DEF Credited
    <2> QED BY <2>1, <2>2, <2>3
  <1> QED BY <1>4 DEF CredentialInv

LEMMA CredentialsSecret ==
    ASSUME SecretsComplete, CollectorInv, OriginInv, CredentialInv, SecretRead
    PROVE  CredentialInv'
  <1>1. PICK last, out, new :
          /\ last = Len(in.outputs) /\ out = in.outputs[last]
          /\ new = WithSecret(out)
    OBVIOUS
  <1>2. /\ last \in DOMAIN in.outputs /\ out \in Outs(in) /\ DOMAIN out = OutputFields /\ out.name \in Outputs
        /\ DOMAIN in'.outputs = DOMAIN in.outputs /\ in'.outputs[last] = new
        /\ \A i \in DOMAIN in.outputs \ {last} : in'.outputs[i] = in.outputs[i]
    BY <1>1, SecretAdded
  <1>3. PICK secret : secret = SecretOf[out.name]
    OBVIOUS
  <1>4. new.auth = out.auth /\ new.cred = cache[secret].data
    BY <1>1, <1>2, <1>3 DEF WithSecret, OutputFields
  <1>5. secret \in Sources /\ Exists(secret)
    BY <1>1, <1>2, <1>3, KindsAssumption, Kinds DEF SecretRead
  <1>6. cache[secret] \in Proposed(secret) \ {Absent}
    BY <1>5, Read, Kinds DEF CollectorInv, Exists
  <1>7. PICK v \in Proposed(out.name) \ {Absent} : out = OutputInput(out.name, Full(out.name, v), out.cred)
    BY <1>2 DEF OriginInv
  <1>8. Credited(new)
    <2>1. Full(out.name, v).auth # None => Fields(Full(out.name, v)) \subseteq DOMAIN cache[secret].data
      BY <1>2, <1>3, <1>6, <1>7 DEF SecretsComplete
    <2>2. new.auth = Full(out.name, v).auth
      BY <1>4, <1>7 DEF OutputInput
    <2>3. Fields(new) = Fields(Full(out.name, v))
      BY <2>2 DEF Fields
    <2> QED BY <1>4, <2>1, <2>2, <2>3 DEF Credited, HasAuthentication
  <1>9. \A i \in DOMAIN in'.outputs : Credited(in'.outputs[i])
    BY <1>1, <1>2, <1>8 DEF CredentialInv
  <1> QED BY <1>9 DEF CredentialInv

\* The environment refers to keys the new secret has.
LEMMA KeysCover ==
    ASSUME CollectorInv, CredentialInv, pc # "secret"
    PROVE  Env(in) \subseteq (DOMAIN AuthSecret(in)) \cup {NodeName}
  <1> DEFINE data == UNION {{<<i, f>> : f \in Given(in.outputs[i])} : i \in Authenticated(in)}
             Key(p) == SecretKey(in.outputs[p[1]], p[2])
  <1>1. DOMAIN AuthSecret(in) = {Key(p) : p \in data}
    BY Zenon DEF AuthSecret
  <1>2. ASSUME NEW i \in Authenticated(in), NEW f \in Fields(in.outputs[i])
        PROVE  SecretKey(in.outputs[i], f) \in {Key(p) : p \in data}
    <2>1. f \in Given(in.outputs[i])
      BY DEF CredentialInv, Credited, Authenticated, Given
    <2>2. <<i, f>> \in data /\ Key(<<i, f>>) = SecretKey(in.outputs[i], f)
      BY <2>1
    <2> HIDE DEF data, Key
    <2> QED BY <2>2
  <1> HIDE DEF data, Key
  <1> QED BY <1>1, <1>2 DEF Env, SecretKeys, When

LEMMA CredentialsStep ==
    ASSUME SecretsComplete, CollectorInv, OriginInv, CredentialInv, [Next]_vars
    PROVE  CredentialInv'
  <1>1. CASE Forget \/ ListTenants
    BY <1>1, CredentialsNone DEF Forget, NoInput, ListTenants, OtelColConfigInput
  <1>2. CASE in' = in /\ (pc = "secret" => pc' = "secret")
    BY <1>2, CredentialsSame
  <1>3. ASSUME NEW s \in Subscriptions, GetSubscription(s), SubscriptionRead(s) PROVE CredentialInv'
    <2>1. in'.outputs = in.outputs /\ pc # "secret"
      BY <1>3 DEF GetSubscription, SubscriptionRead, At, CollectorInv, InputInv
    <2> QED BY <2>1, CredentialsSame
  <1>4. ASSUME NEW b \in Bridges, GetBridge(b), BridgeRead(b) PROVE CredentialInv'
    <2>1. in'.outputs = in.outputs /\ pc # "secret"
      BY <1>4 DEF GetBridge, BridgeRead, At, CollectorInv, InputInv
    <2> QED BY <2>1, CredentialsSame
  <1>5. CASE SecretRead \/ \E o \in Outputs : OutputRead(o)
    BY <1>5, CredentialsOutput, CredentialsSecret
  <1> QED BY <1>1, <1>2, <1>3, <1>4, <1>5, InputStep

\* The worker is where it was, and the two objects are or the change is noticed.
LEMMA EnvSame == ASSUME EnvInv, pc' = pc, in' = in, own' = own, Noticed PROVE EnvInv'
  <1>1. CASE Seen'
    BY <1>1 DEF EnvInv
  <1>2. CASE ~Seen /\ store'["auth"] = store["auth"] /\ store'["otel"] = store["otel"]
    BY <1>2 DEF EnvInv, EnvOK, AuthKeys
  <1> QED BY <1>1, <1>2 DEF Noticed

LEMMA EnvError == ASSUME CollectorInv, pc # "idle", NEW kind, HandleError(kind) PROVE EnvInv'
  <1>1. CASE BecomeIdle /\ queued' = TRUE
    BY <1>1 DEF BecomeIdle, EnvInv, Seen
  <1>2. CASE pc' = "publish" /\ own' = [own EXCEPT !.state = "failed", !.problems = @ \cup {kind}]
    <2>1. own'.state = "failed"
      BY <1>2 DEF CollectorInv, InputInv, CollectorFields
    <2> QED BY <1>2, <2>1 DEF EnvInv
  <1> QED BY <1>1, <1>2 DEF HandleError

\* The secret has been written, or was found in the cache.
LEMMA EnvAuth ==
    ASSUME CollectorInv, CredentialInv, NEW outcome, ReconcileAuthSecret(outcome)
    PROVE  EnvInv'
  <1>1. CASE HandleError(outcome)
    BY <1>1, EnvError DEF ReconcileAuthSecret, At
  <1>2. CASE outcome = "ok" /\ pc = "auth" /\ pc' = "otel" /\ UNCHANGED <<in, queued>>
    <2> DEFINE content == AuthSecret(in)
    <2>1. Env(in) \subseteq (DOMAIN content) \cup {NodeName}
      BY <1>2, KeysCover
    <2>2. ReconcileResource("auth", content, "ok")
      BY <1>2 DEF ReconcileAuthSecret
    <2> HIDE DEF content
    <2>3. CASE UNCHANGED apiVars /\ Exists("auth") /\ cache["auth"].content = content
      <3>1. CASE CacheCurrent("auth")
        <4>1. store'["auth"] = cache["auth"]
          BY <2>3, <3>1, StoredVersion, TheChildren DEF CollectorInv, ApiInv, apiVars
        <4> QED BY <1>2, <2>1, <2>3, <4>1 DEF EnvInv, AuthKeys, Exists
      <3>2. CASE ~CacheCurrent("auth")
        <4>1. Seen'
          BY <2>3, <3>2, TheWatched DEF Seen, apiVars, CacheCurrent
        <4> QED BY <4>1 DEF EnvInv
      <3> QED BY <3>1, <3>2
    <2>4. CASE Put("auth", Desired("auth", content))
      <3>1. store'["auth"] = Desired("auth", content)
        BY <2>4, PutStreams, TheChildren DEF CollectorInv, ApiInv
      <3>2. store'["auth"].exists = TRUE /\ store'["auth"].content = content
        BY <3>1 DEF Desired, Child
      <3> QED BY <1>2, <2>1, <3>2 DEF EnvInv, AuthKeys
    <2> QED BY <2>2, <2>3, <2>4 DEF ReconcileResource
  <1> QED BY <1>1, <1>2 DEF ReconcileAuthSecret, Fails, At

LEMMA EnvOtel ==
    ASSUME CollectorInv, EnvInv, NEW outcome, ReconcileOtelCollector(outcome)
    PROVE  EnvInv'
  <1>1. CASE HandleError(outcome)
    BY <1>1, EnvError DEF ReconcileOtelCollector, At
  <1>2. CASE outcome = "ok" /\ pc = "otel" /\ pc' = "publish" /\ queued' = queued
    <2>1. PICK layout \in Layouts(in, config) : ReconcileResource("otel", OtelCollector(in, config, layout), "ok")
      BY <1>2 DEF ReconcileOtelCollector
    <2> DEFINE content == OtelCollector(in, config, layout)
    <2>2. content.env = Env(in)
      BY DEF OtelCollector
    <2> HIDE DEF content
    <2>3. ApiInv /\ "otel" \in Objects /\ "auth" \in Objects /\ (Env(in) \subseteq AuthKeys \cup {NodeName} \/ Seen)
      BY <1>2, TheChildren DEF CollectorInv, EnvInv
    <2>4. CASE UNCHANGED apiVars /\ Exists("otel") /\ cache["otel"].content = content
      <3>1. CASE CacheCurrent("otel")
        <4>1. store' = store /\ store["otel"] = cache["otel"]
          BY <2>3, <2>4, <3>1, StoredVersion DEF ApiInv, apiVars
        <4>2. Seen => Seen'
          BY <1>2, <2>4, SeenStutter
        <4> QED BY <1>2, <2>2, <2>3, <2>4, <4>1, <4>2 DEF EnvInv, EnvOK, AuthKeys
      <3>2. CASE ~CacheCurrent("otel")
        <4>1. Seen'
          BY <2>4, <3>2, TheWatched DEF Seen, apiVars, CacheCurrent
        <4> QED BY <4>1 DEF EnvInv
      <3> QED BY <3>1, <3>2
    <2>5. CASE Put("otel", Desired("otel", content))
      <3>1. store'["otel"] = Desired("otel", content) /\ store'["auth"] = store["auth"]
        BY <2>3, <2>5, PutStreams DEF ApiInv
      <3>2. store'["otel"].content = content
        BY <3>1 DEF Desired, Child
      <3>3. Seen => Seen'
        BY <1>2, <2>3, <2>5, SeenPut
      <3> QED BY <1>2, <2>2, <2>3, <3>1, <3>2, <3>3 DEF EnvInv, EnvOK, AuthKeys
    <2> QED BY <2>1, <2>4, <2>5 DEF ReconcileResource, content
  <1> QED BY <1>1, <1>2 DEF ReconcileOtelCollector, Fails, At

LEMMA EnvPublish == ASSUME CollectorInv, EnvInv, Publish PROVE EnvInv'
  <1>1. /\ pc = "publish" /\ pc' = "idle" /\ (queued => queued') /\ (own.state = "failed" => queued')
        /\ UNCHANGED apiVars \/ Put(Collector, own)
    BY DEF Publish, BecomeIdle, At, Requeue
  <1>2. ApiInv /\ (own.state = "failed" \/ EnvOK \/ Seen)
    BY <1>1 DEF CollectorInv, EnvInv
  <1>3. Seen => Seen'
    BY <1>1, <1>2, SeenStutter, SeenPut, TheChildren
  <1>4. store'["auth"] = store["auth"] /\ store'["otel"] = store["otel"]
    BY <1>1, <1>2, OtherPut, TheChildren DEF apiVars
  <1>5. queued' => Seen'
    BY DEF Seen
  <1> QED BY <1>1, <1>2, <1>3, <1>4, <1>5 DEF EnvInv, EnvOK, AuthKeys

LEMMA EnvStart == ASSUME CollectorInv, StartReconcile PROVE EnvInv'
  <1>1. CASE pc' = "list"
    BY <1>1 DEF EnvInv
  <1>2. CASE ~Exists(Collector) /\ UNCHANGED apiVars /\ pc' = "idle"
    <2>1. CacheCurrent(Collector) => cache[Collector] = store[Collector]
      BY StoredVersion, TheChildren DEF CollectorInv, ApiInv
    <2>2. Seen'
      BY <1>2, <2>1, TheWatched DEF Seen, Exists, apiVars, CacheCurrent
    <2> QED BY <2>2 DEF EnvInv
  <1> QED BY <1>1, <1>2 DEF StartReconcile, workerVars, At

LEMMA EnvStep == ASSUME CollectorInv, CredentialInv, EnvInv, [Next]_vars PROVE EnvInv'
  <1> DEFINE Reads == pc' \in {"list", "tenants", "subscriptions", "secret", "assembled", "role", "sa", "binding", "auth"}
  <1>1. ASSUME Reads PROVE EnvInv'
    BY <1>1 DEF EnvInv
  <1>2. ASSUME pc # "idle", NEW kind, HandleError(kind) PROVE EnvInv'
    BY <1>2, EnvError
  <1> HIDE DEF Reads
  <1>3. CASE WorkerStep
    <2>1. CASE ListTenants \/ TenantsRead \/ GetSecret \/ Assemble \/ CheckConfig
      BY <1>1, <1>2, <2>1 DEF ListTenants, TenantsRead, GetSecret, Assemble, CheckConfig, At, Reads
    <2>2. CASE Publish
      BY <2>2, EnvPublish
    <2>3. CASE \E t \in Tenants : VisitTenant(t)
      BY <1>1, <1>2, <2>3 DEF VisitTenant, At, Reads
    <2>4. CASE \E s \in Subscriptions : GetSubscription(s) \/ VisitSubscription(s)
      BY <1>1, <1>2, <2>4 DEF GetSubscription, VisitSubscription, At, Reads
    <2>5. CASE \E b \in Bridges : GetBridge(b)
      BY <1>1, <1>2, <2>5 DEF GetBridge, At, Reads
    <2>6. CASE \E o \in Outputs : GetOutput(o)
      BY <1>1, <1>2, <2>6 DEF GetOutput, At, Reads
    <2>7. ASSUME NEW outcome \in Outcomes, NEW i \in DOMAIN Rbac, ReconcileRBAC(Rbac[i], outcome) PROVE EnvInv'
      <3>1. Rbac[i] \in {"role", "sa", "binding"}
        BY DEF Rbac
      <3>2. AfterRbac(Rbac[i]) \in {"sa", "binding", "auth"} /\ pc # "idle"
        BY <2>7, <3>1 DEF AfterRbac, ReconcileRBAC, At
      <3> QED BY <1>1, <1>2, <2>7, <3>2 DEF ReconcileRBAC, Reads
    <2>8. ASSUME NEW outcome \in Outcomes, ReconcileAuthSecret(outcome) PROVE EnvInv'
      BY <2>8, EnvAuth
    <2>9. ASSUME NEW outcome \in Outcomes, ReconcileOtelCollector(outcome) PROVE EnvInv'
      BY <2>9, EnvOtel
    <2> QED BY <1>3, <2>1, <2>2, <2>3, <2>4, <2>5, <2>6, <2>7, <2>8, <2>9 DEF WorkerStep
  <1>4. CASE StartReconcile
    BY <1>4, EnvStart
  <1>5. CASE StartError
    BY <1>5, EnvSame, SeenStutter DEF StartError, workerVars, Noticed, apiVars
  <1>6. CASE ReadError
    BY <1>2, <1>6 DEF ReadError
  <1>7. CASE Restart
    <2>1. Seen'
      BY <1>7, SyncStreams DEF Restart, InitialSync, Seen
    <2> QED BY <2>1 DEF EnvInv
  <1>8. ASSUME NEW x \in Objects, DeliverEvent(x) PROVE EnvInv'
    <2>1. Noticed
      BY <1>8, SeenDeliver DEF Noticed, DeliverEvent, Deliver
    <2> QED BY <1>8, <2>1, EnvSame DEF DeliverEvent, workerVars
  <1>9. CASE Environment
    <2>1. Noticed
      BY <1>9, EnvironmentNoticed
    <2>2. pc' = pc /\ in' = in /\ own' = own
      BY <1>9 DEF Environment, EditCollector, AddFinalizer, Edit, NamespaceEvent, workerVars
    <2> QED BY <2>1, <2>2, EnvSame
  <1>10. CASE UNCHANGED vars
    BY <1>10, EnvSame, SeenStutter DEF vars, workerVars, Noticed, apiVars
  <1> QED BY <1>3, <1>4, <1>5, <1>6, <1>7, <1>8, <1>9, <1>10 DEF Next

(***************************************************************************)
(* Whenever the collector controller is at rest, the environment of the    *)
(* pods refers to keys of the auth secret that are there: reconciling the  *)
(* secret before the OpenTelemetryCollector and queueing the collector     *)
(* for events of both (SetupWithManager) makes up for edits of both, lost  *)
(* updates, failed requests and restarts. It is assumed that secrets have  *)
(* the fields of the authentication that outputs ask for.                  *)
(***************************************************************************)
THEOREM EnvAlwaysBacked ==
    ASSUME SecretsComplete
    PROVE  Spec => []EnvBacked
  <1> DEFINE Inv == CredentialInv /\ EnvInv
  <1>1. Init => Inv
    <2> SUFFICES ASSUME Init PROVE Inv
      OBVIOUS
    <2>1. DOMAIN <<>> = {}
      BY EmptySeq
    <2>2. in.outputs = <<>> /\ Outs(in) = {}
      BY <2>1 DEF Init, NoInput, Outs
    <2>3. pc = "idle" /\ Seen
      BY DEF Init, Seen
    <2> QED BY <2>1, <2>2, <2>3 DEF CredentialInv, EnvInv
  <1>2. CollectorInv /\ OriginInv /\ Inv /\ [Next]_vars => Inv'
    BY CredentialsStep, EnvStep
  <1>3. Inv => EnvBacked
    BY TheChildren, TheWatched DEF EnvInv, EnvBacked, EnvOK, Seen
  <1> QED BY <1>1, <1>2, <1>3, CollectorInvariant, OriginInvariant, PTL DEF Spec

=============================================================================
