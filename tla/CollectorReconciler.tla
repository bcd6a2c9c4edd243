------------------------ MODULE CollectorReconciler ------------------------
(***************************************************************************)
(* The collector controller (controllers/telemetry/collector_controller.go)*)
(* and its manager (pkg/resources/manager/collector_manager.go).           *)
(*                                                                         *)
(* The worker reads the collector, the tenants it selects and what these   *)
(* refer to, each with a List or Get of its own from the informer cache,   *)
(* assembles the configuration and writes the children: cluster role,      *)
(* service account, role binding, auth secret and OpenTelemetryCollector.  *)
(* Collectors have nothing in common but the worker, so there is one.      *)
(*                                                                         *)
(* The statuses of tenants, subscriptions and outputs are written by the   *)
(* tenant controller (RouteReconciler); here they change as Edit allows.   *)
(***************************************************************************)
EXTENDS KubeApi, ConfigGen

CONSTANTS
    Tenants, Subscriptions, Outputs, Bridges,
    Secrets,       \* the secrets users keep credentials in
    SecretOf,      \* SecretOf[o]: the secret an output refers to
    NsLabels,      \* NsLabels[o]: the parts of an output's namespace between "-" and "."
    NameLabels,    \* NameLabels[o]: the same of its name
    Lower,         \* Lower[w]: a word of a path in lower case
    Collector,     \* the collector
    Scenarios,     \* what the manager finds when it starts, and the bounds: [objects, left]
    EditValues,    \* EditValues[x]: what x may be changed to while it runs
    Full(_, _)     \* Full(x, v): the source x, of which v is stored

Rbac == <<"role", "sa", "binding">>
Children == {"role", "sa", "binding", "auth", "otel"}
Sources == Tenants \cup Subscriptions \cup Outputs \cup Bridges \cup Secrets

ASSUME KindsAssumption ==
    /\ Objects = Sources \cup {Collector} \cup Children
    /\ Collector \notin Sources \cup Children /\ Sources \cap Children = {}
    /\ Subscriptions \cap Bridges = {}
    /\ SecretOf \in [Outputs -> Secrets]
    /\ IsFiniteSet(Tenants) /\ IsFiniteSet(Subscriptions) /\ IsFiniteSet(Outputs) /\ IsFiniteSet(Bridges)

\* How many changes by users, the tenant controller and others, requests that
\* fail for no reason of ours, and restarts of the manager there may be.
Bounds == [edits: Nat, faults: Nat, restarts: Nat]
ASSUME BoundsAssumption == \A scenario \in Scenarios : scenario.left \in Bounds

VARIABLES
    pc,       \* where the worker is in Reconcile
    own,      \* the Collector that was read
    fresh,    \* whether it still is the stored version
    listed,   \* listed[t]: the tenants as they were listed
    todo,     \* the tenants or subscriptions that are left to visit
    need,     \* what is left to Get for the one being visited
    in,       \* the OtelColConfigInput so far
    config,   \* the assembled configuration
    errs,     \* the errors of ReconcileRBAC
    queued,   \* whether a request waits in the work queue, delayed or not
    left      \* how much of each bound is left

workerVars == <<pc, own, fresh, listed, todo, need, in, config, errs>>
vars == <<apiVars, workerVars, queued, left>>

Template == INSTANCE PodTemplate WITH NoDirectory <- None

-----------------------------------------------------------------------------
(* Objects *)

\* What Get does not find.
Absent == [exists |-> FALSE]
Child(content, finalizers) == [exists |-> TRUE, content |-> content, finalizers |-> finalizers]

NoInput == [tenants |-> <<>>, subs |-> <<>>, bridges |-> <<>>, outputs |-> <<>>]
NoConfig == [pipelines |-> {}]

\* What x may be before the manager starts and be made by others while it runs.
Proposed(x) ==
    {Absent}
    \cup {scenario.objects[x] : scenario \in {scenario \in Scenarios : x \in DOMAIN scenario.objects}}
    \cup (IF x \in DOMAIN EditValues THEN EditValues[x] ELSE {})

\* An object has the fields of its kind, and refers to objects of the right kind.
CollectorFields ==
    {"exists", "debug", "dryRun", "events", "axoflow", "given", "state", "problems", "tenants"}
WellFormed(x, v) ==
    \/ v = Absent
    \/ /\ v.exists = TRUE
       /\ x \in Tenants => Full(x, v).subs \subseteq Subscriptions /\ Full(x, v).bridges \subseteq Bridges
       /\ x \in Subscriptions => Full(x, v).outputs \subseteq Outputs
       /\ x \in Outputs => Full(x, v).kind \in OutputKinds \cup {None}
       /\ x = Collector => DOMAIN v = CollectorFields
       /\ x \in Children => DOMAIN v = {"exists", "content", "finalizers"}
ASSUME ObjectsAssumption ==
    /\ \A x \in Objects : \A v \in Proposed(x) : WellFormed(x, v)
    /\ Collector \in DOMAIN EditValues /\ DOMAIN EditValues \subseteq Objects

\* Get and List read from the cache.
Cached(x) == Full(x, cache[x])
Exists(x) == cache[x].exists

\* The part of a tenant, subscription, bridge or output the generator uses.
TenantInput(v) == [subs |-> v.subs, logNs |-> v.logNs, all |-> v.all, storage |-> v.storage, dir |-> v.dir,
                   transform |-> v.transform, flatten |-> v.flatten, defaults |-> v.defaults]
SubscriptionInput(v) == [outputs |-> v.outputs, refs |-> v.refs, cond |-> v.cond]
BridgeInput(b, v) == [name |-> b, source |-> v.source, target |-> v.target, cond |-> v.cond]
OutputInput(o, v, cred) == [name |-> o, kind |-> v.kind, path |-> v.path, auth |-> v.auth, batch |-> v.batch,
                            cred |-> cred]

\* The input for the collector v.
OtelColConfigInput(v, tenants, subs, bridges, outputs) ==
    [tenants |-> tenants, subs |-> subs, bridges |-> bridges, outputs |-> outputs,
     debug |-> v.debug, dryRun |-> v.dryRun, events |-> v.events, axoflow |-> v.axoflow, given |-> v.given]

\* Adds x to a map.
Entry(f, x, v) == [y \in DOMAIN f \cup {x} |-> IF y = x THEN v ELSE f[y]]

-----------------------------------------------------------------------------
(* What is written *)

\* Mutant: the key is made of the name alone.
KeyOfName(o, field) == <<o.auth>> \o NameLabels[o.name] \o <<field>>

\* BasicAuthSecretKeys and BearerAuthSecretKey: what is no letter or digit in
\* the namespace and the name becomes "_", which also joins the two.
SecretKey(o, field) == <<o.auth>> \o NsLabels[o.name] \o NameLabels[o.name] \o <<field>>
Fields(o) == IF o.auth = "basicauth" THEN {"username", "password"} ELSE {"token"}
SecretKeys(o) == {SecretKey(o, field) : field \in Fields(o)}
HasAuthentication(o) == o.auth # None
Authenticated(input) == {i \in DOMAIN input.outputs : HasAuthentication(input.outputs[i])}
Given(o) == Fields(o) \cap DOMAIN o.cred

\* AuthSecret: what a secret does not have the field for is left out, and
\* under one key the last output wins.
AuthSecret(input) ==
    LET data == UNION {{<<i, f>> : f \in Given(input.outputs[i])} : i \in Authenticated(input)}
        Key(p) == SecretKey(input.outputs[p[1]], p[2])
    IN  [k \in {Key(p) : p \in data} |->
            LET p == CHOOSE p \in data : Key(p) = k /\ \A q \in data : q[1] > p[1] => Key(q) # k
            IN  input.outputs[p[1]].cred[p[2]]]

\* OtelCollector: the environment with its secretKeyRefs, and the volumes, both
\* as sets. The layout is what the input does not settle: the orders in which
\* Go maps and lists of the cache are gone through.
NodeName == <<"NODE_NAME">>
Env(input) ==
    When(~input.dryRun, {NodeName})
    \cup UNION {SecretKeys(input.outputs[i]) : i \in Authenticated(input)}
Buffers(input, order) ==
    [i \in DOMAIN order |->
        LET t == order[i]
        IN  When(input.tenants[t].storage, {Template!BufferVolume(t, input.tenants[t].dir)})]
Directories(input) ==
    [i \in DOMAIN input.outputs |->
        LET o == input.outputs[i]
        IN  When(o.kind = "file", {Template!FileExporterVolume(o.path)})]
Volumes(input, order) == Template!Pod(input.given, input.dryRun, Buffers(input, order), Directories(input))
Layouts(input, cfg) ==
    [tables: TableOrders(cfg), queues: QueueStorages(input), order: Ext!SetToSeqs(DOMAIN input.tenants)]
OtelCollector(input, cfg, layout) ==
    [config |-> cfg, tables |-> layout.tables, queues |-> layout.queues,
     args |-> AdditionalArgs(input, layout.order), env |-> Env(input), pod |-> Volumes(input, layout.order)]

-----------------------------------------------------------------------------
(* Requests to the API server *)

Spend(bound) == left[bound] > 0 /\ left' = [left EXCEPT ![bound] = @ - 1]
MayFault == Spend("faults")

\* Mutant: the object is written as it was built.
DesiredWithoutFinalizers(child, content) == Child(content, FALSE)

\* The update hook of OtelCollector keeps the finalizers of the current object.
Desired(child, content) == Child(content, IF Exists(child) THEN cache[child].finalizers ELSE FALSE)

\* The outcomes of ReconcileResource: Get from the cache, Create what is not
\* there, Update what differs. An Update of a stale version conflicts.
ReconcileResource(child, content, outcome) ==
    LET desired == Desired(child, content)
        differs == IF Exists(child) THEN cache[child].content # content ELSE TRUE
    IN  \/ /\ outcome = "ok" /\ ~differs
           /\ UNCHANGED <<apiVars, left>>
        \/ /\ outcome = "ok" /\ differs
           /\ IF Exists(child) THEN CacheCurrent(child) ELSE ~store[child].exists
           /\ Put(child, desired) /\ UNCHANGED left
        \/ /\ outcome = "conflict" /\ differs
           /\ Exists(child) /\ store[child].exists /\ ~CacheCurrent(child)
           /\ UNCHANGED <<apiVars, left>>
        \/ /\ outcome = "error" /\ differs
           /\ Exists(child) # store[child].exists
           /\ UNCHANGED <<apiVars, left>>
        \/ /\ outcome = "error" /\ MayFault
           /\ \/ UNCHANGED apiVars
              \/ /\ differs
                 /\ IF Exists(child) THEN CacheCurrent(child) ELSE ~store[child].exists
                 /\ Put(child, desired)

-----------------------------------------------------------------------------
(* Reconcile *)

At(p) == pc = p

Forget ==
    /\ listed' = <<>> /\ todo' = {} /\ need' = {}
    /\ in' = NoInput /\ config' = NoConfig /\ errs' = {}

\* Mutant: the object of the last reconciliation is kept.
BecomeIdleKeepingOwn ==
    /\ pc' = "idle"
    /\ Forget
    /\ UNCHANGED <<own, fresh>>

BecomeIdle ==
    /\ pc' = "idle" /\ own' = Absent /\ fresh' = FALSE
    /\ Forget

\* A request is taken from the queue; a collector that is gone is done with.
StartReconcile ==
    /\ At("idle") /\ queued
    /\ queued' = FALSE
    /\ \/ /\ ~Exists(Collector)
          /\ UNCHANGED workerVars
       \/ /\ Exists(Collector)
          /\ pc' = "list"
          /\ own' = cache[Collector] /\ fresh' = CacheCurrent(Collector)
          /\ UNCHANGED <<listed, todo, need, in, config, errs>>
    /\ UNCHANGED <<apiVars, left>>

\* The Get of the collector fails, and the request is queued again.
StartError ==
    /\ At("idle") /\ queued
    /\ MayFault
    /\ UNCHANGED <<apiVars, workerVars, queued>>

\* handleCollectorReconcileError up to its Status().Update. A conflict and a
\* failed tenant leave the status alone and come back after a delay.
HandleError(kind) ==
    IF kind \in {"conflict", "tenantFailed"} THEN BecomeIdle /\ queued' = TRUE
    ELSE /\ pc' = "publish"
         /\ own' = [own EXCEPT !.state = "failed", !.problems = @ \cup {kind}]
         /\ Forget
         /\ UNCHANGED <<fresh, queued>>

\* A List or Get that fails for another reason than NotFound.
ReadError ==
    /\ pc \in {"list", "tenants", "subscriptions", "secret"}
    /\ MayFault
    /\ HandleError("read")
    /\ UNCHANGED apiVars

\* getTenantsMatchingSelectors
SelectedTenants == {t \in Tenants : Exists(t) /\ Cached(t).selected}
ListTenants ==
    /\ At("list")
    /\ listed' = [t \in SelectedTenants |-> Cached(t)]
    /\ todo' = SelectedTenants
    /\ in' = OtelColConfigInput(own, [t \in SelectedTenants |-> TenantInput(Cached(t))], <<>>, <<>>, <<>>)
    /\ pc' = "tenants"
    /\ UNCHANGED <<apiVars, own, fresh, need, config, errs, queued, left>>

\* Mutant: a failed tenant is taken as it is.
NeverFailed(t) == FALSE

Failed(t) == listed[t].state = "failed"
VisitTenant(t) ==
    /\ At("tenants") /\ need = {} /\ t \in todo
    /\ \/ /\ Failed(t)
          /\ HandleError("tenantFailed")
       \/ /\ ~Failed(t)
          /\ todo' = todo \ {t}
          /\ need' = listed[t].subs \cup listed[t].bridges
          /\ UNCHANGED <<pc, own, fresh, listed, in, config, errs, queued>>
    /\ UNCHANGED <<apiVars, left>>

\* A tenant's subscriptions are fetched before its bridges.
GetSubscription(s) ==
    /\ At("tenants") /\ s \in need
    /\ \/ /\ ~Exists(s)
          /\ HandleError("subscription")
       \/ /\ Exists(s)
          /\ in' = [in EXCEPT !.subs = Entry(@, s, SubscriptionInput(Cached(s)))]
          /\ need' = need \ {s}
          /\ UNCHANGED <<pc, own, fresh, listed, todo, config, errs, queued>>
    /\ UNCHANGED <<apiVars, left>>

GetBridge(b) ==
    /\ At("tenants") /\ b \in need /\ need \cap Subscriptions = {}
    /\ \/ /\ ~Exists(b)
          /\ HandleError("bridge")
       \/ /\ Exists(b)
          /\ in' = [in EXCEPT !.bridges = Append(@, BridgeInput(b, Cached(b)))]
          /\ need' = need \ {b}
          /\ UNCHANGED <<pc, own, fresh, listed, todo, config, errs, queued>>
    /\ UNCHANGED <<apiVars, left>>

TenantsRead ==
    /\ At("tenants") /\ todo = {} /\ need = {}
    /\ todo' = DOMAIN in.subs
    /\ pc' = "subscriptions"
    /\ UNCHANGED <<apiVars, own, fresh, listed, need, in, config, errs, queued, left>>

VisitSubscription(s) ==
    /\ At("subscriptions") /\ need = {} /\ s \in todo
    /\ todo' = todo \ {s}
    /\ need' = in.subs[s].outputs
    /\ UNCHANGED <<apiVars, pc, own, fresh, listed, in, config, errs, queued, left>>

\* No secret was read.
NoData == <<>>

\* Mutant: an output that is not found is passed over.
SkipMissingOutput(o) ==
    /\ At("subscriptions") /\ o \in need
    /\ \/ /\ ~Exists(o)
          /\ need' = need \ {o}
          /\ UNCHANGED <<pc, own, fresh, listed, todo, in, config, errs, queued>>
       \/ /\ Exists(o)
          /\ in' = [in EXCEPT !.outputs = Append(@, OutputInput(o, Cached(o), NoData))]
          /\ need' = need \ {o}
          /\ pc' = IF Cached(o).auth # None THEN "secret" ELSE pc
          /\ UNCHANGED <<own, fresh, listed, todo, config, errs, queued>>
    /\ UNCHANGED <<apiVars, left>>

\* The secret of an output is fetched right after it.
GetOutput(o) ==
    /\ At("subscriptions") /\ o \in need
    /\ \/ /\ ~Exists(o)
          /\ HandleError("output")
       \/ /\ Exists(o)
          /\ in' = [in EXCEPT !.outputs = Append(@, OutputInput(o, Cached(o), NoData))]
          /\ need' = need \ {o}
          /\ pc' = IF Cached(o).auth # None THEN "secret" ELSE pc
          /\ UNCHANGED <<own, fresh, listed, todo, config, errs, queued>>
    /\ UNCHANGED <<apiVars, left>>

\* QueryOutputSecretWithData: exactly one method must be configured.
AuthMethods == {"basicauth", "bearertokenauth"}
GetSecret ==
    LET last == Len(in.outputs)
        secret == SecretOf[in.outputs[last].name]
    IN  /\ At("secret")
        /\ \/ /\ ~Exists(secret) \/ in.outputs[last].auth \notin AuthMethods
              /\ HandleError("secret")
           \/ /\ Exists(secret) /\ in.outputs[last].auth \in AuthMethods
              /\ in' = [in EXCEPT !.outputs[last].cred = cache[secret].data]
              /\ pc' = "subscriptions"
              /\ UNCHANGED <<own, fresh, listed, todo, need, config, errs, queued>>
        /\ UNCHANGED <<apiVars, left>>

\* ValidateConfigInput, AssembleConfig
Assemble ==
    /\ At("subscriptions") /\ todo = {} /\ need = {}
    /\ \/ /\ ~ValidateConfigInput(in)
          /\ HandleError("input")
       \/ /\ ValidateConfigInput(in)
          /\ config' = AssembleConfig(in)
          /\ pc' = "assembled"
          /\ UNCHANGED <<own, fresh, listed, todo, need, in, errs, queued>>
    /\ UNCHANGED <<apiVars, left>>

\* Mutant: the assembled configuration is not looked at.
AcceptAny(cfg) == TRUE

Accepted(cfg) == ValidateAssembledConfig(cfg)
CheckConfig ==
    /\ At("assembled")
    /\ \/ /\ ~Accepted(config)
          /\ HandleError("config")
       \/ /\ Accepted(config)
          /\ pc' = "role"
          /\ UNCHANGED <<own, fresh, listed, todo, need, in, config, errs, queued>>
    /\ UNCHANGED <<apiVars, left>>

\* ReconcileRBAC: every part is tried, and the errors are combined.
AfterRbac(part) == CASE part = "role" -> "sa" [] part = "sa" -> "binding" [] part = "binding" -> "auth"
ReconcileRBAC(part, outcome) ==
    LET failures == errs \cup ({outcome} \ {"ok"})
    IN  /\ At(part)
        /\ ReconcileResource(part, "fixed", outcome)
        /\ \/ /\ part # "binding" \/ failures = {}
              /\ errs' = failures /\ pc' = AfterRbac(part)
              /\ UNCHANGED <<own, fresh, listed, todo, need, in, config, queued>>
           \/ /\ part = "binding"
              /\ \E kind \in failures : HandleError(kind)

\* Mutant: the OpenTelemetryCollector is written although the secret was not.
IgnoreErrors(outcome) == FALSE

Fails(outcome) == outcome # "ok"
ReconcileAuthSecret(outcome) ==
    /\ At("auth")
    /\ ReconcileResource("auth", AuthSecret(in), outcome)
    /\ \/ Fails(outcome) /\ HandleError(outcome)
       \/ /\ ~Fails(outcome)
          /\ pc' = "otel"
          /\ UNCHANGED <<own, fresh, listed, todo, need, in, config, errs, queued>>

\* The OpenTelemetryCollector; then the collector is ready.
ReconcileOtelCollector(outcome) ==
    /\ At("otel")
    /\ \E layout \in Layouts(in, config) :
         ReconcileResource("otel", OtelCollector(in, config, layout), outcome)
    /\ \/ Fails(outcome) /\ HandleError(outcome)
       \/ /\ ~Fails(outcome)
          /\ own' = [own EXCEPT !.tenants = DOMAIN in.tenants, !.state = "ready", !.problems = {}]
          /\ pc' = "publish"
          /\ Forget
          /\ UNCHANGED <<fresh, queued>>

\* Mutant: the collector is looked at over and over.
RequeueAlways(ok) == TRUE

\* Mutant: an error is forgotten once it is in the status.
RequeueUnwritten(ok) == queued \/ ~ok

\* Status().Update of the collector, never skipped (ClearProblems leaves an
\* empty list where nil was read). Reconcile returns an error, and the request
\* is queued again, when a step or the update failed.
Requeue(ok) == queued \/ ~ok \/ own.state = "failed"
Publish ==
    /\ At("publish")
    /\ \/ /\ fresh
          /\ Put(Collector, own) /\ UNCHANGED left
          /\ queued' = Requeue(TRUE)
       \/ /\ ~fresh
          /\ UNCHANGED <<apiVars, left>>
          /\ queued' = Requeue(FALSE)
       \/ /\ fresh /\ MayFault
          /\ UNCHANGED apiVars \/ Put(Collector, own)
          /\ queued' = Requeue(FALSE)
    /\ BecomeIdle

-----------------------------------------------------------------------------
(* Watches (SetupWithManager) and the process *)

\* Mutant: tenants are not watched.
QueuedByResources(x) ==
    \/ x \in (Sources \ Tenants) \cup {"auth"} /\ Exists(Collector)
    \/ x \in {Collector, "otel"}

\* Mutant: secrets are not watched.
QueuedByCustomResources(x) ==
    \/ x \in Sources \ Secrets /\ Exists(Collector)
    \/ x \in {Collector, "otel"}

\* An event of a watched kind, the auth secret's among them, queues every
\* cached collector; an event of the OpenTelemetryCollector its owner.
QueuedBy(x) ==
    \/ x \in Sources \cup {"auth"} /\ Exists(Collector)
    \/ x \in {Collector, "otel"}
DeliverEvent(x) ==
    /\ Deliver(x)
    /\ queued' = (queued \/ QueuedBy(x))
    /\ UNCHANGED <<workerVars, left>>

Restart ==
    /\ Spend("restarts")
    /\ InitialSync
    /\ queued' = store[Collector].exists
    /\ BecomeIdle

-----------------------------------------------------------------------------
(* Users, the tenant controller, the otel operator *)

Edit(x, v) ==
    /\ v # store[x]
    /\ Spend("edits")
    /\ Put(x, v)
    /\ fresh' = (fresh /\ x # Collector)
    /\ UNCHANGED <<pc, own, listed, todo, need, in, config, errs, queued>>

\* A user applies or deletes the collector; the status stays or is empty.
Applied(spec) ==
    IF ~spec.exists \/ ~store[Collector].exists THEN spec
    ELSE [spec EXCEPT !.state = store[Collector].state, !.problems = store[Collector].problems,
                      !.tenants = store[Collector].tenants]
EditCollector(spec) == Edit(Collector, Applied(spec))

\* Namespaces are watched too; their labels matter to the tenant controller.
QueuedByNamespace == queued' = (queued \/ Exists(Collector))
NamespaceEvent ==
    /\ Spend("edits")
    /\ QueuedByNamespace
    /\ UNCHANGED <<apiVars, workerVars>>

\* The otel operator adopts the OpenTelemetryCollector.
AddFinalizer ==
    /\ store["otel"].exists
    /\ Edit("otel", [store["otel"] EXCEPT !.finalizers = TRUE])

-----------------------------------------------------------------------------
Init ==
    /\ \E scenario \in Scenarios :
         /\ store = [x \in Objects |-> IF x \in DOMAIN scenario.objects THEN scenario.objects[x] ELSE Absent]
         /\ left = scenario.left
    /\ cache = store
    /\ pending = [x \in Objects |-> <<>>]
    /\ pc = "idle" /\ own = Absent /\ fresh = FALSE
    /\ listed = <<>> /\ todo = {} /\ need = {}
    /\ in = NoInput /\ config = NoConfig /\ errs = {}
    /\ queued = store[Collector].exists

Outcomes == {"ok", "conflict", "error"}
WorkerStep ==
    \/ ListTenants \/ TenantsRead \/ GetSecret \/ Assemble \/ CheckConfig \/ Publish
    \/ \E t \in Tenants : VisitTenant(t)
    \/ \E s \in Subscriptions : GetSubscription(s) \/ VisitSubscription(s)
    \/ \E b \in Bridges : GetBridge(b)
    \/ \E o \in Outputs : GetOutput(o)
    \/ \E outcome \in Outcomes :
         \/ \E i \in DOMAIN Rbac : ReconcileRBAC(Rbac[i], outcome)
         \/ ReconcileAuthSecret(outcome) \/ ReconcileOtelCollector(outcome)

Environment ==
    \/ \E x \in DOMAIN EditValues \ {Collector} : \E v \in EditValues[x] : Edit(x, v)
    \/ \E spec \in EditValues[Collector] : EditCollector(spec)
    \/ NamespaceEvent \/ AddFinalizer

Next ==
    \/ WorkerStep
    \/ StartReconcile
    \/ \E x \in Objects : DeliverEvent(x)
    \/ StartError \/ ReadError \/ Restart
    \/ Environment

Spec == Init /\ [][Next]_vars

\* The worker takes a queued request and finishes what it has begun, and
\* outstanding events are delivered, those of what the manager writes each. Go
\* draws the order of a map afresh each time, so if the last one may come up
\* again and again, it does. Edits, failures and restarts owe nothing.
SameLayout == ReconcileOtelCollector("ok") /\ UNCHANGED store
Fairness ==
    /\ WF_vars(StartReconcile \/ WorkerStep)
    /\ WF_vars(\E x \in Sources : DeliverEvent(x))
    /\ \A x \in {Collector, "auth", "otel"} : WF_vars(DeliverEvent(x))
    /\ WF_vars(\E i \in DOMAIN Rbac : DeliverEvent(Rbac[i]))
    /\ SF_vars(SameLayout)
FairSpec == Spec /\ Fairness

-----------------------------------------------------------------------------
(* Properties *)

\* What the resources in the store ask for.
Now(x) == Full(x, store[x])
Stored(S) == {x \in S : store[x].exists}
Conditions == {Now(x).cond : x \in Stored(Subscriptions \cup Bridges)}

\* The worker only holds what the loop it is in expects.
TypeOK ==
    /\ pc \in {"idle", "list", "tenants", "subscriptions", "secret", "assembled", "publish"} \cup Children
    /\ own.exists <=> pc # "idle"
    /\ fresh \in BOOLEAN /\ (fresh => own.exists) /\ queued \in BOOLEAN
    /\ DOMAIN listed = DOMAIN in.tenants /\ DOMAIN in.tenants \subseteq Tenants
    /\ todo \subseteq IF pc = "tenants" THEN DOMAIN in.tenants ELSE DOMAIN in.subs
    /\ need \subseteq IF pc = "tenants" THEN Subscriptions \cup Bridges ELSE Outputs
    /\ errs \subseteq {"conflict", "error"}

\* Why that holds. What is in the store, in the cache and on its way is well
\* formed, and of a source what others have made it.
ApiInv ==
    /\ Streams /\ CacheCoherent
    /\ \A x \in Objects : \A v \in Versions(x) : WellFormed(x, v) /\ (x \in Sources => v \in Proposed(x))

\* What has been read has the fields of its kind.
OutputFields == {"name", "kind", "path", "auth", "batch", "cred"}
InputInv ==
    /\ pc # "idle" => own.exists = TRUE /\ DOMAIN own = CollectorFields
    /\ {"tenants", "subs", "bridges", "outputs"} \subseteq DOMAIN in
    /\ \A t \in DOMAIN listed : /\ listed[t].subs \subseteq Subscriptions /\ listed[t].bridges \subseteq Bridges
                               /\ in.tenants[t].subs = listed[t].subs
    /\ \A s \in DOMAIN in.subs : in.subs[s].outputs \subseteq Outputs
    /\ in.outputs \in Seq(Outs(in))
    /\ \A o \in Outs(in) : DOMAIN o = OutputFields /\ o.name \in Outputs /\ o.kind \in OutputKinds \cup {None}
    /\ in.bridges \in Seq({in.bridges[i] : i \in DOMAIN in.bridges})
    /\ \A i \in DOMAIN in.bridges : \E b \in Bridges : \E v \in Proposed(b) :
         v # Absent /\ in.bridges[i] = BridgeInput(b, Full(b, v))

\* What has not been read yet is still to be visited or fetched.
Followed(s) == \A o \in in.subs[s].outputs : o \in need \/ \E c \in Outs(in) : c.name = o
ReadInv ==
    /\ pc \in {"idle", "list"} => todo = {} /\ need = {}
    /\ pc = "tenants" => UNION {listed[t].subs : t \in DOMAIN listed \ todo} = DOMAIN in.subs \cup (need \cap Subscriptions)
    /\ pc \in {"subscriptions", "secret"} =>
         /\ DOMAIN in.subs = UNION {SubscriptionsOf(in, t) : t \in DOMAIN in.tenants}
         /\ \A s \in DOMAIN in.subs \ todo : Followed(s)
    /\ pc = "secret" => in.outputs # <<>>
    /\ pc = "assembled" => Complete(in)
CollectorInv == TypeOK /\ ApiInv /\ InputInv /\ ReadInv

\* What is assembled is from a complete input, however the resources changed
\* while they were read one by one: a reference that cannot be followed ends
\* the reconciliation, and the generator never meets one.
CompleteInput == At("assembled") => Complete(in)

\* Whatever is written to the OpenTelemetryCollector, from however stale and
\* torn reads, is a configuration whose pipelines, routing tables, storages
\* and authenticators all refer to something in it.
Resolves(cfg) == ReferencesResolve(cfg) /\ RoutesResolve(cfg) /\ ExtensionsResolve(cfg)
WrittenResolves == store["otel"].exists => Resolves(store["otel"].content.config)

\* Why that holds, unless a bridge is turned round or others write a
\* configuration that does not resolve: what has been accepted does.
BridgesKeepEnds ==
    \A b \in Bridges : \A v, w \in Proposed(b) \ {Absent} :
        Full(b, v).source = Full(b, w).source /\ Full(b, v).target = Full(b, w).target
OthersResolve == \A v \in Proposed("otel") : v.exists => Resolves(v.content.config)
ResolveInv ==
    /\ pc = "assembled" => config = AssembleConfig(in) /\ ValidateConfigInput(in)
    /\ pc \in Children => Resolves(config)
    /\ WrittenResolves

\* A log of a tenant is offered to exactly the exporters of the outputs of the
\* matching subscriptions of the tenant and of the tenants it is bridged to
\* (README.md:6, "isolation and access control for telemetry data").
RoutedAsAsked ==
    At("assembled") => \A sat \in SUBSET Conditions : FlowExact(in, config, sat \cup {"true"})

\* Every output's credentials are in the auth secret, under the output's key
\* (collector_manager.go:266, "containing credentials for all outputs that use
\* authentication").
OwnCredentials ==
    At("auth") => \A i \in Authenticated(in) : \A field \in Given(in.outputs[i]) :
                     \E j \in Authenticated(in) :
                        /\ in.outputs[j].name = in.outputs[i].name
                        /\ AuthSecret(in)[SecretKey(in.outputs[i], field)] = in.outputs[j].cred[field]

\* That takes outputs whose namespaces and names differ where the keys differ.
LabelsDistinct ==
    /\ \A o \in Outputs : NsLabels[o] \in Seq(STRING) /\ NameLabels[o] \in Seq(STRING)
    /\ \A o, u \in Outputs : NsLabels[o] \o NameLabels[o] = NsLabels[u] \o NameLabels[u] => o = u

\* The pods can be made, and every directory the configuration writes to is
\* mounted at its path from the host and opened for writing: the volumes and
\* the configuration are put together from the same input by different code.
Mounted(content) ==
    /\ Template!Admissible(content.pod)
    /\ \A s \in content.config.storages :
         Template!Writable(content.pod, Template!DetermineFileStorageDirectory(s.dir, s.tenant))
    /\ \A file \in content.config.files : Template!Writable(content.pod, Template!Dir(file))
DirectoriesMounted == store["otel"].exists => Mounted(store["otel"].content)

\* That takes tenants, outputs and users that do not ask for one directory under
\* two names or for two directories under one.
BufferVolumes(t) ==
    {Template!BufferVolume(t, Full(t, v).dir) : v \in {v \in Proposed(t) \ {Absent} : Full(t, v).storage}}
FileVolumes(o) ==
    {Template!FileExporterVolume(Full(o, v).path) : v \in {v \in Proposed(o) \ {Absent} : Full(o, v).kind = "file"}}
AllBuffers == UNION {BufferVolumes(t) : t \in Tenants}
AllFiles == UNION {FileVolumes(o) : o \in Outputs}
AllLogs == UNION {Template!LogVolumes[i] : i \in DOMAIN Template!LogVolumes}
GivenApart(given) ==
    /\ Template!Admissible(given)
    /\ \A v \in AllBuffers \cup AllFiles :
         ~Template!VolumeExists(given, v.name) /\ \A m \in given.mounts : m.path # v.path
    /\ \A v \in AllLogs : Template!VolumeExists(given, v.name) \/ \A m \in given.mounts : m.path # v.path
DirectoriesApart ==
    /\ \A t, u \in Tenants : \A v \in BufferVolumes(t), w \in BufferVolumes(u) : t # u => v.path # w.path
    /\ \A v \in AllBuffers : \A w \in AllFiles \cup AllLogs : v.path # w.path
    /\ \A v \in AllFiles : \A w \in AllLogs : v.path # w.path
    /\ \A v, w \in AllFiles : v.name = w.name => v = w
    /\ \A v \in Proposed(Collector) \ {Absent} : GivenApart(v.given)

\* Why it holds then, unless others write something else: what is assembled is
\* made of what has been given, of the tenants and of the outputs.
GivenFrom(given) == \E v \in Proposed(Collector) \ {Absent} : given = v.given
OriginInv ==
    /\ \A v \in Versions(Collector) \ {Absent} : GivenFrom(v.given)
    /\ pc # "idle" => GivenFrom(own.given)
    /\ pc \notin {"idle", "list", "publish"} => "given" \in DOMAIN in /\ GivenFrom(in.given)
    /\ \A t \in DOMAIN in.tenants : \E v \in Proposed(t) \ {Absent} : in.tenants[t] = TenantInput(Full(t, v))
    /\ \A o \in Outs(in) : \E v \in Proposed(o.name) \ {Absent} : o = OutputInput(o.name, Full(o.name, v), o.cred)
    /\ pc \in {"assembled"} \cup Children => config = AssembleConfig(in)
OthersMount == \A v \in Proposed("otel") : v.exists => Mounted(v.content)

StoredTenants == {t \in Stored(Tenants) : Now(t).selected}
AskedSubscriptions == UNION {Now(t).subs : t \in StoredTenants}
AskedBridges == UNION {Now(t).bridges : t \in StoredTenants}
AskedOutputs == UNION {Now(s).outputs : s \in Stored(AskedSubscriptions)}
SecretStored(o) == Now(o).auth \in AuthMethods \ {None} /\ store[SecretOf[o]].exists
StoredOutput(o) == OutputInput(o, Now(o), IF SecretStored(o) THEN store[SecretOf[o]].data ELSE NoData)
StoredSubscriptions == [s \in Stored(AskedSubscriptions) |-> SubscriptionInput(Now(s))]
StoredBridges == {BridgeInput(b, Now(b)) : b \in Stored(AskedBridges)}
StoredOutputs == {StoredOutput(o) : o \in Stored(AskedOutputs)}
StoredInput ==
    OtelColConfigInput(store[Collector], [t \in StoredTenants |-> TenantInput(Now(t))], StoredSubscriptions,
                       Ext!SetToSeq(StoredBridges), Ext!SetToSeq(StoredOutputs))
Readable ==
    /\ \A t \in StoredTenants : Now(t).state # "failed"
    /\ \A x \in AskedSubscriptions \cup AskedBridges \cup AskedOutputs : store[x].exists
    /\ \A o \in Stored(AskedOutputs) : Now(o).auth # None => SecretStored(o)
Deployable ==
    /\ store[Collector].exists /\ Readable
    /\ ValidateConfigInput(StoredInput)
    /\ ValidateAssembledConfig(AssembleConfig(StoredInput))

ChildrenDeployed ==
    LET input == StoredInput
        cfg == AssembleConfig(input)
    IN  /\ \A child \in Children : store[child].exists
        /\ store["auth"].content = AuthSecret(input)
        /\ \E layout \in Layouts(input, cfg) : store["otel"].content = OtelCollector(input, cfg, layout)
Deployed ==
    /\ store[Collector].exists /\ store[Collector].state = "ready" /\ store[Collector].problems = {}
    /\ store[Collector].tenants = StoredTenants
    /\ ChildrenDeployed

\* A collector that has been left alone has everything deployed as its
\* resources ask for now: no stale read, skipped update, conflict, error or
\* restart was final.
LeftAlone == pc = "idle" /\ ~queued /\ \A x \in Objects : CacheCurrent(x)
SettledDeployed == LeftAlone /\ store[Collector].exists => Deployable /\ Deployed

\* The environment of the collector's pods refers to keys of the auth secret
\* that are there, or the collector is being seen to: the secret is written
\* first, so a removed output is for a while in the one and not in the other.
AuthKeys == IF store["auth"].exists THEN DOMAIN store["auth"].content ELSE {}
EnvBacked ==
    store["otel"].exists /\ store[Collector].exists =>
        \/ store["otel"].content.env \subseteq AuthKeys \cup {NodeName}
        \/ queued \/ pc # "idle" \/ \E x \in Objects : ~CacheCurrent(x)

\* Why that holds, if the secrets have the fields that are asked for. The
\* collector is seen to, or comes to be, once a watched object changes.
Watched == Sources \cup {Collector, "auth", "otel"}
Seen ==
    \/ queued \/ ~store[Collector].exists
    \/ \E x \in Watched : ~CacheCurrent(x)
SecretsComplete ==
    \A o \in Outputs : \A v \in Proposed(o) \ {Absent} : \A w \in Proposed(SecretOf[o]) \ {Absent} :
        Full(o, v).auth # None => Fields(Full(o, v)) \subseteq DOMAIN w.data
Credited(o) == HasAuthentication(o) => Fields(o) \subseteq DOMAIN o.cred
CredentialInv ==
    \A i \in DOMAIN in.outputs : Credited(in.outputs[i]) \/ (pc = "secret" /\ i = Len(in.outputs))
EnvOK == store["otel"].exists => store["otel"].content.env \subseteq AuthKeys \cup {NodeName}
EnvInv ==
    /\ pc = "otel" => Env(in) \subseteq AuthKeys \cup {NodeName} \/ Seen
    /\ pc = "publish" => own.state = "failed" \/ EnvOK \/ Seen
    /\ pc = "idle" => EnvOK \/ Seen

\* Why a collector that has been left alone has everything deployed, if nobody
\* touches the roles, which are not watched, and what is written does not depend
\* on the order of the outputs (LabelsDistinct, DirectoriesApart). Unless the
\* collector is to be seen to again, what has been read is what is stored: as
\* far as the loops over tenants and subscriptions have got, ...
RbacLeftAlone == \A i \in DOMAIN Rbac : Rbac[i] \notin DOMAIN EditValues
InputOf(subs) ==
    OtelColConfigInput(store[Collector], [t \in StoredTenants |-> TenantInput(Now(t))], subs, in.bridges, in.outputs)
ListedNow == DOMAIN listed = StoredTenants /\ (\A t \in StoredTenants : listed[t] = Now(t)) /\ in = InputOf(in.subs)
SubscriptionsNow ==
    /\ DOMAIN in.subs \subseteq Stored(AskedSubscriptions)
    /\ in.subs = [s \in DOMAIN in.subs |-> SubscriptionInput(Now(s))]
BridgesNow == \A i \in DOMAIN in.bridges : in.bridges[i] \in StoredBridges
OutputNow(o) == o = StoredOutput(o.name) /\ (o.auth # None => SecretStored(o.name))
OutputsNow ==
    \A i \in DOMAIN in.outputs :
        LET o == in.outputs[i]
        IN  /\ o.name \in Stored(AskedOutputs)
            /\ IF pc = "secret" /\ i = Len(in.outputs)
               THEN o = OutputInput(o.name, Now(o.name), NoData) /\ o.auth # None
               ELSE OutputNow(o)
AskedNow == need \subseteq IF pc = "tenants" THEN AskedSubscriptions \cup AskedBridges ELSE AskedOutputs
Visited(t) ==
    /\ Now(t).state # "failed"
    /\ \A b \in Now(t).bridges : (pc = "tenants" /\ b \in need) \/ \E i \in DOMAIN in.bridges : in.bridges[i].name = b
VisitedNow == \A t \in StoredTenants : (pc = "tenants" /\ t \in todo) \/ Visited(t)
ReadNow == ListedNow /\ SubscriptionsNow /\ BridgesNow /\ OutputsNow /\ AskedNow /\ VisitedNow

\* ... and all of it once the input is complete.
InputNow ==
    /\ Readable /\ ValidateConfigInput(in)
    /\ in = InputOf(StoredSubscriptions)
    /\ {in.bridges[i] : i \in DOMAIN in.bridges} = StoredBridges /\ Outs(in) = StoredOutputs
OwnReady == own = [store[Collector] EXCEPT !.tenants = StoredTenants, !.state = "ready", !.problems = {}]
Settling ==
    /\ pc \notin {"idle", "publish"} => own = store[Collector]
    /\ pc \in {"tenants", "subscriptions", "secret"} => ReadNow
    /\ pc \in {"assembled"} \cup Children => InputNow
    /\ pc \in Children => ValidateAssembledConfig(config)
    /\ pc = "otel" => store["auth"].exists /\ store["auth"].content = AuthSecret(in)
    /\ pc = "publish" => own.state = "failed" \/ (OwnReady /\ Deployable /\ ChildrenDeployed)
    /\ pc = "idle" => Deployable /\ Deployed

\* The parts of ReconcileRBAC that have been gone through are there.
RbacThere == \A i \in DOMAIN Rbac : store[Rbac[i]].exists
RbacInv ==
    /\ \A i \in DOMAIN Rbac : \A v \in Versions(Rbac[i]) : v.exists => store[Rbac[i]].exists
    /\ pc = "sa" => store["role"].exists \/ errs # {}
    /\ pc = "binding" => (store["role"].exists /\ store["sa"].exists) \/ errs # {}
    /\ pc \in {"auth", "otel"} => RbacThere
SettleInv == RbacInv /\ (Seen \/ Settling)

\* An update never takes away the finalizer of the otel operator.
KeepsFinalizers ==
    [][store["otel"].exists /\ store'["otel"].exists /\ store["otel"].finalizers
          => store'["otel"].finalizers]_vars

OthersKeepFinalizers ==
    "otel" \in DOMAIN EditValues => \A v \in EditValues["otel"] : v.exists => v.finalizers

\* Once nobody interferes any more, what can be deployed is.
CollectorSettles == <>[](Deployed \/ ~Deployable)

\* And the manager comes to rest: writing what its own writes bring it back to
\* does not go on without end, although the rows of a table change their order.
ComesToRest == <>[](LeftAlone \/ ~Deployable)

-----------------------------------------------------------------------------
(* What the repository says and the code does not do; the runs that check     *)
(* these find a violation.                                                    *)

\* collector_controller.go:143: that there are no resources "is not a failure
\* state".
NoResourcesNotFailed ==
    store[Collector].exists /\ (\A x \in Sources : ~store[x].exists /\ CacheCurrent(x))
        => store[Collector].state # "failed"
=============================================================================
