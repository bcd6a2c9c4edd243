# Telemetry Controller in TLA+

This directory is a formal model of the
[telemetry-controller](https://github.com/kube-logging/telemetry-controller),
a Kubernetes operator that turns `Tenant`, `Subscription`, `Output`, `Bridge`
and `Collector` objects into OpenTelemetry collector configurations. TLC checks
the model on small instances and TLAPS proves its central properties for every
size. Everything is translated from the Go source; `PROJECT.json` maps each
definition to the lines it models.

## Inventory

| Component | State | Operations | Interacts with |
|---|---|---|---|
| Tenant ("route") controller, `controllers/telemetry/route_controller.go` | a work queue of tenants; the locals of one `Reconcile` | `Reconcile`: log-source namespaces, owned outputs, owned subscriptions and their validation, bridges, status | API server through a cached client; woken by Tenant, Subscription, Output, Bridge and Namespace events |
| Tenant resource manager, `pkg/resources/manager/tenant_resource_manager.go` | none of its own; writes `status.tenant`, `status.state`, `status.problems`, `status.outputs` | select, mark conflict, adopt, disown, validate referenced outputs | called by the tenant controller |
| Bridge manager, `pkg/resources/manager/bridge_manager.go` | none | list the bridges of a tenant, validate both ends | called by the tenant controller |
| Collector controller, `controllers/telemetry/collector_controller.go` | a work queue of collectors | `Reconcile`: read inputs, validate, assemble, RBAC, secret, `OpenTelemetryCollector`, status | reads what the tenant controller writes (statuses) |
| Collector manager, `pkg/resources/manager/collector_manager.go` | none | read inputs, refuse failed tenants, build the deployed objects: roles, auth secret, `OpenTelemetryCollector` with its environment and volumes | called by the collector controller |
| Configuration generator and validator, `pkg/resources/otel_conf_gen` | none, pure | which components and pipelines exist and refer to which | called by the collector controller |
| Kubernetes API, informers, work queue | store, watch streams, cache, queue | external | everything above |

Two controllers run in one process, each with a single worker
(`MaxConcurrentReconciles` is left at 1) and a shared cache. They talk to each
other only through the statuses in the API server.

What is hard about it:

* **Stale reads.** Every `Get` and `List` is served by the informer cache; a
  write is a separate request, refused if the copy is not the stored version.
  A reconciliation makes many reads and writes, and events arrive between any
  two of them.
* **Errors that are only logged.** Failing to adopt, disown or mark a resource
  does not fail the reconciliation.
* **Tenants that compete** for one resource: ownership is a status field that
  every tenant may write.
* **Crashes** between the writes of one reconciliation, requests that fail
  before or after they were applied.
* **Waking up.** A tenant or collector is looked at again only if an event or
  an error queues it.
* **Torn inputs.** The collector reads tenants with one `List` and everything
  they refer to with a `Get` each, some objects more than once, while users and
  the tenant controller rewrite them.
* **Sections that are only joined by names.** Exporters, processors,
  connectors, routing tables and pipelines are generated apart from each other;
  a name that is missing, or that two objects share, shows in the running
  collector only. The same goes for volumes and the directories the
  configuration writes to.
* **Orders nobody chose.** Go maps and lists of the cache are gone through in
  an order that changes from one reconciliation to the next, and some of it is
  visible in what is written.
* **Two controllers on one store.** The collector controller reads, object by
  object, what the tenant controller writes object by object.

What makes each component correct:

* tenant controller and managers: a resource has at most one owner and changes
  hands only by way of nobody; what is reported is the tenant's own; failures
  are retried; when nothing is left to do, statuses agree with the specs;
  resources end with the tenant that selects them; bridges recover;
* collector controller: a configuration is only deployed if every tenant in it
  is healthy, the deployed secret and configuration belong together, every
  directory the configuration writes to is mounted, it follows the statuses
  eventually and then comes to rest;
* both together: what is deployed at rest sends logs where the specs say, and a
  route that has become wrong is being seen to until it is gone;
* configuration generator: every name a pipeline uses is defined, and data of a
  tenant reaches only outputs of its subscriptions and bridges.

## Modules

| Module | Role |
|---|---|
| `KubeApi` | the store, the watch streams and the informer cache |
| `RouteReconciler` | the tenant controller with its two managers, users, failures and restarts; its properties and the mutants of its definitions |
| `TenantOwnership` | what the tenant controller promises about `status.tenant`; `RouteReconciler` refines it |
| `MCRoute` and `MCRoute*.cfg` | instances for TLC |
| `RouteProofs` | type correctness, for every instance |
| `OwnershipProofs` | the refinement of `TenantOwnership`, for every instance |
| `StatusProofs` | what the tenant controller holds, reports and retries, for every instance |
| `ProgressProofs` | what a tenant is like once it has been left alone, for every instance |
| `ConfigGen` | the configuration generator and its validation, as functions of the input; the reference definition of who may receive what |
| `PodTemplate` | volumes, mounts and init container of the collector's pods, as a function of the input |
| `CollectorReconciler` | the collector controller with its manager, over `KubeApi`, `ConfigGen` and `PodTemplate`; its properties and mutants |
| `MCCollector` and `MCCollector*.cfg` | instances for TLC |
| `ConfigGenProofs` | what the generated configuration refers to is in it, what it depends on, and where it sends the logs of a tenant, for every input |
| `CollectorProofs` | lemmas on a write, a watch event and a restart; type correctness of the collector controller and completeness of what it reads, for every instance |
| `WrittenProofs` | where what it assembles sends the logs, and what it has written to the auth secret and the `OpenTelemetryCollector`, for every instance |
| `SettledProofs` | what is deployed once the collector controller has been left alone, for every instance |
| `TelemetryController` | the two controllers (instances of `RouteReconciler` and `CollectorReconciler`) on one store, cache and set of watch streams |
| `MCController` and its `.cfg` | an instance for TLC |

### KubeApi

`store[x]` is the object in etcd, `cache[x]` the one in the informer, and
`pending[x]` the versions on their way from one to the other. `Put` is an
accepted write; writing the stored value again is a no-op of the API server
(same resourceVersion, no event). `Deliver` is one watch event. Versions are
not numbered: all the code can do with a resourceVersion is send it back, and
the server compares it for equality. A cached object has the stored version
exactly when `pending[x]` is empty, and the worker's set `fresh` says which of
its copies still have it.

### RouteReconciler

`pc` follows the code of `Reconcile`: `logsources` → `list` → `claim` →
`release` (once for outputs, once for subscriptions; `kind` says which) →
`validate` ⇄ `outputs` → `source` → `target` → `bridges` → `publish` → `idle`.

* `mine`, `outs`, `todo`, `sub`, `refs`, `valid` are the locals
  `resourcesForTenant`, `allOutputsForTenant`, what is left of the list being
  looped over, the subscription being validated, what is left of its
  `spec.outputs`, and `validOutputs`. `copy[x]` is the Go object read for `x`.
  Lists are sets: the code loops over them in an order (of the cache) that it
  does not control, except that conflicts are handled while the list is split
  and before the first adoption, and source bridges before target bridges.
* One `List`, one `Get` or one `Status().Update` is one action; what lies
  between two of them touches nothing shared and belongs to the action before
  or after it.
* `UpdateOk` and `UpdateErr` are the two outcomes of `Status().Update`. An
  update fails if the copy is not fresh, and, as often as `MaxFaults` allows,
  for no reason of ours, with or without having been applied. The two errors of
  an action that needs two failures at once (the secret lookup and the update
  that reports it) are not combined.
* `Status().Update` of tenants, subscriptions and bridges is always called:
  `ClearProblems` stores an empty slice where the decoded object has nil, so
  `reflect.DeepEqual` never finds the status unchanged (for subscriptions it
  compares a pointer with a struct). The API server then finds nothing to do.
* Selectors are sets of labels; a namespace carries one label; a selector may
  be malformed. Namespaces and secrets are read as they are, without a lag of
  their own: a lag of theirs is an edit that comes later. Secrets are not
  watched by this controller.
* `Restart` throws the worker's state away at any step; the initial list of the
  next process queues every tenant.
* Users create, change and delete objects, relabel namespaces, and add and
  remove secrets, at most `MaxEdits` times in all. They do not write statuses.

### ConfigGen

The input is a record of what `BuildConfigInputForCollector` has read. Tenants
and subscriptions are functions, outputs and bridges sequences, because the
slices may hold two copies of an object: pipelines take the first copy of an
output (`slices.IndexFunc`) and of a bridge (`addConnectorToPipeline` leaves a
pipeline alone that has the connector), the map of connectors keeps the last.

The configuration is a record of sets: exporters, processors, extensions,
receivers, connectors with their tables, and pipelines. A name is a tuple of
its prefix and the objects it is put together from; objects of Kubernetes have
neither `_` nor `/` in their names, so nothing is lost. Where the code uses
`metadata.name` without the namespace the tuple holds `NameOf[x]`, which two
objects may share.
`FindTenantForOutput` loops over a Go map: `ExtensionRefs` takes every tenant it
may return, and `QueueStorages` are all the choices. `TableOrders` are the
orders in which the rows of the routing tables may come, and `AdditionalArgs`
depends on the order of the tenants if two transforms share a name. All three
are part of what is written, and drawn anew at each reconciliation (`Layouts` in
`CollectorReconciler`). `storages` and `files` are where the configuration
writes to. `ReferencesResolve` is what otelcol checks when the assembled
configuration is validated: names in pipelines. `RoutesResolve` and
`ExtensionsResolve` say the same of what otelcol does not check.

`ReachedExporters` follows a log through pipelines and tables, for a set of
conditions it may satisfy; `FlowExact` compares where it ends with the definition read off
the resources: the outputs of the matching subscriptions of the tenant and of
the tenants that bridges with matching conditions lead to, or the default
pipelines of a tenant none of whose conditions matches.

### PodTemplate

A path is a sequence of segments and a segment a sequence of words, since what
matters is that `/` becomes `-` and upper case lower case. `Pod` follows
`handleVolumes` (buffers of tenants with persistence, then directories of file
exporters, each added unless there is a volume of that name, each in the init
container too) and `setOtelCommonFieldsDefaults` (the directories of the
container logs). Volumes and mounts are sets of pairs of name and path: the order
they are listed in, which is that of the input, is left out. `Writable` and `Admissible` are what
the pods need.

### CollectorReconciler

`pc`: `list` → `tenants` → `subscriptions` ⇄ `secret` → `assembled` → `role` →
`sa` → `binding` → `auth` → `otel` → `publish` → `idle`. Again one request to
the API or the cache is one action.

* `own`, `listed`, `in`, `config`, `errs` are the locals; `todo` and `need` are
  what the two nested loops have left. The code loops over lists (of the cache)
  and maps, so the order is free, but a tenant's subscriptions come before its
  bridges, and a secret right after its output.
* `HandleError` is `handleCollectorReconcileError`. A conflict and a failed
  tenant leave the status alone and queue a delayed retry; everything else
  marks the collector failed. Time is not modelled: a delayed request is a
  queued one.
* `ReconcileResource` is operator-tools' (external): get from the cache, create
  or update what differs. A child may be created behind the cache's back,
  changed by the otel operator (`AddFinalizer`) or deleted.
* `Publish` is always an update, for the reason given above for tenants.
* The environment is the set of secret keys it refers to: the names of the
  variables are put together from the same words as the keys, in upper case.
* `Cached(x)` is the object as it is read. It is the cached value itself when
  the module stands alone; in `TelemetryController` it is put together from what
  the tenant controller keeps (`Full`).
* There is one collector: collectors share nothing but the worker. Statuses of
  tenants, subscriptions and outputs are inputs here, changed by `Edit`, and
  not always as the tenant controller would change them.
* Dry-run mode implies debug mode (a validation rule of the CRD), so the third
  combination is left out.

### TelemetryController

The variables `store`, `cache` and `pending` are shared; the locals and the work
queue of each worker are its own. A step is a step of one of the two modules with the
other's variables unchanged; an event is delivered once and runs the handlers of
both controllers. The manager starts at rest, with everything deployed, and
then a namespace is relabelled. Failed requests, restarts, other edits and
credentials are left to the two modules.

To keep the product small, steps that commute with all of the other process
are taken at once (`RouteLocal`, `CollectorLocal`, `Unseen`): the transitions
between two loops and steps over empty lists, which read and write only locals
of the worker; the checks and the writes of the collector and its children,
which only the collector controller reads and writes; and the delivery of the
latter, which queues nobody else. Such a step can be moved ahead of steps of
the others without changing what these read or write, so each behaviour has one
with the same writes to tenants, subscriptions and outputs in the same order.
What is lost is a delay between the collector's own writes and its own events,
which `collector_live` has.
`Late` names the objects whose events may be late; events of the others are
delivered before anything else happens, which for tenants, subscriptions and
outputs is a bound and not a reduction.

## Runs

Deadlock is not checked: when edits, faults and restarts are used up and
nothing is queued, a controller rightly waits. The runs of the tenant
controller use `MCRoute`, those of the collector controller `MCCollector`, and
that of both `MCController`.

| Run | Instance | Checks |
|---|---|---|
| `route_core` | two tenants, one namespace that changes sides, one output, one subscription that refers to it, one edit | `TypeOK`, `OwnershipSpec`, `NoTenantMismatch`, `ReportsOwn`, `SettledConsistent` |
| `route_faults` | two tenants that pick the same namespace, an output with a secret, one failed request anywhere | `OwnershipSpec`, `StaleNotForeign`, `FailureRetried` |
| `route_specs` | one tenant, two edits of anything (malformed selectors, references, secret, labels, recreation), one restart | `SettledConsistent` |
| `route_bridges` | a bridge to a tenant that comes and goes and one from a tenant to itself, two edits, one fault | `BridgesSettle` |
| `route_live` | two tenants at rest (`HandoverInit`), then the namespace with the subscription and the output of one passes to the other | `OwnershipSettles`, `TenantsSettle` |
| `collector_written` | 195 clusters: modes, shared subscriptions and outputs, conditions, bridge, storage, transforms, default pipelines, files, kinds of exporters and credentials, among them two that are refused; and two bridged tenants whose subscriptions share an output, with two edits | `TypeOK`, `WrittenResolves`, `RoutedAsAsked`, `OwnCredentials`, `DirectoriesMounted`, `SettledDeployed`, `KeepsFinalizers` |
| `collector_live` | one tenant, subscription, output and secret, complete or with a hole; one edit of anything, one fault, one restart (together in the complete cluster, an edit with either in the others); and two tenants with two-row tables and a shared queue, left alone | `CompleteInput`, `SettledDeployed`, `EnvBacked`, `CollectorSettles`, `ComesToRest` |
| `controller_handover` | two tenants, one of which gives up a namespace with a subscription and an output to the other, between any two steps of either controller | `IsolatedAtRest`, `StaleRouteEnds` |

The bounds are the smallest at which the cases above happen: two tenants for a
conflict, one resource of each kind for the output-before-subscription order,
one lagging version for a stale read (two in `disown_selected`, where a
delivery must not bring the cache up to date), one restart or fault because the
controller keeps no record of earlier ones. For the collector two tenants, subscriptions and outputs are
enough to share a name, a row of a table, an output or a bridge, and two edits
to change an object before and after it was read. For both controllers together
one subscription and output are what changes hands, and one relabelling both
takes them from one tenant and gives them to the other. Between them the passing
runs fire every action.

`route_live` starts with everything at rest, in a state `Init` leads to: the
graph of all behaviours from `Init` (1.3 million states) is too large for a
check of liveness, and what comes before the relabelling is in `route_core`.
For the same reason the events of the subscription are prompt in
`controller_handover`, those of tenants and the output may be late (`Late`).
`IsolatedAtRest` also holds with all of them late (1.2 million states, without
`StaleRouteEnds`).

**Handed-over outputs.** The liveness properties have a hypothesis that the code
needs. A tenant that comes to a namespace before the old one has left marks the
outputs there failed, for the conflict. The old tenant then disowns them and the
new one adopts them, and neither clears the mark. A failed output of its own
ends each reconciliation of the new tenant before the subscription pass, where
alone outputs become ready: the tenant is `Barred`, for good. So
`OwnershipSettles` says that outputs always end with the only tenant that
selects them, and subscriptions if neither the tenant that gives nor the one
that takes them is barred; `TenantsSettle` and `StaleRouteEnds` are about
tenants that are not. In both runs either case happens: whether the new tenant
ends up barred depends on which of the two is reconciled first. Without the
hypothesis TLC refutes all three. A barred tenant never adopts the subscriptions
it selects, and the collector answers each of its retries with `ErrTenantFailed`:
what was deployed stays, with a route of the old tenant to an output that is now
the new one's. Only deleting and recreating the output, or mending its status by hand, ends that.
`IsolatedAtRest` says nothing then, since the controllers never come to rest.

**Fairness.** `FairSpec`: the worker finishes what it has begun (weak), each
watch stream makes progress (weak per object), and the work queue does not
starve a tenant (strong per tenant: the queue is first-in first-out, and a
tenant may leave it and come back). Failures, restarts and users owe nothing.
`CalmSpec` adds `Independence`: the event of an adoption that keeps being
outstanding while the worker is idle is at some time delivered then. Without it the scheduler may for
ever deliver a tenant's own adoption between its two `List` calls, which makes
it disown and adopt the resource without end (see `disown_selected`); nothing
in the code excludes that, but event delivery takes milliseconds and knows
nothing of the worker. The liveness properties about ownership are claims under
that assumption.

`FairSpec` of both controllers together asks for less: the two workers and the
watches make progress, and late events also arrive between reconciliations; the
order of the queue does not matter. It is strong where the modules of the two
have weak fairness, because here a process waits while a local step of another
is taken (see `RouteLocal` above). In the program it does not wait.

The collector's `FairSpec`: the worker takes a queued request and finishes what
it has begun, an outstanding event of what it reads is delivered, and each
outstanding event of what it writes, all weak. Strong fairness of `SameLayout`
stands for Go's random iteration order: if a reconciliation may, again and
again, order the rows and choose the queues as in the `OpenTelemetryCollector`
that is stored, then at some time it does. Then nothing is written, no event
follows, and the manager rests (`ComesToRest`). Nothing in the code makes that
happen sooner: until then each reconciliation rewrites the
`OpenTelemetryCollector`, whose event queues the next one, and the otel operator
rolls the pods. With n rows the same order comes up once in up to n! times.

### Disagreements between the code and what the repository says

| Run | What happens |
|---|---|
| `disown_selected` | an event between the two `List` calls makes a tenant disown a resource it selects |
| `output_stuck` | an output that failed for a missing secret stays failed when the secret is there: the failed output ends the pass before the validation that would clear it. The same happens to an output that failed for a conflict and was then handed over (see "Handed-over outputs") |
| `no_resources` | a collector without any resources is failed: `IsEmpty` is never true |
| `secret_keys` | the outputs `a-b/c` and `a/b-c` have one key in the auth secret |

`PROJECT.json` quotes the lines. These properties are stated as the repository
words them and TLC's counterexample is the scenario.

Met while modelling, and not asked about by any run:

* An adoption, a disowning or the update of an output that fails for another
  reason than a conflict is only logged. A conflict means that an event is on
  its way, which queues the tenant; here nothing does. The tenant's own status
  event still saves it if that status changes; if not, the resource stays as it
  is until something else happens. (`SettledConsistent` is checked without such
  failures and proved for `NothingSwallowed`. With `MaxFaults = 1` in
  `route_core` TLC finds a tenant at rest that keeps an output it no longer
  selects.)
* Two tenants that select one subscription write its state in turns for ever:
  the conflict mark of one and the ready mark of the other queue both.
* A subscription that has changed hands is for a while listed by two ready
  tenants: it is disowned before the old tenant's status is written.
* Resources of a deleted tenant keep its name in `status.tenant`, so nobody can
  adopt them, and bridges to it stay ready. (`OwnershipSettles`,
  `TenantsSettle` and `BridgesSettle` are about tenants that stay or come
  back.)
* Outputs of one name in two namespaces overwrite each other's batch and
  exporter-name processors, and tenants with transforms of one name each
  other's transform.
* When the last subscription of the tenants of a collector is withdrawn,
  `validateSubscriptionsAndBridges` refuses the input and the collector is
  failed; what was deployed before stays, and so do its routes.
* A failed tenant holds up the collector for all other tenants: their changes
  are deployed once it is healthy again. With a failed output it never is, not
  even when the cause is gone (see `output_stuck` and "Handed-over outputs"),
  and neither are they.
* Equal inputs give `OpenTelemetryCollector`s that differ in the order of rows,
  and each difference is written (see Fairness).
* Directories of file outputs that differ only in case, or in `/` against `-`,
  get one volume name, and only the first is mounted. A file directly in
  `/var/log` makes two mounts of that path, which Kubernetes refuses; a
  directory with `_` or `.` in it makes a volume name that is not allowed.
  (`DirectoriesMounted` is checked and proved for directories that stay apart.)
* `tenant_types.go:93` says of the persistence directory that a default is used
  if "an invalid path is given"; the code takes any path that is not empty.
* Default pipelines are passed on unchecked.
* A user secret without the field an output names leaves the pods with a
  `secretKeyRef` to a key that is not in the auth secret, and the collector is
  ready. (`EnvBacked` is checked for secrets that have the field.)
* A bridge turned round between its two reads gives a configuration whose
  table leads to a pipeline that does not take from it, until the next
  reconciliation. (`WrittenResolves` is checked for bridges that keep their
  ends.)

## Proofs

All theorems hold for every value of the constants that satisfies the named
assumptions of the modules, so for any number of tenants, resources, edits,
failures and restarts. No proof rests on what a run found; TLC checked each
inductive invariant on a run first.

### Tenant controller

The assumptions are those of `RouteReconciler`: kinds of objects are disjoint,
the settings have their types, the bounds are naturals.

* `TypeCorrect`: `Spec => []TypeOK`. `TypeOK` is inductive. Besides the types
  it says that `todo` and `mine` hold resources of the kind of the current
  pass (or pairs of bridge and side), and that the worker is idle exactly when
  it has no tenant.
* `OwnershipInvariant`: `Spec => []OwnershipInv`. The refinement needs to know
  that an accepted update was computed from the stored object. `FreshTrue` says
  that a fresh copy of a resource agrees with the store about existence and
  owner; to keep it when copies are read, `CacheCoherent` is needed (each watch
  stream ends with the stored object, so an empty one means the cache is
  current). `ReleasesOwn` says that what is about to be disowned was read as
  the tenant's own, `AbsentFree` that a deleted object has no owner.
* `OwnershipRefinement`: `Spec => OwnershipSpec`. Each action is a step of
  `TenantOwnership` or changes no owner: `Adopt` is `Take` because the copy was
  free and fresh, `Disown` is `GiveUp` by `ReleasesOwn`, creation and deletion
  by users are `Appear` and `Vanish`, starting and ending a reconciliation
  `Begin` and `End`, everything else is quiet (`QuietStep`).
* `CacheNotForeign` (`StaleNotForeign`) from `StreamInvariant`. It is about one
  cached version, but the next watch event makes another one current, so the
  invariant `StreamInv` is about all of them: the versions of a resource in
  cache and watch stream name one tenant or none (`OneOwner`). What keeps it is
  that a tenant is written where none was only over the stored version, when
  the cache is the only version left (`ClaimsCurrent`).
* `NeverMismatched` (`NoTenantMismatch`) from `HoldsOwnInvariant`: all that the
  worker holds as the tenant's own it has read or written as such, and the two
  passes of `handleOwnedResources` do not touch each other's lists.
* `ReportsOnlyOwn` (`ReportsOwn`) from `HoldsKeptInvariant`: what is held was
  the tenant's in some version, by `OneOwner` no version names another tenant,
  and as there is one worker no other tenant claims meanwhile.
* `FailuresRetried` (`FailureRetried`), with `TenantsThere`: a deleted tenant
  has no status, so a failed one exists and a restart queues it.
* `AlwaysSettledConsistent` (`SettledConsistent`) for `NothingSwallowed`: no
  request fails for another reason than a conflict in a loop that only logs it.
  Other requests may fail, before or after they are applied. What a
  reconciliation has found out may be wrong a step later, so the invariant
  `ProgressInv` (`ProgressInvariant`) says of each tenant that it is `Attended`
  (queued, gone, or an event of the tenant, a resource or a bridge is on its
  way), or being reconciled with all that has been looked at as it should be
  (`Progress`, pass by pass: `Claiming`, `Releasing`, `Validating`,
  `Reported`) or bound to fail (`GivenUp`), or `Consistent`. Lemma
  `StillOrStarted` shows of every step but the start of the tenant's
  reconciliation that, if the tenant is not `Attended` after it, nothing the
  tenant is about has changed and nothing was on its way before (`Still`): a
  delivery of such an event or a new label queues every cached tenant, and a
  write or an edit puts an event on its way. So all the worker of an undisturbed
  tenant reads is what is stored (`ReadTruly`), its requests cannot conflict
  (`FreshAnswered`) and change nothing (`IdleRequest`). An adoption or a
  disowning would change something and cannot happen (`GoUnchanged`), which is
  why there is nothing to adopt or to disown; the outputs and subscriptions
  that are marked carry the marks already; and the status that is published is
  the stored one, ready and with all that `Reported` says (`GoPublish`).

### Configuration generator

For every input (no state is involved):

* `ExtensionsAlwaysResolve`: every storage and authenticator that an exporter
  or a receiver refers to is among the extensions. It holds for any input at
  all.
* `RoutesAlwaysResolve`: every pipeline in a routing table exists and has the
  connector among its receivers. It needs `Complete` (what is referred to was
  read; `AlwaysComplete` proves it of the reconciler), the validation of
  bridges, and `ConsistentBridges`, without which it is false (a bridge turned
  round, above). The pipelines take the first copy of a bridge that has the
  tenant at an end and the table the last copy; lemma `Least` supplies the
  first, as the least index of a non-empty set of naturals (well-founded
  induction from the library), and `TargetReceives` shows that it is an
  incoming bridge of the target.
* `AlikeAssembled`: inputs that have the same tenants, subscriptions and modes
  and the same sets of outputs and bridges (`Alike`), each in one version
  (`OneCopy`), are both accepted or both refused and give the same
  configuration, however often and in whichever order the outputs and bridges
  are listed. Where a generator takes the first or the last copy, there is one
  (`FirstAndLast`), and it is the copy (`TheCopy`, `TheBridges`, `TheFiles`).
* `FlowsAsAsked`: `FlowExact` for every set of conditions a log may meet, where
  the input is `Usable`: complete, valid, with consistent bridges and finite.
  Both what is reached in the configuration (`Follow`) and what is asked for
  (`Cross`) are sets to which steps are applied until nothing is added.
  `LeastFixpoint` says of such a set that it is the least one that is closed
  under the steps, if what it can grow to is finite: then there is a number of
  steps after which it does not grow (`StopsGrowing`). `Induction` is stated of
  a set of numbers, not of a predicate, and follows from `Least`. `Offered` are
  the pipelines the tenant's log should get to: those of the tenants it is
  bridged to, of their matching subscriptions and of the outputs of these.
  `OfferedClosed` shows that no connector leads out of them and `ReachedExactly`
  that each one of them is led to; `LeafExports` and `OnlyLeavesExport` then
  compare the exporters. That the names of pipelines and connectors tell them
  apart is `NamesTell` and `PlainNames`.

### Collector controller

The assumptions are those of `CollectorReconciler`: kinds of objects are
disjoint, there are finitely many tenants, subscriptions, outputs and bridges
(`KindsAssumption`), and what users and the tenant controller make of an object has the
fields of its kind and refers to objects of the right kind
(`ObjectsAssumption`), which is what the CRD schemas and Go's types guarantee.

* `CollectorInvariant`: `Spec => []CollectorInv`, and from it
  `CollectorTypeCorrect` (`TypeOK`) and `AlwaysComplete` (`CompleteInput`).
  `TypeOK` is not inductive, as what the worker holds depends on what it read.
  `ApiInv` says that every version in store, cache and watch streams is well
  formed, `InputInv` that what has been read of them is, and `ReadInv` that
  what has not been read is still to come: the subscriptions of visited tenants
  are in the input or in `need`, and so are the outputs of visited
  subscriptions.
* `WrittenAlwaysResolves` (`WrittenResolves`) for `BridgesKeepEnds` and
  `OthersResolve`. `ResolveInv` follows the configuration from `Assemble`
  through its validation to the store. At `CheckConfig` the input is complete,
  its bridges are copies of versions that have the same ends, and what was
  assembled passed the validation: with the theorems on the generator,
  everything resolves.
* `AlwaysRoutedAsAsked` (`RoutedAsAsked`) for `BridgesKeepEnds`: what is held at
  "assembled" comes from a valid input, and by `CollectorInv` from a usable
  one, so `FlowsAsAsked` applies (`InputUsable`).
* `FinalizersKept` (`KeepsFinalizers`) for `OthersKeepFinalizers`: the hook
  copies the finalizers of the cached object, and an update is only accepted if
  that is the stored one (`Reconciled`).
* `CredentialsOwn` (`OwnCredentials`) for `LabelsDistinct`: a key starts with
  the kind of authentication and ends with the field, so equal keys have equal
  labels between them and are one output's. The greatest index under a key
  exists because the input is a finite sequence.
* `DirectoriesAlwaysMounted` (`DirectoriesMounted`) for `DirectoriesApart` and
  `OthersMount`. `OriginInv` says where the input comes from: what a user gave
  the collector, versions of tenants and of outputs. So all volumes the pods
  ask for are among those of `DirectoriesApart`, in whatever order the tenants
  and outputs were read and however stale each of them was. `AskedAdded` says
  that what is asked for is added or was there under its name (the first of a
  name is the least position, lemma `Least`), `StaysAdmissible` that adding it
  leaves no two volumes of one name and no two mounts at one path, and
  `AllAdded` puts the three rounds (buffers, files, logs) together.
* `EnvAlwaysBacked` (`EnvBacked`) for `SecretsComplete`. `CredentialInv` says
  that the outputs in the input have the fields of their authentication, but
  for the one whose secret is being read. `EnvInv` says that after the auth
  secret has been written, the environment about to be written is covered by
  it, or the collector is `Seen`: queued, or an event of a watched object (a
  source, the collector, the auth secret or the `OpenTelemetryCollector`) that
  will queue it is on its way. A write or an edit of one of them makes it so,
  and a delivery turns an event into a request, which is why these events have
  to be watched.
* `AlwaysSettledDeployed` (`SettledDeployed`) for `LabelsDistinct`,
  `DirectoriesApart` and `RbacLeftAlone`. What the worker holds may be stale or
  torn at any time, so nothing can be said of it as such. `SettleInv` says that
  the collector is `Seen` or `Settling`: all the worker holds is what the store
  has now. `ReadNow` says so of an input that is still being read (what has
  been visited, what is in `need`, the output whose secret is being fetched),
  `InputNow` of a complete one, and after that the auth secret, the
  `OpenTelemetryCollector` and the status are those of the store, one after
  another as they are written. The argument is that whatever would make one of
  these false makes the collector `Seen`: lemma `Undisturbed` shows of every
  step but the start of a reconciliation that, if it leaves the collector not
  `Seen`, nothing that is watched has changed and the cache is current
  (`Quiet`), and the start reads the stored collector (`StartedFresh`). So the
  worker's own update, too, is either a no-op or brings it back (`FoundThere`).
  What was read is not the stored input itself, but one with outputs and
  bridges in another order and several copies; `AlikeAssembled`, `AlikeSecret`,
  `AlikeEnv` and `AlikePod` show that the same is made of it (`MadeOfStored`),
  the secret by `LabelsDistinct` and the volumes by `DirectoriesApart`. The
  roles are not watched and have an invariant of their own (`RbacInv`): what
  has once been seen of them exists, and the collector does not get past them
  with an error.

The hypotheses are stated in the theorems and not of the constants, because
each names a case where the code does something else (see "Disagreements
between the code and what the repository says" above): `BridgesKeepEnds` and
`LabelsDistinct` hold of `collector_written`, which checks what is proved from
them, and `secret_keys` shows what happens without the latter;
`SecretsComplete` holds of `collector_live`, where `EnvBacked` is checked. `DirectoriesApart`
leaves out the directories described above. `RbacLeftAlone` says that nobody
edits the roles: they are not watched, so a deleted one stays away until
something else queues the collector. `OthersResolve`, `OthersMount` and
`OthersKeepFinalizers` say that nobody else breaks what the manager is to keep.
`MCCollector` has those that hold of all its runs as an assumption that TLC
evaluates (`Hypotheses`).

### Only model-checked

* All liveness, as fairness is out of the prover's reach.
* `IsolatedAtRest`, which is about both controllers together. All invariants of a single controller are proved, but the proofs
  are about `RouteReconciler` and `CollectorReconciler` with stores of their own:
  in `TelemetryController` the steps of one controller are among the edits of the
  other, on a store with the objects of both, and the theorems would have to be
  stated again for steps that leave the objects of the other alone.

## Not modelled

Settings that are copied field by field from an object into the configuration
or the pod template: clients, queues, retries and batches of the exporters
(`exporter/common.go`, `otlp_config.go`, most of `output_types.go`), receivers,
processors, telemetry settings, image, memory limits. No step of the system
depends on them. The decoding half of the validation, which is
otelcol's. Generated code (`zz_generated.deepcopy.go`). What the routing
connector does with a log that two rows match. Outputs with
exporters of several kinds (the CRD does not forbid them; the code then names
the first). Garbage collection of the children of a deleted collector; edits of
its roles, which are not watched. The order of volumes and of the environment.
Command line flags, metrics, probes, leader election, the Helm chart. An error
of the first `Get` of a tenant other than "not found" (`route_controller.go:71`),
which a cached client does not return once it is synchronised: the request is
retried and nothing has changed. A malformed `tenantSelector` of a collector,
for which `List` fails: every reconciliation ends with an error, as with a
failed request, until the selector is repaired.

## Plan

Done: `KubeApi`, `RouteReconciler`, `TenantOwnership` and the refinement,
`ConfigGen`, `PodTemplate`, `CollectorReconciler`, their composition
`TelemetryController`, and the proofs above. Left is the proof of
`IsolatedAtRest` from `SettledConsistent`, `SettledDeployed` and `FlowsAsAsked`,
which takes the invariants of both controllers for the composed system.
