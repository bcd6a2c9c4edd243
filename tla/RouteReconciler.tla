-------------------------- MODULE RouteReconciler --------------------------
(***************************************************************************)
(* The tenant controller (controllers/telemetry/route_controller.go) and   *)
(* the two managers it calls (pkg/resources/manager/                       *)
(* tenant_resource_manager.go and bridge_manager.go).                      *)
(*                                                                         *)
(* One worker takes tenants from the work queue and reconciles them. Every *)
(* List and Get is served by the informer cache, every Status().Update is  *)
(* a separate request to the API server that fails when the local copy is  *)
(* not the stored version. Between two steps of the worker users edit      *)
(* objects, watch events arrive, requests fail, and the process restarts.  *)
(***************************************************************************)
EXTENDS KubeApi, FiniteSets

CONSTANTS
    Tenants, Outputs, Subscriptions, Bridges,
    None,           \* the empty string of status.tenant
    Namespaces,
    NsOf,           \* NsOf[r]: the namespace of an output or subscription
    Labels,         \* the label a namespace carries; a selector picks labels
    Malformed,      \* a selector that LabelSelectorAsSelector rejects
    AuthOutputs,    \* the outputs with spec.authentication
    BridgeEnds,     \* BridgeEnds[b]: [source, target] tenant of a bridge
    TenantSpecs,    \* the tenant specs users apply: [sub, log] selectors
    RefChoices,     \* the spec.outputs users give a subscription
    Deployed,       \* the objects that exist when the manager starts
    InitSpec,       \* InitSpec[t]: the spec of a deployed tenant
    InitRefs,       \* InitRefs[s]: spec.outputs of a deployed subscription
    InitLabel,      \* InitLabel[n]: the label of a namespace at the start
    InitSecrets,    \* the outputs whose secret exists at the start
    Editable,       \* the objects users touch while the manager runs
    Movable,        \* the namespaces users relabel while the manager runs
    MaxEdits,       \* bound: user edits
    MaxFaults,      \* bound: requests that fail for no reason of ours
    MaxRestarts     \* bound: restarts of the manager

Owned == Outputs \cup Subscriptions
Sides == {"source", "target"}
Selectors == Labels \cup {Malformed}
States == {"none", "ready", "failed"}

Resource == [exists: BOOLEAN, tenant: Tenants \cup {None}, state: States,
             problems: SUBSET {"ownedBy", "tenantMismatch", "secret", "invalidOutputs"},
             refs: SUBSET Outputs, outputs: SUBSET Outputs]
TenantSpec == [sub: SUBSET Selectors, log: SUBSET Selectors]
TenantObj == [exists: BOOLEAN, spec: TenantSpec, state: States,
              problems: SUBSET {"logsources", "owned", "bridges"},
              subs: SUBSET Subscriptions, logNs: SUBSET Namespaces, bridges: SUBSET Bridges]
BridgeObj == [exists: BOOLEAN, state: States, problems: SUBSET {"dangling", "query"}]

Values(x) == IF x \in Owned THEN Resource ELSE IF x \in Tenants THEN TenantObj ELSE BridgeObj

ASSUME KindsAssumption ==
    /\ Objects = Owned \cup Tenants \cup Bridges
    /\ Outputs \cap Subscriptions = {}
    /\ Owned \cap (Tenants \cup Bridges) = {}
    /\ Tenants \cap Bridges = {}
    /\ None \notin Tenants \cup Owned
    /\ Malformed \notin Labels

ASSUME SettingAssumption ==
    /\ NsOf \in [Owned -> Namespaces]
    /\ AuthOutputs \subseteq Outputs
    /\ BridgeEnds \in [Bridges -> [Sides -> Tenants]]
    /\ TenantSpecs \subseteq TenantSpec
    /\ RefChoices \subseteq SUBSET Outputs
    /\ Deployed \subseteq Objects /\ Editable \subseteq Objects /\ Movable \subseteq Namespaces
    /\ InitSpec \in [Tenants -> TenantSpec]
    /\ InitRefs \in [Subscriptions -> SUBSET Outputs]
    /\ InitLabel \in [Namespaces -> Labels]
    /\ InitSecrets \subseteq AuthOutputs

ASSUME BoundsAssumption == MaxEdits \in Nat /\ MaxFaults \in Nat /\ MaxRestarts \in Nat

VARIABLES
    pc,       \* where the worker is in Reconcile
    cur,      \* the tenant being reconciled, None when idle
    kind,     \* the pass of handleOwnedResources: "output" or "subscription"
    mine,     \* resourcesForTenant
    outs,     \* allOutputsForTenant
    todo,     \* what is left of the list being looped over
    sub,      \* the subscription being validated
    refs,     \* what is left of its spec.outputs
    valid,    \* validOutputs
    copy,     \* copy[x]: the Go object that was read for x
    fresh,    \* the copies that carry the stored resourceVersion
    queue,    \* the work queue, requests that wait for a retry included
    nsLabel,  \* the namespaces, as the cache shows them
    secrets,  \* the outputs whose secret the cache shows
    spent     \* how much of each bound is used up

loopVars == <<kind, mine, outs, todo, sub, refs, valid>>
workerVars == <<pc, cur, loopVars, copy>>
envVars == <<nsLabel, secrets>>
vars == <<apiVars, workerVars, fresh, queue, envVars, spent>>

-----------------------------------------------------------------------------
(* Objects *)

\* The zero value of an object; what Get and List do not return.
Absent(x) ==
    IF x \in Owned
    THEN [exists |-> FALSE, tenant |-> None, state |-> "none", problems |-> {},
          refs |-> {}, outputs |-> {}]
    ELSE IF x \in Tenants
    THEN [exists |-> FALSE, spec |-> [sub |-> {}, log |-> {}], state |-> "none",
          problems |-> {}, subs |-> {}, logNs |-> {}, bridges |-> {}]
    ELSE [exists |-> FALSE, state |-> "none", problems |-> {}]

\* An object as its user created it: its spec, and an empty status.
Created(x) == [Absent(x) EXCEPT !.exists = TRUE]
InitialObject(x) ==
    IF x \notin Deployed THEN Absent(x)
    ELSE IF x \in Subscriptions THEN [Created(x) EXCEPT !.refs = InitRefs[x]]
    ELSE IF x \in Tenants THEN [Created(x) EXCEPT !.spec = InitSpec[x]]
    ELSE Created(x)

OfKind(k) == IF k = "output" THEN Outputs ELSE Subscriptions

\* getNamespacesForSelectorSlice: the namespaces some selector picks, each once.
NamespacesFor(selectors) == {n \in Namespaces : nsLabel[n] \in selectors}
Parses(selectors) == Malformed \notin selectors

CachedTenants == {t \in Tenants : cache[t].exists}

-----------------------------------------------------------------------------
(* Requests to the API server *)

Spend(bound) == spent' = [spent EXCEPT ![bound] = @ + 1]
MayFault == spent.faults < MaxFaults

\* A Status().Update that succeeds: the copy is the stored version. The
\* answer carries the new version, so the copy stays fresh.
UpdateOk(x, v) ==
    /\ x \in fresh
    /\ Put(x, v)
    /\ UNCHANGED spent

\* A Status().Update that returns an error: a conflict, or a request that
\* fails although the copy is fresh, before or after the server applied it.
UpdateErr(x, v) ==
    \/ /\ x \notin fresh
       /\ UNCHANGED <<apiVars, spent>>
    \/ /\ x \in fresh /\ MayFault /\ Spend("faults")
       /\ UNCHANGED apiVars \/ (v # store[x] /\ Put(x, v))

\* The copy of x did not follow the store.
StaleIfChanged(x) == fresh' = IF store'[x] = store[x] THEN fresh ELSE fresh \ {x}

\* List: new copies of the cached objects xs.
Read(xs) ==
    /\ copy' = [x \in Objects |-> IF x \in xs THEN cache[x] ELSE copy[x]]
    /\ fresh' = (fresh \ xs) \cup {x \in xs : CacheCurrent(x)}

\* The worker has no more use for its copy of x.
Drop(x) ==
    /\ copy' = [copy EXCEPT ![x] = Absent(x)]
    /\ fresh' = fresh \ {x}

\* All that is left is the tenant itself.
KeepTenant(v) ==
    /\ copy' = [x \in Objects |-> IF x = cur THEN v ELSE Absent(x)]
    /\ fresh' = fresh \cap {cur}

-----------------------------------------------------------------------------
(* Reconcile *)

At(p) == pc = p
SetCopy(x, v) == copy' = [copy EXCEPT ![x] = v]

ClearLoop ==
    /\ kind' = "output" /\ mine' = {} /\ outs' = {} /\ todo' = {}
    /\ sub' = None /\ refs' = {} /\ valid' = {}

BecomeIdle ==
    /\ pc' = "idle" /\ cur' = None
    /\ ClearLoop
    /\ copy' = [x \in Objects |-> Absent(x)]
    /\ fresh' = {}

\* handleTenantReconcileError up to its Status().Update.
Fail(step) ==
    /\ pc' = "publish"
    /\ KeepTenant([copy[cur] EXCEPT !.problems = @ \cup {step}, !.state = "failed"])
    /\ ClearLoop
    /\ UNCHANGED cur

\* The worker takes t from the queue; Get finds nothing when t is gone.
StartReconcile(t) ==
    /\ At("idle")
    /\ t \in queue
    /\ queue' = queue \ {t}
    /\ \/ /\ ~cache[t].exists
          /\ UNCHANGED <<workerVars, fresh>>
       \/ /\ cache[t].exists
          /\ pc' = "logsources" /\ cur' = t
          /\ Read({t})
          /\ UNCHANGED loopVars
    /\ UNCHANGED <<apiVars, envVars, spent>>

\* handleLogSourceNamespaces
HandleLogSourceNamespaces ==
    /\ At("logsources")
    /\ \/ /\ ~Parses(copy[cur].spec.log)
          /\ Fail("logsources")
       \/ /\ Parses(copy[cur].spec.log)
          /\ SetCopy(cur, [copy[cur] EXCEPT !.logNs = NamespacesFor(copy[cur].spec.log)])
          /\ pc' = "list"
          /\ UNCHANGED <<cur, loopVars, fresh>>
    /\ UNCHANGED <<apiVars, queue, envVars, spent>>

\* A List that fails stops the pass it belongs to.
ReadError ==
    /\ MayFault /\ Spend("faults")
    /\ \/ At("logsources") /\ Fail("logsources")
       \/ pc \in {"list", "claim"} /\ (At("claim") => todo = {}) /\ Fail("owned")
       \/ pc \in {"source", "target"} /\ Fail("bridges")
    /\ UNCHANGED <<apiVars, queue, envVars>>

\* GetResourceOwnedByTenant: the resources in the selected namespaces. Those
\* of cur are in ownedList, the free ones in updateList, the others conflict.
Selected(t, k) == {r \in OfKind(k) : cache[r].exists /\ NsOf[r] \in NamespacesFor(copy[t].spec.sub)}

\* Mutant: whatever has a tenant at all counts as this tenant's.
OwnedByAnyone(r, t) == cache[r].tenant # None
OwnedBy(r, t) == cache[r].tenant = t
ListOwned ==
    /\ At("list")
    /\ \/ /\ ~Parses(copy[cur].spec.sub)
          /\ Fail("owned")
       \/ /\ Parses(copy[cur].spec.sub)
          /\ Read(Selected(cur, kind))
          /\ mine' = {r \in Selected(cur, kind) : OwnedBy(r, cur)}
          /\ todo' = {r \in Selected(cur, kind) : ~OwnedBy(r, cur)}
          /\ pc' = "claim"
          /\ UNCHANGED <<cur, kind, outs, sub, refs, valid>>
    /\ UNCHANGED <<apiVars, queue, envVars, spent>>

\* Mutant: the ownership conflict goes unnoticed.
NeverConflicting(r) == FALSE

\* A resource another tenant owns is marked failed; an error is only logged.
Conflicting(r) == copy[r].tenant # None
AsConflict(v) == [v EXCEPT !.problems = {"ownedBy"}, !.state = "failed"]
MarkConflict(r) ==
    /\ At("claim")
    /\ r \in todo /\ Conflicting(r)
    /\ todo' = todo \ {r}
    /\ UpdateOk(r, AsConflict(copy[r])) \/ UpdateErr(r, AsConflict(copy[r]))
    /\ Drop(r)
    /\ UNCHANGED <<pc, cur, kind, mine, outs, sub, refs, valid, queue, envVars>>

\* UpdateResourcesForTenant: a resource whose update failed is left out.
AsTaken(v, t) == [v EXCEPT !.tenant = t]

\* Mutant: a resource whose update failed is kept in the list.
AdoptDespiteError(r) ==
    /\ At("claim")
    /\ r \in todo /\ \A q \in todo : ~Conflicting(q)
    /\ todo' = todo \ {r}
    /\ UpdateOk(r, AsTaken(copy[r], cur)) \/ UpdateErr(r, AsTaken(copy[r], cur))
    /\ SetCopy(r, AsTaken(copy[r], cur))
    /\ mine' = mine \cup {r}
    /\ UNCHANGED <<fresh, pc, cur, kind, outs, sub, refs, valid, queue, envVars>>

Adopt(r) ==
    /\ At("claim")
    /\ r \in todo /\ \A q \in todo : ~Conflicting(q)
    /\ todo' = todo \ {r}
    /\ \/ /\ UpdateOk(r, AsTaken(copy[r], cur))
          /\ SetCopy(r, AsTaken(copy[r], cur))
          /\ mine' = mine \cup {r}
          /\ UNCHANGED fresh
       \/ /\ UpdateErr(r, AsTaken(copy[r], cur))
          /\ Drop(r)
          /\ UNCHANGED mine
    /\ UNCHANGED <<pc, cur, kind, outs, sub, refs, valid, queue, envVars>>

\* Mutant: the List is not narrowed to the resources of the tenant.
UnselectedOfAll(t, k) == {r \in OfKind(k) : cache[r].exists} \ mine

\* GetResourcesReferencingTenantButNotSelected: a second, later List.
Unselected(t, k) == {r \in OfKind(k) : cache[r].exists /\ cache[r].tenant = t} \ mine
ListReferencing ==
    /\ At("claim")
    /\ todo = {}
    /\ Read(Unselected(cur, kind))
    /\ todo' = Unselected(cur, kind)
    /\ pc' = "release"
    /\ UNCHANGED <<apiVars, cur, kind, mine, outs, sub, refs, valid, queue, envVars, spent>>

\* DisownResources; an error is only logged.
Disown(r) ==
    /\ At("release")
    /\ r \in todo
    /\ todo' = todo \ {r}
    /\ UpdateOk(r, AsTaken(copy[r], None)) \/ UpdateErr(r, AsTaken(copy[r], None))
    /\ Drop(r)
    /\ UNCHANGED <<pc, cur, kind, mine, outs, sub, refs, valid, queue, envVars>>

AnyFailed(rs) == \E r \in rs : copy[r].state = "failed"

\* Mutant: the list of the output pass is carried into the next one.
FinishOutputsKeepingList ==
    /\ At("release") /\ todo = {} /\ kind = "output" /\ ~AnyFailed(mine)
    /\ outs' = mine /\ kind' = "subscription" /\ pc' = "list"
    /\ UNCHANGED <<cur, mine, todo, sub, refs, valid, copy, fresh, apiVars, queue, envVars, spent>>

\* The end of the output pass: a failed output ends the reconciliation.
FinishOutputs ==
    /\ At("release") /\ todo = {} /\ kind = "output"
    /\ \/ /\ AnyFailed(mine)
          /\ Fail("owned")
       \/ /\ ~AnyFailed(mine)
          /\ outs' = mine /\ mine' = {} /\ kind' = "subscription" /\ pc' = "list"
          /\ UNCHANGED <<cur, todo, sub, refs, valid, copy, fresh>>
    /\ UNCHANGED <<apiVars, queue, envVars, spent>>

\* Mutant: status.subscriptions is added to.
BeginValidationAppending ==
    /\ At("release") /\ todo = {} /\ kind = "subscription"
    /\ SetCopy(cur, [copy[cur] EXCEPT !.subs = @ \cup mine])
    /\ todo' = mine /\ pc' = "validate"
    /\ UNCHANGED <<apiVars, cur, kind, mine, outs, sub, refs, valid, fresh, queue, envVars, spent>>

\* status.subscriptions is set, then validateSubscriptionOutputs begins.
BeginValidation ==
    /\ At("release") /\ todo = {} /\ kind = "subscription"
    /\ SetCopy(cur, [copy[cur] EXCEPT !.subs = mine])
    /\ todo' = mine /\ pc' = "validate"
    /\ UNCHANGED <<apiVars, cur, kind, mine, outs, sub, refs, valid, fresh, queue, envVars, spent>>

PickSubscription(s) ==
    /\ At("validate")
    /\ s \in todo
    /\ todo' = todo \ {s}
    /\ sub' = s /\ refs' = copy[s].refs /\ valid' = {}
    /\ pc' = "outputs"
    /\ UNCHANGED <<apiVars, cur, kind, mine, outs, copy, fresh, queue, envVars, spent>>

\* ValidateSubscriptionReferencedOutputsWithCache, one reference. What is
\* wrong with the output; a secret that cannot be read counts as missing.
Mismatch(o) == copy[o].tenant # copy[sub].tenant
SecretFound(o) == o \in AuthOutputs => o \in secrets
Wrong(o) == (IF Mismatch(o) THEN {"tenantMismatch"} ELSE {})
              \cup (IF SecretFound(o) THEN {} ELSE {"secret"})

\* An output that is not among the tenant's own is invalid, and not touched.
RejectUnknown(o) ==
    /\ o \notin outs
    /\ UNCHANGED <<apiVars, copy, fresh, spent, valid>>

\* An invalid output is marked failed; the copy says so even if the update fails.
AsInvalid(v, ps) == [v EXCEPT !.problems = @ \cup ps, !.state = "failed"]
RejectInvalid(o, ps) ==
    /\ o \in outs
    /\ ps # {}
    /\ \/ UpdateOk(o, AsInvalid(copy[o], ps)) /\ UNCHANGED fresh
       \/ UpdateErr(o, AsInvalid(copy[o], ps)) /\ StaleIfChanged(o)
    /\ SetCopy(o, AsInvalid(copy[o], ps))
    /\ UNCHANGED valid

\* Mutant: the problems of the last failure stay.
AsReadyKeepingProblems(v) == [v EXCEPT !.state = "ready"]

\* A valid one is marked ready. It counts as valid even if the update fails.
AsReady(v) == [v EXCEPT !.problems = {}, !.state = "ready"]
Accept(o) ==
    /\ o \in outs
    /\ Wrong(o) = {}
    /\ \/ /\ UpdateOk(o, AsReady(copy[o]))
          /\ SetCopy(o, AsReady(copy[o]))
          /\ UNCHANGED fresh
       \/ /\ UpdateErr(o, AsReady(copy[o]))
          /\ StaleIfChanged(o)
          /\ SetCopy(o, [AsReady(copy[o]) EXCEPT !.state = "failed"])
    /\ valid' = valid \cup {o}

CheckOutput(o) ==
    /\ At("outputs")
    /\ o \in refs
    /\ refs' = refs \ {o}
    /\ RejectUnknown(o) \/ RejectInvalid(o, Wrong(o)) \/ Accept(o)
    /\ UNCHANGED <<pc, cur, kind, mine, outs, todo, sub, queue, envVars>>

\* The Get of the secret fails for another reason than a missing secret.
SecretError(o) ==
    /\ At("outputs")
    /\ o \in refs \cap AuthOutputs
    /\ refs' = refs \ {o}
    /\ MayFault /\ Spend("faults")
    /\ o \in outs /\ SecretFound(o)
    /\ SetCopy(o, AsInvalid(copy[o], Wrong(o) \cup {"secret"}))
    /\ \/ o \in fresh /\ Put(o, AsInvalid(copy[o], Wrong(o) \cup {"secret"}))
       \/ o \notin fresh /\ UNCHANGED apiVars
    /\ UNCHANGED <<pc, cur, kind, mine, outs, todo, sub, valid, fresh, queue, envVars>>

\* The status of the subscription is settled and written.
Validated(s) ==
    IF valid = copy[s].refs
    THEN [copy[s] EXCEPT !.problems = {}, !.state = "ready", !.outputs = valid]
    ELSE [copy[s] EXCEPT !.problems = @ \cup {"invalidOutputs"}, !.state = "failed",
                         !.outputs = valid]
UpdateSubscription ==
    /\ At("outputs") /\ refs = {}
    /\ \/ /\ UpdateOk(sub, Validated(sub))
          /\ SetCopy(sub, Validated(sub))
          /\ pc' = "validate" /\ sub' = None /\ valid' = {}
          /\ UNCHANGED <<cur, kind, mine, outs, todo, refs, fresh>>
       \/ /\ UpdateErr(sub, Validated(sub))
          /\ Fail("owned")
    /\ UNCHANGED <<queue, envVars>>

CheckSubscriptions ==
    /\ At("validate") /\ todo = {}
    /\ \/ /\ AnyFailed(mine)
          /\ Fail("owned")
       \/ /\ ~AnyFailed(mine)
          /\ pc' = "source"
          /\ KeepTenant(copy[cur])
          /\ ClearLoop
          /\ UNCHANGED cur
    /\ UNCHANGED <<apiVars, queue, envVars, spent>>

\* GetBridgesForTenant lists the bridges from cur, then those to cur: a bridge
\* from cur to itself is listed twice, and both its copies are the first one.
Listed(side) == {b \in Bridges : cache[b].exists /\ BridgeEnds[b][side] = cur}
ListSourceBridges ==
    /\ At("source")
    /\ Read(Listed("source"))
    /\ todo' = {<<b, "source">> : b \in Listed("source")}
    /\ pc' = "target"
    /\ UNCHANGED <<apiVars, cur, kind, mine, outs, sub, refs, valid, queue, envVars, spent>>

ReadBridges(bs) ==
    /\ fresh' = (fresh \ bs) \cup {b \in bs : CacheCurrent(b)}
    /\ copy' = [x \in Objects |->
                  IF x \in bs THEN cache[x]
                  ELSE IF x = cur
                  THEN [copy[cur] EXCEPT !.bridges = {p[1] : p \in todo} \cup Listed("target")]
                  ELSE copy[x]]
ListTargetBridges ==
    /\ At("target")
    /\ ReadBridges({b \in Listed("target") : <<b, "source">> \notin todo})
    /\ todo' = todo \cup {<<b, "target">> : b \in Listed("target")}
    /\ pc' = "bridges"
    /\ UNCHANGED <<apiVars, cur, kind, mine, outs, sub, refs, valid, queue, envVars, spent>>

\* ValidateBridgeConnection looks the other end up by name.
Dangling(b) == \E side \in Sides : BridgeEnds[b][side] \notin {cur} \cup CachedTenants
BridgeFailed(b, problem) == [copy[b] EXCEPT !.problems = @ \cup {problem}, !.state = "failed"]
BridgeReady(b) == [copy[b] EXCEPT !.problems = {}, !.state = "ready"]

NextBridge(b, side) ==
    /\ At("bridges")
    /\ <<b, side>> \in todo
    /\ side = "target" => \A p \in todo : p[2] = "target"

RejectBridge(b, side) ==
    /\ NextBridge(b, side)
    /\ Dangling(b)
    /\ UpdateOk(b, BridgeFailed(b, "dangling")) \/ UpdateErr(b, BridgeFailed(b, "dangling"))
    /\ Fail("bridges")
    /\ UNCHANGED <<queue, envVars>>

\* The lookup of the other end fails: the bridge is marked failed as well.
BridgeQueryError(b, side) ==
    /\ NextBridge(b, side)
    /\ \E end \in Sides : BridgeEnds[b][end] # cur
    /\ MayFault /\ Spend("faults")
    /\ \/ b \in fresh /\ Put(b, BridgeFailed(b, "query"))
       \/ b \notin fresh /\ UNCHANGED apiVars
    /\ Fail("bridges")
    /\ UNCHANGED <<queue, envVars>>

\* As with the tenant, DeepEqual never saves the update. The other copy of a
\* bridge that was listed twice stays as it was read.
AcceptBridge(b, side) ==
    /\ NextBridge(b, side)
    /\ ~Dangling(b)
    /\ \/ /\ UpdateOk(b, BridgeReady(b))
          /\ StaleIfChanged(b)
          /\ todo' = todo \ {<<b, side>>}
          /\ UNCHANGED <<pc, cur, kind, mine, outs, sub, refs, valid, copy>>
       \/ /\ UpdateErr(b, BridgeReady(b))
          /\ Fail("bridges")
    /\ UNCHANGED <<queue, envVars>>

\* Every step succeeded: the tenant is ready and its problems are cleared.
FinishBridges ==
    /\ At("bridges") /\ todo = {}
    /\ KeepTenant(AsReady(copy[cur]))
    /\ pc' = "publish"
    /\ ClearLoop
    /\ UNCHANGED <<apiVars, cur, queue, envVars, spent>>

\* Mutant: the error of a step is forgotten once the status is written.
RequeueUnwritten(ok) == IF ok THEN queue ELSE queue \cup {cur}

\* Status().Update of the tenant. It is never skipped: ClearProblems leaves an
\* empty slice where the object was read with nil, which DeepEqual tells apart.
\* Reconcile returns an error, and the request is queued again, when a step or
\* the update failed.
Requeue(ok) == IF ok /\ copy[cur].state = "ready" THEN queue ELSE queue \cup {cur}
Publish ==
    /\ At("publish")
    /\ \/ /\ cur \in fresh
          /\ Put(cur, copy[cur])
          /\ queue' = Requeue(TRUE)
          /\ UNCHANGED spent
       \/ /\ cur \notin fresh
          /\ queue' = Requeue(FALSE)
          /\ UNCHANGED <<apiVars, spent>>
       \/ /\ cur \in fresh /\ MayFault /\ Spend("faults")
          /\ UNCHANGED apiVars \/ Put(cur, copy[cur])
          /\ queue' = Requeue(FALSE)
    /\ BecomeIdle
    /\ UNCHANGED envVars

-----------------------------------------------------------------------------
(* Watches (SetupWithManager) and the process *)

\* Mutant: an event of a resource queues only the tenant the resource names.
QueuedByOwner(x) == IF x \in Owned THEN Tenants \cap {cache[x].tenant} ELSE CachedTenants

\* A Tenant event queues that tenant, an event of any other watched kind
\* every cached tenant.
QueuedBy(x) == IF x \in Tenants THEN {x} ELSE CachedTenants
DeliverEvent(x) ==
    /\ Deliver(x)
    /\ queue' = queue \cup QueuedBy(x)
    /\ UNCHANGED <<workerVars, fresh, envVars, spent>>

\* The process dies, and the initial list of its successor queues all tenants.
Restart ==
    /\ spent.restarts < MaxRestarts /\ Spend("restarts")
    /\ InitialSync
    /\ queue' = {t \in Tenants : store[t].exists}
    /\ BecomeIdle
    /\ UNCHANGED envVars

-----------------------------------------------------------------------------
(* Users *)

MayEdit == spent.edits < MaxEdits /\ Spend("edits")

\* A user writes x. Users do not write the status, and every copy is stale.
Edit(x, v) ==
    /\ x \in Editable /\ v # store[x]
    /\ MayEdit
    /\ Put(x, v)
    /\ fresh' = fresh \ {x}
    /\ UNCHANGED <<workerVars, queue, envVars>>

OrCreated(x) == IF store[x].exists THEN store[x] ELSE Created(x)
ApplyTenant(t, spec) == Edit(t, [OrCreated(t) EXCEPT !.spec = spec])
ApplySubscription(s, rs) == Edit(s, [OrCreated(s) EXCEPT !.refs = rs])
ApplyOther(x) == x \in Outputs \cup Bridges /\ Edit(x, OrCreated(x))
Delete(x) == Edit(x, Absent(x))

\* Namespace events queue every tenant; secrets are not watched.
Relabel(n, l) ==
    /\ nsLabel[n] # l
    /\ MayEdit
    /\ nsLabel' = [nsLabel EXCEPT ![n] = l]
    /\ queue' = queue \cup CachedTenants
    /\ UNCHANGED <<apiVars, workerVars, fresh, secrets>>

ChangeSecret(o) ==
    /\ MayEdit
    /\ secrets' = IF o \in secrets THEN secrets \ {o} ELSE secrets \cup {o}
    /\ UNCHANGED <<apiVars, workerVars, fresh, queue, nsLabel>>

-----------------------------------------------------------------------------
Init ==
    /\ store = [x \in Objects |-> InitialObject(x)]
    /\ cache = store
    /\ pending = [x \in Objects |-> <<>>]
    /\ pc = "idle" /\ cur = None
    /\ kind = "output" /\ mine = {} /\ outs = {} /\ todo = {}
    /\ sub = None /\ refs = {} /\ valid = {}
    /\ copy = [x \in Objects |-> Absent(x)]
    /\ fresh = {}
    /\ queue = Tenants \cap Deployed
    /\ nsLabel = InitLabel
    /\ secrets = InitSecrets
    /\ spent = [edits |-> 0, faults |-> 0, restarts |-> 0]

\* What the worker does once it has taken a request.
WorkerStep ==
    \/ HandleLogSourceNamespaces \/ ListOwned \/ ListReferencing
    \/ FinishOutputs \/ BeginValidation
    \/ \E r \in Owned : MarkConflict(r) \/ Adopt(r) \/ Disown(r)
    \/ \E s \in Subscriptions : PickSubscription(s)
    \/ \E o \in Outputs : CheckOutput(o)
    \/ UpdateSubscription \/ CheckSubscriptions
    \/ ListSourceBridges \/ ListTargetBridges
    \/ \E b \in Bridges, side \in Sides : RejectBridge(b, side) \/ AcceptBridge(b, side)
    \/ FinishBridges \/ Publish

Failure ==
    \/ ReadError
    \/ \E o \in Outputs : SecretError(o)
    \/ \E b \in Bridges, side \in Sides : BridgeQueryError(b, side)
    \/ Restart

UserStep ==
    \/ \E t \in Tenants, spec \in TenantSpecs : ApplyTenant(t, spec)
    \/ \E s \in Subscriptions, rs \in RefChoices : ApplySubscription(s, rs)
    \/ \E x \in Outputs \cup Bridges : ApplyOther(x)
    \/ \E x \in Objects : Delete(x)
    \/ \E n \in Movable, l \in Labels : Relabel(n, l)
    \/ \E o \in AuthOutputs : ChangeSecret(o)

Next ==
    \/ WorkerStep
    \/ \E t \in Tenants : StartReconcile(t)
    \/ \E x \in Objects : DeliverEvent(x)
    \/ Failure
    \/ UserStep

Spec == Init /\ [][Next]_vars

\* The worker does not stop in the middle of a request, watch streams make
\* progress, and the work queue does not starve a request. Users, failures
\* and restarts owe nothing.
Fairness ==
    /\ WF_vars(WorkerStep)
    /\ \A x \in Objects : WF_vars(DeliverEvent(x))
    /\ \A t \in Tenants : SF_vars(StartReconcile(t))

FairSpec == Spec /\ Fairness

\* Event delivery knows nothing of the worker, so it does not for ever hit the
\* moment between two List calls of one reconciliation: the event of an adoption
\* that keeps being outstanding between reconciliations is at some time
\* delivered there.
Independence ==
    \A r \in Owned : SF_vars(At("idle") /\ store[r].tenant # None /\ DeliverEvent(r))
CalmSpec == FairSpec /\ Independence

-----------------------------------------------------------------------------
(* Properties *)

\* The objects of the store, the cache and the watch streams.
ApiTypeOK ==
    /\ DOMAIN store = Objects /\ DOMAIN cache = Objects /\ DOMAIN pending = Objects
    /\ \A x \in Objects :
         store[x] \in Values(x) /\ cache[x] \in Values(x) /\ pending[x] \in Seq(Values(x))

\* The worker: a list only ever holds what the loop over it expects.
WorkerTypeOK ==
    /\ pc \in {"idle", "logsources", "list", "claim", "release", "validate", "outputs",
               "source", "target", "bridges", "publish"}
    /\ cur \in Tenants \cup {None} /\ (pc = "idle" <=> cur = None)
    /\ kind \in {"output", "subscription"} /\ mine \subseteq OfKind(kind)
    /\ outs \subseteq Outputs
    /\ todo \subseteq IF pc \in {"target", "bridges"} THEN Bridges \X Sides ELSE OfKind(kind)
    /\ sub \in Subscriptions \cup {None} /\ (pc = "outputs" => sub \in Subscriptions)
    /\ refs \subseteq Outputs /\ valid \subseteq Outputs
    /\ DOMAIN copy = Objects /\ \A x \in Objects : copy[x] \in Values(x)

EnvTypeOK ==
    /\ fresh \subseteq Objects /\ queue \subseteq Tenants
    /\ nsLabel \in [Namespaces -> Labels] /\ secrets \subseteq AuthOutputs
    /\ spent \in [edits: Nat, faults: Nat, restarts: Nat]

\* Every variable has its type; an object of the store, of the cache, of a
\* watch stream or of the worker has the fields of its kind.
TypeOK == ApiTypeOK /\ WorkerTypeOK /\ EnvTypeOK

\* The ownership the abstract specification speaks of is status.tenant in the
\* store: a resource passes from one tenant to another only by way of nobody,
\* and only the tenant being reconciled takes or gives up resources, whatever
\* the caches show, the requests answer and the process survives.
Ownership ==
    INSTANCE TenantOwnership WITH
        NoTenant <- None,
        present <- {r \in Owned : store[r].exists},
        owner <- [r \in Owned |-> store[r].tenant],
        actor <- cur
OwnershipSpec == Ownership!OwnSpec

\* Why that holds. A copy that carries the stored version tells the truth
\* about existence and ownership, and what is about to be disowned was read
\* as a resource of the tenant at hand.
FreshTrue ==
    \A r \in fresh \cap Owned :
        copy[r].exists /\ store[r].exists /\ copy[r].tenant = store[r].tenant
ReleasesOwn == At("release") => \A r \in todo : copy[r].tenant = cur
AbsentFree == \A r \in Owned : ~store[r].exists => store[r] = Absent(r)
OwnershipInv == CacheCoherent /\ FreshTrue /\ ReleasesOwn /\ AbsentFree

\* All versions of a resource that the cache shows or is yet to show have one
\* tenant or none, since what is about to be claimed is claimed only if the
\* cache shows all there is.
OneOwner == \A r \in Owned : \E t \in Tenants \cup {None} : \A v \in Versions(r) : v.tenant \in {t, None}
ClaimsCurrent == At("claim") => \A r \in todo \cap fresh : CacheCurrent(r)
StreamInv == OneOwner /\ ClaimsCurrent

\* What the worker holds as the tenant's own it has read or written as such,
\* and the loops of the two passes do not get in each other's way.
HoldsOwn ==
    /\ \A r \in mine \cup outs : copy[r].tenant = cur
    /\ valid \subseteq outs
    /\ kind = "output" => outs = {}
    /\ pc \in {"idle", "logsources"} => kind = "output"
    /\ pc \in {"idle", "logsources", "list"} => mine = {}
    /\ pc \in {"claim", "release"} => todo \cap mine = {}
    /\ pc \in {"validate", "outputs"} => kind = "subscription" /\ todo \subseteq mine
    /\ At("outputs") => sub \in mine

\* No other tenant has got hold of it since.
Kept(r) == store[r].tenant \in {cur, None}
Reporting ==
    \/ pc \in {"validate", "outputs", "source", "target", "bridges"}
    \/ At("publish") /\ copy[cur].state = "ready"
HoldsKept ==
    /\ \A r \in mine \cup outs : Kept(r)
    /\ Reporting => \A s \in copy[cur].subs : Kept(s)

\* A tenant that is gone has no status, and the one at hand was there.
TenantsThere ==
    /\ \A t \in Tenants : ~store[t].exists => store[t] = Absent(t)
    /\ cur # None => copy[cur].exists

\* The tenant comparison of ValidateSubscriptionReferencedOutputsWithCache
\* never fails: the outputs it is given and the subscription all carry the
\* tenant that is being reconciled.
NoTenantMismatch == At("outputs") => \A o \in refs \cap outs : ~Mismatch(o)

\* The cache may be late, but it never shows a resource with a tenant while
\* the store has it with another one: a tenant adopts through the same cache
\* that has to show the resource as free.
StaleNotForeign ==
    \A r \in Owned : store[r].tenant # None => cache[r].tenant \in {store[r].tenant, None}

\* What a reconciliation reports does not belong to somebody else when it is
\* reported: the outputs a subscription is found to have, and the
\* subscriptions of a tenant that is about to be published as ready.
ReportsOwn ==
    /\ \A o \in valid : store[o].tenant \in {cur, None}
    /\ At("publish") /\ copy[cur].state = "ready"
         => \A s \in copy[cur].subs : store[s].tenant \in {cur, None}

\* A tenant whose status says failed is looked at again: its request is in
\* the queue or in the worker's hands, or an event that queues it is on its way.
FailureRetried ==
    \A t \in Tenants : store[t].state = "failed" => t \in queue \/ cur = t \/ ~CacheCurrent(t)

\* When t has been left alone and all events are in, its status and those of
\* its resources say what the specs ask for: errors that are only logged
\* (stale copies in UpdateResourcesForTenant, DisownResources, the output
\* updates) have been made good by a later reconciliation.
LeftAlone(t) == store[t].exists /\ cur # t /\ t \notin queue /\ \A x \in Objects : CacheCurrent(x)
Chosen(t) == {r \in Owned : store[r].exists /\ NsOf[r] \in NamespacesFor(store[t].spec.sub)}
OwnOf(t, k) == {r \in OfKind(k) : store[r].tenant = t}
Claimed(t, k) == \A r \in Chosen(t) \cap OfKind(k) : store[r].tenant # None
Sorted(t, k) == Claimed(t, k) /\ OwnOf(t, k) \subseteq Chosen(t)
BridgesAt(t, side) == {b \in Bridges : store[b].exists /\ BridgeEnds[b][side] = t}
Served(t, s) ==
    /\ store[s].state = "ready" /\ store[s].outputs = store[s].refs
    /\ \A o \in store[s].refs : store[o].tenant = t /\ store[o].state = "ready"
Consistent(t) ==
    /\ store[t].state = "ready" /\ store[t].problems = {}
    /\ store[t].logNs = NamespacesFor(store[t].spec.log)
    /\ store[t].bridges = BridgesAt(t, "source") \cup BridgesAt(t, "target")
    /\ Sorted(t, "output") /\ Sorted(t, "subscription")
    /\ store[t].subs = OwnOf(t, "subscription")
    /\ \A s \in store[t].subs : Served(t, s)
SettledConsistent == \A t \in Tenants : LeftAlone(t) => Consistent(t)

\* Why that holds while no request fails for another reason than a conflict
\* in a loop that goes on (an update of UpdateResourcesForTenant, DisownResources
\* or the validation, which is only logged, and nothing queues the tenant).
Swallowed ==
    pc \in {"claim", "release", "outputs"} /\ pc' = pc /\ spent'.faults # spent.faults
NothingSwallowed == [][~Swallowed]_vars

\* Either t is going to be reconciled, or the cache shows what t is about.
Watched(t) == Owned \cup Bridges \cup {t}
Attended(t) == t \in queue \/ ~store[t].exists \/ \E x \in Watched(t) : ~CacheCurrent(x)

\* What a reconciliation of t has then made sure of, pass by pass.
TrueCopies(rs) == rs \subseteq fresh /\ \A r \in rs : copy[r] = store[r]

Claiming(t) ==
    /\ mine = OwnOf(t, kind) \cap Chosen(t)
    /\ todo \cap OwnOf(t, kind) = {}
    /\ \A r \in Chosen(t) \cap OfKind(kind) : r \in todo \/ store[r].tenant # None
Releasing(t) ==
    /\ Claimed(t, kind)
    /\ mine = OwnOf(t, kind) \cap Chosen(t)
    /\ todo = OwnOf(t, kind) \ mine
Validating(t) ==
    /\ Sorted(t, "subscription")
    /\ mine = OwnOf(t, "subscription") /\ copy[t].subs = mine
    /\ \A s \in mine \ todo :
         (At("outputs") /\ s = sub) \/ store[s].state = "failed" \/ Served(t, s)
    /\ At("outputs") => \A o \in valid : store[o].state = "ready"
Reported(t) ==
    /\ Sorted(t, "output") /\ Sorted(t, "subscription")
    /\ copy[t].subs = OwnOf(t, "subscription")
    /\ \A s \in copy[t].subs : Served(t, s)
Progress(t) ==
    /\ copy[t].spec = store[t].spec
    /\ ~At("logsources") => copy[t].logNs = NamespacesFor(store[t].spec.log)
    /\ kind = "subscription" => Sorted(t, "output") /\ outs = OwnOf(t, "output") /\ TrueCopies(outs)
    /\ At("claim") => Claiming(t) /\ TrueCopies(mine \cup todo)
    /\ At("release") => Releasing(t) /\ TrueCopies(mine \cup todo)
    /\ pc \in {"validate", "outputs"} => Validating(t) /\ TrueCopies(mine)
    /\ pc \in {"source", "target", "bridges", "publish"} => kind = "output" /\ Reported(t)
    /\ At("target") => todo = BridgesAt(t, "source") \X {"source"}
    /\ pc \in {"bridges", "publish"}
         => copy[t].bridges = BridgesAt(t, "source") \cup BridgesAt(t, "target")
    /\ At("publish") => copy[t].state = "ready" /\ copy[t].problems = {}
GivenUp(t) == At("publish") /\ copy[t].state = "failed"
ProgressInv ==
    \A t \in Tenants :
        Attended(t) \/ IF cur = t THEN GivenUp(t) \/ Progress(t) ELSE Consistent(t)

Connected(b) == \A e \in Sides : store[BridgeEnds[b][e]].exists

\* A failed output of its own ends every reconciliation of a tenant before the
\* subscription pass, and nothing but the validation in that pass makes it ready.
\* The conflict mark of a tenant that came too early is such a failure: neither
\* the disowning nor the adoption that follows takes it away.
Barred(t) == \E o \in OwnOf(t, "output") : store[o].state = "failed"

\* A resource whose namespace the selectors of exactly one tenant pick ends up
\* with that tenant, by the adopt and disown passes of handleOwnedResources: an
\* output always, even if the tenants that give and take it are barred, and a
\* subscription if neither is. It holds while no tenant is deleted and selectors
\* parse.
Choosers(r) == {t \in Tenants : store[t].exists /\ r \in Chosen(t)}
Blocked(r, t) == r \in Subscriptions /\ \E u \in {t, store[r].tenant} \cap Tenants : Barred(u)
OwnershipSettles ==
    <>[](\A r \in Owned, t \in Tenants :
            Choosers(r) = {t} /\ ~Blocked(r, t) => store[r].tenant = t)

\* ... and a tenant ends up ready, with a status that says what it holds, however
\* often it failed, if its selectors parse, its subscriptions refer to outputs
\* it alone selects, its bridges have both ends, and it is not barred.
Sound(t) ==
    /\ Parses(store[t].spec.sub) /\ Parses(store[t].spec.log)
    /\ \A s \in Chosen(t) \cap Subscriptions, o \in Outputs :
         o \in store[s].refs => Choosers(o) = {t}
    /\ \A side \in Sides : \A b \in BridgesAt(t, side) : Connected(b)
TenantsSettle ==
    <>[](\A t \in Tenants : store[t].exists /\ Sound(t) /\ ~Barred(t) => Consistent(t))

\* Once no bridge has a dangling reference, every bridge ends up ready and so
\* do its tenants, although a validation may have met a dangling reference, a
\* stale copy or a failed lookup: the tenant that found it is retried.
BridgesSettle ==
    <>[]((\A b \in Bridges : store[b].exists => Connected(b))
           => /\ \A b \in Bridges : store[b].exists => store[b].state = "ready"
              /\ \A t \in Tenants : store[t].exists => Consistent(t))

-----------------------------------------------------------------------------
(* What the repository says and the code does not do; the runs that check     *)
(* these find a violation.                                                    *)

\* tenant_resource_manager.go:145: the resources to disown reference the
\* tenant "but are not selected by the tenant directly".
DisownsOnlyUnselected ==
    At("release") => \A r \in todo : NsOf[r] \notin NamespacesFor(copy[cur].spec.sub)

\* e2e_test.sh:177: once the cause is gone, the states are fixed. An output
\* with one tenant and its secret in place does not stay failed.
OutputsRecover ==
    <>[](\A o \in Outputs : store[o].exists /\ Choosers(o) = {store[o].tenant} /\ SecretFound(o)
                              => store[o].state # "failed")
=============================================================================
