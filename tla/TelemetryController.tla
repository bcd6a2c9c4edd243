------------------------ MODULE TelemetryController ------------------------
(***************************************************************************)
(* The manager process (cmd/main.go): the tenant controller and the        *)
(* collector controller side by side, with one worker each, on one API     *)
(* server and one informer cache. What the tenant controller writes to the *)
(* statuses of tenants, subscriptions and outputs the collector controller *)
(* reads, one object at a time, while it is being written.                 *)
(*                                                                         *)
(* Requests that fail, restarts, other edits than those of labels, and     *)
(* outputs with credentials are left to the modules of the two.            *)
(***************************************************************************)
EXTENDS KubeApi, FiniteSets

CONSTANTS
    Tenants, Outputs, Subscriptions, Bridges, Collector,
    None, Namespaces, NsOf, Labels, Malformed, BridgeEnds,
    Movable,
    NameOf, NsLabels, NameLabels, Lower,
    TenantSetting, SubscriptionSetting, OutputSetting, BridgeSetting,
                   \* [x]: the fields of a spec only the collector controller reads
    InitObjects,   \* InitObjects[x]: the objects when the manager starts
    InitLabel,     \* InitLabel[n]: the label of a namespace at the start
    Late,          \* bound: the objects whose events may be late
    MaxEdits

VARIABLES
    rpc, cur, kind, mine, outs, rtodo, sub, refs, valid, copy, rfresh, queue, nsLabel, secrets, spent,
    cpc, own, cfresh, listed, ctodo, need, in, config, errs, queued, left

routeVars == <<rpc, cur, kind, mine, outs, rtodo, sub, refs, valid, copy, rfresh, queue, nsLabel, secrets, spent>>
collectorVars == <<cpc, own, cfresh, listed, ctodo, need, in, config, errs, queued, left>>
vars == <<apiVars, routeVars, collectorVars>>

RouteObjects == Tenants \cup Outputs \cup Subscriptions \cup Bridges

-----------------------------------------------------------------------------
(* The controllers *)

\* An object as the collector controller reads it. The tenant controller keeps
\* of a spec what it uses itself; the rest does not change.
Full(x, v) ==
    CASE x \in Tenants -> [exists |-> v.exists, state |-> v.state, subs |-> v.subs, logNs |-> v.logNs,
                           bridges |-> v.bridges, selected |-> TRUE, all |-> FALSE,
                           storage |-> TenantSetting[x].storage, dir |-> None, transform |-> None,
                           flatten |-> FALSE, defaults |-> TenantSetting[x].defaults]
      [] x \in Subscriptions -> [exists |-> v.exists, outputs |-> v.outputs, refs |-> v.refs,
                                 cond |-> SubscriptionSetting[x]]
      [] x \in Outputs -> [exists |-> v.exists, kind |-> OutputSetting[x], path |-> <<>>, auth |-> None, batch |-> FALSE]
      [] x \in Bridges -> [exists |-> v.exists, source |-> BridgeEnds[x]["source"],
                           target |-> BridgeEnds[x]["target"], cond |-> BridgeSetting[x]]
      [] OTHER -> v

Route ==
    INSTANCE RouteReconciler WITH
        Objects <- RouteObjects, AuthOutputs <- {}, InitSecrets <- {}, MaxFaults <- 0, MaxRestarts <- 0,
        TenantSpecs <- {}, RefChoices <- {}, Editable <- {},
        Deployed <- RouteObjects, InitSpec <- <<>>, InitRefs <- <<>>,
        pc <- rpc, todo <- rtodo, fresh <- rfresh

Coll ==
    INSTANCE CollectorReconciler WITH
        Secrets <- {}, SecretOf <- <<>>, Scenarios <- {}, EditValues <- <<>>,
        pc <- cpc, todo <- ctodo, fresh <- cfresh

-----------------------------------------------------------------------------
(* Steps *)

\* Each controller has event handlers of its own on the shared informers.
DeliverEvent(x) ==
    /\ Deliver(x)
    /\ queue' = queue \cup (IF x \in RouteObjects THEN Route!QueuedBy(x) ELSE {})
    /\ queued' = (queued \/ Coll!QueuedBy(x))
    /\ UNCHANGED <<rpc, cur, kind, mine, outs, rtodo, sub, refs, valid, copy, rfresh, nsLabel, secrets, spent,
                   cpc, own, cfresh, listed, ctodo, need, in, config, errs, left>>

Relabel(n, l) ==
    /\ Route!Relabel(n, l)
    /\ Coll!QueuedByNamespace
    /\ UNCHANGED <<cpc, own, cfresh, listed, ctodo, need, in, config, errs, left>>

Init ==
    /\ store = InitObjects
    /\ cache = store
    /\ pending = [x \in Objects |-> <<>>]
    /\ rpc = "idle" /\ cur = None
    /\ kind = "output" /\ mine = {} /\ outs = {} /\ rtodo = {}
    /\ sub = None /\ refs = {} /\ valid = {}
    /\ copy = [x \in RouteObjects |-> Route!Absent(x)]
    /\ rfresh = {}
    /\ queue = {}
    /\ nsLabel = InitLabel
    /\ secrets = {}
    /\ spent = [edits |-> 0, faults |-> 0, restarts |-> 0]
    /\ cpc = "idle" /\ own = Coll!Absent /\ cfresh = FALSE
    /\ listed = <<>> /\ ctodo = {} /\ need = {}
    /\ in = Coll!NoInput /\ config = Coll!NoConfig /\ errs = {}
    /\ queued = FALSE
    /\ left = [edits |-> 0, faults |-> 0, restarts |-> 0]

\* A step that touches nothing the other processes read or write commutes with
\* theirs, so that it is taken at once: between the loops, at bridges when there
\* are none, and at the collector and its children. These the collector
\* controller alone reads and writes, and it is shown what it has written
\* without delay; how it copes with a delay is seen in its own module.
RouteLocal ==
    \/ rpc = "validate" \/ (rpc \in {"release", "bridges"} /\ rtodo = {})
    \/ rpc \in {"source", "target"} /\ Bridges = {}
CollectorLocal ==
    \/ cpc \in {"tenants", "subscriptions"} /\ need = {}
    \/ cpc \in {"assembled", "publish"} \cup Coll!Children
Unseen == {x \in Objects \ Late : ~CacheCurrent(x)}
RouteMay == Unseen = {} /\ (RouteLocal \/ ~CollectorLocal)
CollectorMay == Unseen = {} /\ ~RouteLocal
OthersMay == Unseen = {} /\ ~RouteLocal /\ ~CollectorLocal

RouteStep ==
    /\ RouteMay
    /\ Route!WorkerStep \/ \E t \in Tenants : Route!StartReconcile(t)
    /\ UNCHANGED collectorVars
CollectorStep ==
    /\ CollectorMay
    /\ Coll!WorkerStep \/ Coll!StartReconcile
    /\ UNCHANGED routeVars
PromptEvent == \E x \in Unseen : DeliverEvent(x)
LateEvent == OthersMay /\ \E x \in Late : DeliverEvent(x)
UserStep == OthersMay /\ \E n \in Movable, l \in Labels : Relabel(n, l)

Next ==
    \/ RouteStep
    \/ CollectorStep
    \/ PromptEvent
    \/ LateEvent
    \/ UserStep

Spec == Init /\ [][Next]_vars

\* As in the modules of the two controllers: workers and watches make progress,
\* and events do not for ever arrive in the middle of a reconciliation. Fairness
\* is strong because a process waits while a local step of another is taken,
\* which in the program it does not.
Fairness ==
    /\ SF_vars(RouteStep)
    /\ SF_vars(CollectorStep)
    /\ WF_vars(PromptEvent)
    /\ SF_vars(LateEvent)
    /\ SF_vars(rpc = "idle" /\ LateEvent)

FairSpec == Spec /\ Fairness

-----------------------------------------------------------------------------
(* Properties *)

\* Nothing is left to do for either controller.
AtRest ==
    /\ rpc = "idle" /\ queue = {} /\ cpc = "idle" /\ ~queued
    /\ \A x \in Objects : CacheCurrent(x)

\* What the specs of the users and administrators ask for: the logs of a tenant
\* go to the outputs of the subscriptions in the namespaces it selects.
Conditions == {SubscriptionSetting[s] : s \in Subscriptions}
Asked(t, sat) ==
    UNION {store[s].refs : s \in {s \in Subscriptions \cap Route!Chosen(t) : SubscriptionSetting[s] \in sat}}
Sent(t, sat) ==
    {o \in Outputs : <<OutputSetting[o], o>> \in
        Coll!ReachedExporters(store["otel"].content.config, Coll!LogsTenant(t), sat \cup {"true"})}
FlowsAsSpecified ==
    \A sat \in SUBSET Conditions, t \in {t \in Tenants : store[t].exists} : Sent(t, sat) = Asked(t, sat)

\* README.md:12, "telemetry data streams that only their tenant can access":
\* when both controllers are done, what is deployed sends the logs of a tenant
\* to the outputs its users have asked for and to no others, whatever one
\* controller was doing while the other read and wrote. It says nothing of a
\* handover that leaves a tenant barred: both controllers then retry for ever.
IsolatedAtRest == AtRest => store["otel"].exists /\ FlowsAsSpecified

\* What is deployed sends the logs of t to an output that has passed to another
\* tenant. While namespaces change hands that cannot be helped: statuses are
\* written one by one, and the collector reads them after that.
StaleRoute(t) == \E o \in Outputs : store[o].tenant \notin {t, None} /\ o \in Sent(t, Conditions)

\* It ends, whatever conflicts, failures and retries of either controller come
\* first, unless a failed output bars a tenant from becoming ready. Then the
\* collector answers ErrTenantFailed with one retry after the other, nothing is
\* written any more, and the route stays: so it is if the tenant that takes the
\* output is reconciled before the one that gives it up (see Route!Barred).
StaleRouteEnds ==
    <>[]((\A u \in Tenants : ~Route!Barred(u)) => \A t \in Tenants : ~StaleRoute(t))
=============================================================================
