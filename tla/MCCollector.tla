---------------------------- MODULE MCCollector ----------------------------
(***************************************************************************)
(* Instances of CollectorReconciler for TLC. The .cfg files choose among   *)
(* the values defined here.                                                *)
(***************************************************************************)
EXTENDS CollectorReconciler

CONSTANTS t1, t2, s1, s2, o1, o2, b1, sec1, sec2

AllObjects == Sources \cup {Collector} \cup Children

\* o1 and o2 refer to the secrets sec1 and sec2.
OwnSecret == [o \in Outputs |-> IF o = o1 THEN sec1 ELSE sec2]

\* The outputs x of namespace a-b and x of a; or c of a-b and b-c of a.
Namespaces == [o \in {o1, o2} |-> IF o = o1 THEN <<"a", "b">> ELSE <<"a">>]
SameNames == [o \in {o1, o2} |-> <<"x">>]
OtherNames == [o \in {o1, o2} |-> IF o = o1 THEN <<"c">> ELSE <<"b", "c">>]
PlainNames == [x \in {s1, s2, o1, o2} |-> CASE x = s1 -> "s1" [] x = s2 -> "s2" [] OTHER -> NameLabels[x]]

\* The store has all of every object.
AsStored(x, v) == v

LowerCase == [w \in {"data", "team", "A", "b", "out", "f", "queue"} |-> IF w = "A" THEN "a" ELSE w]

-----------------------------------------------------------------------------
(* Values of objects *)

Tenant(subs, logNs, all, storage, bridges) ==
    [exists |-> TRUE, selected |-> TRUE, state |-> "ready", subs |-> subs, logNs |-> logNs, all |-> all,
     storage |-> storage, dir |-> None, transform |-> None, flatten |-> FALSE, defaults |-> {}, bridges |-> bridges]
Transforming(tenant, flatten) == [tenant EXCEPT !.transform = "tr", !.flatten = flatten]
Subscription(outputs, cond) == [exists |-> TRUE, outputs |-> outputs, refs |-> Outputs, cond |-> cond]
Output(kind, auth, batch) == [exists |-> TRUE, kind |-> kind, path |-> <<>>, auth |-> auth, batch |-> batch]
File(path) == [Output("file", None, FALSE) EXCEPT !.path = path]
Bridge(source, target) == [exists |-> TRUE, source |-> source, target |-> target, cond |-> "c3"]
Secret(password) == [exists |-> TRUE, data |-> [f \in {"username", "password", "token"} |-> <<f, password>>]]
NoUsername(password) == [exists |-> TRUE, data |-> [f \in {"password"} |-> <<f, password>>]]
NothingGiven == [volumes |-> {}, mounts |-> {}]
CollectorSpec(debug, dryRun, events, axoflow) ==
    [exists |-> TRUE, debug |-> debug, dryRun |-> dryRun, events |-> events, axoflow |-> axoflow,
     given |-> NothingGiven, state |-> "", problems |-> {}, tenants |-> {}]
Plain == CollectorSpec(FALSE, FALSE, FALSE, FALSE)

\* The files /data/team-A/out/f and /data/team-b/out/f.
File1 == <<<<"data">>, <<"team", "A">>, <<"out">>, <<"f">>>>
File2 == <<<<"data">>, <<"team", "b">>, <<"out">>, <<"f">>>>

\* A collector whose user mounts the logs of the containers in a way of its own.
OwnLogs ==
    LET v == [name |-> <<"varlog">>, path |-> <<<<"data">>, <<"out">>>>]
    IN  [volumes |-> {v}, mounts |-> {v}]

Cluster(pairs) == [x \in {p[1] : p \in pairs} |-> (CHOOSE p \in pairs : p[1] = x)[2]]
WithRbac == {<<child, Child("fixed", FALSE)>> : child \in {"role", "sa", "binding"}}

Scenario(objects, edits, faults, restarts) ==
    [objects |-> objects, left |-> [edits |-> edits, faults |-> faults, restarts |-> restarts]]
Alone(clusters) == {Scenario(c, 0, 0, 0) : c \in clusters}

-----------------------------------------------------------------------------
(* Many configurations, left alone: two tenants that may share a             *)
(* subscription, subscriptions that may share an output or a condition, and  *)
(* a bridge. The manager was there before, and its OpenTelemetryCollector     *)
(* and auth secret have been deleted. The last two are refused: one before   *)
(* and one after the configuration is assembled.                             *)

Modes == {<<FALSE, FALSE>>, <<TRUE, FALSE>>, <<TRUE, TRUE>>}
SomeConfigs ==
    {Cluster({<<Collector, [CollectorSpec(mode[1], mode[2], extra, extra)
                              EXCEPT !.given = IF extra THEN OwnLogs ELSE NothingGiven,
                                     !.state = "ready", !.tenants = {t1, t2}]>>,
              <<t1, [Transforming(Tenant(subs1, IF extra THEN {} ELSE {"n"}, extra, extra, bridges), TRUE)
                       EXCEPT !.defaults = IF extra THEN {LogsSubscription(t1, s2)} ELSE {}]>>,
              <<t2, [Tenant(subs2, IF extra THEN {"n"} ELSE {}, FALSE, TRUE, bridges)
                       EXCEPT !.dir = <<<<"data">>, <<"queue">>>>]>>,
              <<s1, Subscription({o1}, "c1")>>, <<s2, Subscription(outs, cond)>>,
              <<o1, IF extra THEN Output("otlp_grpc", "basicauth", TRUE) ELSE File(File1)>>,
              <<o2, IF extra THEN Output("elasticsearch", "bearertokenauth", FALSE) ELSE File(File2)>>,
              <<b1, Bridge(t1, t2)>>, <<sec1, NoUsername("pw1")>>, <<sec2, Secret("pw2")>>} \cup WithRbac) :
        mode \in Modes, extra \in BOOLEAN, bridges \in {{}, {b1}},
        subs1 \in {{s1}, {s1, s2}}, subs2 \in {{}, {s2}}, outs \in {{o1}, {o1, o2}}, cond \in {"c1", "c2"}}
BothSources ==
    Cluster({<<Collector, Plain>>, <<t1, Tenant({s1}, {"n"}, TRUE, FALSE, {})>>, <<s1, Subscription({o1}, "c1")>>,
             <<o1, File(File1)>>})
NoValidOutput ==
    Cluster({<<Collector, Plain>>, <<t1, Tenant({s1}, {"n"}, FALSE, FALSE, {})>>, <<s1, Subscription({}, "c1")>>})
Configs == SomeConfigs \cup {BothSources, NoValidOutput}

-----------------------------------------------------------------------------
(* One tenant, subscription and output that others work on *)

OneOfEach ==
    Cluster({<<Collector, Plain>>, <<t1, Tenant({s1}, {"n"}, FALSE, FALSE, {})>>, <<s1, Subscription({o1}, "c1")>>,
             <<o1, Output("otlp_grpc", "basicauth", FALSE)>>, <<sec1, Secret("pw1")>>})
Extended(cluster, pairs) ==
    Cluster(pairs \cup {<<x, cluster[x]>> : x \in DOMAIN cluster \ {p[1] : p \in pairs}})
OneWithRbac == {Extended(OneOfEach, WithRbac)}
NothingEdited == [x \in {Collector} |-> {}]

\* The same without something, or with a failed tenant. Then the tenant
\* controller fails or heals the tenant; a user deselects it, changes the
\* authentication, deletes the subscription or its references, or applies or
\* deletes the collector or what is missing; somebody deletes a child.
Lifecycle ==
    OneWithRbac \cup {Extended(cluster, {p}) :
        cluster \in OneWithRbac,
        p \in {<<t1, [OneOfEach[t1] EXCEPT !.state = "failed"]>>, <<"binding", Absent>>}
             \cup {<<x, Absent>> : x \in {o1, sec1, Collector}}}
LifecycleEdits ==
    [x \in {Collector, t1, s1, o1, sec1, "auth", "otel"} |->
        CASE x = Collector -> {Absent, Plain}
          [] x = t1 -> {[OneOfEach[t1] EXCEPT !.state = "failed"], [OneOfEach[t1] EXCEPT !.selected = FALSE], OneOfEach[t1]}
          [] x = s1 -> {[OneOfEach[s1] EXCEPT !.refs = {}], Absent}
          [] x = o1 -> {[File(File1) EXCEPT !.batch = TRUE], [OneOfEach[o1] EXCEPT !.auth = "both"], OneOfEach[o1]}
          [] x = sec1 -> {OneOfEach[sec1]}
          [] x \in {"auth", "otel"} -> {Absent}]

\* Two tenants, of which one has a storage for the queue of the output they
\* share, and one has two subscriptions with conditions of their own.
Reordered ==
    Extended(OneOfEach, WithRbac \cup {<<t1, Tenant({s1, s2}, {"n"}, FALSE, TRUE, {})>>,
                                      <<t2, Tenant({s2}, {}, FALSE, FALSE, {})>>,
                                      <<s2, Subscription({o1}, "c2")>>})

\* Two tenants with a bridge between them, whose subscriptions share an output:
\* the bridge, the output and its secret are read twice.
Shared ==
    Cluster({<<Collector, Plain>>, <<t1, Tenant({s1}, {"n"}, FALSE, FALSE, {b1})>>,
             <<t2, Tenant({s2}, {}, FALSE, FALSE, {b1})>>,
             <<s1, Subscription({o1}, "c1")>>, <<s2, Subscription({o1}, "c2")>>,
             <<o1, Output("otlp_grpc", "basicauth", FALSE)>>, <<sec1, Secret("pw1")>>,
             <<b1, Bridge(t1, t2)>>} \cup WithRbac)
SharedEdits ==
    [x \in {Collector, t1, o1, b1, sec1} |->
        CASE x = Collector -> {}
          [] x = t1 -> {[Shared[t1] EXCEPT !.subs = {s1, s2}]}
          [] x = o1 -> {Output("elasticsearch", "bearertokenauth", TRUE)}
          [] x = b1 -> {[Shared[b1] EXCEPT !.cond = "c4"], Absent}
          [] x = sec1 -> {Secret("pw2")}]

-----------------------------------------------------------------------------
(* Smaller clusters *)

Empty == {Cluster({<<Collector, Plain>>})}

\* Two outputs with batches of their own and credentials of their own.
TwoOutputs ==
    {Cluster({<<Collector, Plain>>, <<t1, Tenant({s1}, {"n"}, FALSE, FALSE, {})>>,
              <<s1, Subscription({o1, o2}, "c1")>>,
              <<o1, Output("otlp_grpc", "basicauth", TRUE)>>, <<o2, Output("otlp_http", "basicauth", TRUE)>>,
              <<sec1, Secret("pw1")>>, <<sec2, Secret("pw2")>>} \cup WithRbac)}

-----------------------------------------------------------------------------
(* What the theorems of WrittenProofs assume of the objects holds of all of   *)
(* these.                                                                     *)

ASSUME Hypotheses ==
    BridgesKeepEnds /\ OthersKeepFinalizers /\ OthersResolve /\ DirectoriesApart /\ OthersMount /\ RbacLeftAlone

-----------------------------------------------------------------------------
(* The scenarios of the runs *)

WrittenScenarios == Alone(Configs \cup TwoOutputs) \cup {Scenario(Shared, 2, 0, 0)}
LiveScenarios ==
    {Scenario(c, 1, 1, 1) : c \in OneWithRbac} \cup Alone({Reordered})
    \cup {Scenario(c, 1, 1, 0) : c \in Lifecycle} \cup {Scenario(c, 1, 0, 1) : c \in Lifecycle}
EmptyScenarios == Alone(Empty)
KeysScenarios == Alone(TwoOutputs)
=============================================================================
