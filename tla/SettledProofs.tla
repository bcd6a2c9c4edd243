--------------------------- MODULE SettledProofs ---------------------------
(***************************************************************************)
(* What is deployed once the collector controller is at rest.              *)
(***************************************************************************)
EXTENDS WrittenProofs

-----------------------------------------------------------------------------
(* What goes unnoticed leaves everything that is watched as it is *)

LEMMA WorkerWrites ==
    ASSUME CollectorInv, WorkerStep
    PROVE  (queued => queued') /\ (UNCHANGED apiVars \/ \E x \in Objects : \E v : Put(x, v))
  <1> DEFINE Api == UNCHANGED apiVars \/ \E x \in Objects : \E v : Put(x, v)
             Goal == (queued => queued') /\ Api
  <1>1. ASSUME NEW kind, HandleError(kind) PROVE queued => queued'
    BY <1>1 DEF HandleError
  <1>2. ASSUME NEW child \in Children, NEW content, NEW outcome, ReconcileResource(child, content, outcome) PROVE Api
    BY <1>2, Reconciled, TheChildren DEF CollectorInv
  <1>3. CASE ListTenants \/ TenantsRead \/ GetSecret \/ Assemble \/ CheckConfig
    BY <1>1, <1>3 DEF ListTenants, TenantsRead, GetSecret, Assemble, CheckConfig
  <1>4. CASE Publish
    BY <1>4, TheChildren DEF Publish, Requeue
  <1>5. CASE \E t \in Tenants : VisitTenant(t)
    BY <1>1, <1>5 DEF VisitTenant
  <1>6. CASE \E s \in Subscriptions : GetSubscription(s) \/ VisitSubscription(s)
    BY <1>1, <1>6 DEF GetSubscription, VisitSubscription
  <1>7. CASE (\E b \in Bridges : GetBridge(b)) \/ \E o \in Outputs : GetOutput(o)
    BY <1>1, <1>7 DEF GetBridge, GetOutput
  <1>8. ASSUME NEW outcome \in Outcomes, NEW i \in DOMAIN Rbac, ReconcileRBAC(Rbac[i], outcome) PROVE Goal
    <2>1. Rbac[i] \in Children
      BY DEF Rbac, Children
    <2>2. Api
      BY <1>2, <1>8, <2>1 DEF ReconcileRBAC
    <2> QED BY <1>1, <1>8, <2>2 DEF ReconcileRBAC
  <1>9. ASSUME NEW outcome \in Outcomes, ReconcileAuthSecret(outcome) PROVE Goal
    <2>1. Api
      BY <1>2, <1>9, TheChildren DEF ReconcileAuthSecret
    <2> QED BY <1>1, <1>9, <2>1 DEF ReconcileAuthSecret
  <1>10. ASSUME NEW outcome \in Outcomes, ReconcileOtelCollector(outcome) PROVE Goal
    <2>1. Api
      BY <1>2, <1>10, TheChildren DEF ReconcileOtelCollector
    <2> QED BY <1>1, <1>10, <2>1 DEF ReconcileOtelCollector
  <1> QED BY <1>3, <1>4, <1>5, <1>6, <1>7, <1>8, <1>9, <1>10 DEF WorkerStep

Quiet ==
    /\ ~Seen
    /\ \A x \in Watched : store'[x] = store[x] /\ cache[x] = store[x]

LEMMA PutQuiet ==
    ASSUME CollectorInv, NEW x \in Objects, NEW v, Put(x, v), queued => queued', ~Seen'
    PROVE  ~Seen /\ \A y \in Watched : store'[y] = store[y]
  <1>1. ~Seen /\ (x \in Watched => v = store[x])
    BY SeenPut DEF CollectorInv
  <1>2. store'[x] = v /\ \A y \in Objects \ {x} : store'[y] = store[y]
    BY PutStreams DEF CollectorInv, ApiInv
  <1> QED BY <1>1, <1>2, TheWatched

LEMMA Undisturbed == ASSUME CollectorInv, [Next]_vars, ~Seen', ~StartReconcile PROVE Quiet
  <1> DEFINE Same == ~Seen /\ \A x \in Watched : store'[x] = store[x]
  <1>1. ASSUME UNCHANGED apiVars, queued => queued' PROVE Same
    BY <1>1, SeenStutter DEF apiVars
  <1>2. ASSUME NEW x \in Objects, NEW v, Put(x, v), queued => queued' PROVE Same
    BY <1>2, PutQuiet
  <1>3. Same
    <2>1. CASE WorkerStep
      BY <1>1, <1>2, <2>1, WorkerWrites
    <2>2. ASSUME NEW x \in Objects, DeliverEvent(x) PROVE Same
      BY <2>2, SeenDeliver DEF DeliverEvent, Deliver
    <2>3. CASE StartError
      BY <1>1, <2>3 DEF StartError
    <2>4. CASE ReadError
      BY <1>1, <2>4 DEF ReadError, HandleError
    <2>5. CASE Restart
      BY <2>5 DEF Restart, InitialSync, Seen
    <2>6. CASE NamespaceEvent
      BY <1>1, <2>6 DEF NamespaceEvent, QueuedByNamespace
    <2>7. ASSUME NEW x \in Objects, NEW v, Edit(x, v) PROVE Same
      BY <1>2, <2>7 DEF Edit
    <2>8. CASE Environment
      BY <2>6, <2>7, <2>8, TheChildren, Edited DEF Environment, EditCollector, AddFinalizer
    <2>9. CASE UNCHANGED vars
      BY <1>1, <2>9 DEF vars
    <2> QED BY <2>1, <2>2, <2>3, <2>4, <2>5, <2>8, <2>9 DEF Next
  <1>4. \A x \in Watched : ~Seen => cache[x] = store[x]
    BY TheWatched, StoredVersion DEF Seen, CollectorInv, ApiInv
  <1> QED BY <1>3, <1>4 DEF Quiet

\* A reconciliation that is begun and will not be repeated has read the
\* collector as it is.
LEMMA StartedFresh ==
    ASSUME CollectorInv, StartReconcile, ~Seen'
    PROVE  pc' = "list" /\ own' = store'[Collector] /\ UNCHANGED apiVars
  <1>1. UNCHANGED apiVars
    BY DEF StartReconcile
  <1>2. CacheCurrent(Collector) /\ store[Collector].exists
    BY <1>1, TheWatched DEF Seen, apiVars, CacheCurrent
  <1>3. cache[Collector] = store[Collector]
    BY <1>2, StoredVersion, TheChildren DEF CollectorInv, ApiInv
  <1> QED BY <1>1, <1>2, <1>3 DEF StartReconcile, Exists, apiVars

-----------------------------------------------------------------------------
(* What the resources ask for *)

\* What exists in the store has the fields of its kind.
LEMMA NowTyped ==
    ASSUME CollectorInv
    PROVE  /\ \A t \in Tenants : store[t].exists => Now(t).subs \subseteq Subscriptions /\ Now(t).bridges \subseteq Bridges
           /\ \A s \in Subscriptions : store[s].exists => Now(s).outputs \subseteq Outputs
           /\ store[Collector].exists => store[Collector].exists = TRUE /\ DOMAIN store[Collector] = CollectorFields
  <1>1. \A x \in Objects : store[x].exists => WellFormed(x, store[x]) /\ store[x] # Absent
    BY Read DEF CollectorInv
  <1> QED BY <1>1, Kinds DEF WellFormed, Now

LEMMA AskedKinds ==
    ASSUME CollectorInv
    PROVE  /\ StoredTenants \subseteq Tenants /\ AskedSubscriptions \subseteq Subscriptions
           /\ AskedBridges \subseteq Bridges /\ AskedOutputs \subseteq Outputs
           /\ \A x \in Tenants \cup Subscriptions \cup Bridges \cup Outputs : x \in Watched
           /\ \A o \in Outputs : SecretOf[o] \in Watched
  <1>1. StoredTenants \subseteq Tenants /\ \A t \in StoredTenants : store[t].exists
    BY DEF StoredTenants, Stored
  <1>2. AskedSubscriptions \subseteq Subscriptions /\ AskedBridges \subseteq Bridges
    BY <1>1, NowTyped DEF AskedSubscriptions, AskedBridges
  <1>3. AskedOutputs \subseteq Outputs
    BY <1>2, NowTyped DEF AskedOutputs, Stored
  <1> QED BY <1>1, <1>2, <1>3, KindsAssumption, Kinds, TheWatched

\* It does not change while the collector need not be seen to.
LEMMA StoredSame ==
    ASSUME CollectorInv, Quiet
    PROVE  /\ \A x \in Watched : Now(x)' = Now(x) /\ store'[x].exists = store[x].exists
           /\ StoredTenants' = StoredTenants /\ AskedSubscriptions' = AskedSubscriptions
           /\ AskedBridges' = AskedBridges /\ AskedOutputs' = AskedOutputs
           /\ Stored(AskedSubscriptions)' = Stored(AskedSubscriptions) /\ Stored(AskedOutputs)' = Stored(AskedOutputs)
           /\ \A o \in Outputs : SecretStored(o)' = SecretStored(o) /\ StoredOutput(o)' = StoredOutput(o)
           /\ StoredSubscriptions' = StoredSubscriptions /\ StoredBridges' = StoredBridges /\ StoredOutputs' = StoredOutputs
           /\ StoredInput' = StoredInput /\ Readable' = Readable /\ Deployable' = Deployable
           /\ store'[Collector] = store[Collector]
  <1>1. \A x \in Watched : Now(x)' = Now(x) /\ store'[x].exists = store[x].exists
    BY DEF Quiet, Now
  <1>2. StoredTenants' = StoredTenants
    BY <1>1, AskedKinds DEF StoredTenants, Stored
  <1>3. AskedSubscriptions' = AskedSubscriptions /\ AskedBridges' = AskedBridges
    BY <1>1, <1>2, AskedKinds DEF AskedSubscriptions, AskedBridges
  <1>4. Stored(AskedSubscriptions)' = Stored(AskedSubscriptions) /\ Stored(AskedBridges)' = Stored(AskedBridges)
    BY <1>1, <1>3, AskedKinds DEF Stored
  <1>5. \A s \in Stored(AskedSubscriptions) : Now(s)' = Now(s)
    BY <1>1, AskedKinds DEF Stored
  <1>6. AskedOutputs' = AskedOutputs
    BY <1>4, <1>5 DEF AskedOutputs
  <1>7. Stored(AskedOutputs)' = Stored(AskedOutputs)
    BY <1>1, <1>6, AskedKinds DEF Stored
  <1>8. \A o \in Outputs : store'[SecretOf[o]] = store[SecretOf[o]] /\ Now(o)' = Now(o)
    BY <1>1, AskedKinds DEF Quiet
  <1>9. \A o \in Outputs : SecretStored(o)' = SecretStored(o)
    BY <1>8 DEF SecretStored
  <1>10. \A o \in Outputs : StoredOutput(o)' = StoredOutput(o)
    BY <1>8, <1>9 DEF StoredOutput
  <1>11. \A o \in Stored(AskedOutputs) : o \in Outputs
    BY AskedKinds DEF Stored
  <1>12. \A b \in Stored(AskedBridges) : Now(b)' = Now(b)
    BY <1>1, AskedKinds DEF Stored
  <1>13. StoredSubscriptions' = StoredSubscriptions
    BY <1>4, <1>5 DEF StoredSubscriptions
  <1>14. StoredBridges' = StoredBridges
    BY <1>4, <1>12 DEF StoredBridges
  <1>15. StoredOutputs' = StoredOutputs
    BY <1>7, <1>10, <1>11 DEF StoredOutputs
  <1>16. store'[Collector] = store[Collector]
    BY TheWatched DEF Quiet
  <1>17. [t \in StoredTenants |-> TenantInput(Now(t))]' = [t \in StoredTenants |-> TenantInput(Now(t))]
    <2>1. \A t \in StoredTenants : Now(t)' = Now(t)
      BY <1>1, AskedKinds
    <2> QED BY <1>2, <2>1
  <1>18. StoredInput' = StoredInput
    BY <1>13, <1>14, <1>15, <1>16, <1>17 DEF StoredInput
  <1>19. Readable' = Readable
    <2>1. \A t \in StoredTenants : Now(t)' = Now(t)
      BY <1>1, AskedKinds
    <2>2. \A x \in AskedSubscriptions \cup AskedBridges \cup AskedOutputs : store'[x].exists = store[x].exists
      BY <1>1, AskedKinds
    <2>3. \A o \in Stored(AskedOutputs) : Now(o)' = Now(o) /\ SecretStored(o)' = SecretStored(o)
      BY <1>8, <1>9, <1>11
    <2> QED BY <1>2, <1>3, <1>6, <1>7, <2>1, <2>2, <2>3 DEF Readable
  <1>20. Deployable' = Deployable
    BY <1>16, <1>18, <1>19 DEF Deployable
  <1> QED BY <1>1, <1>2, <1>3, <1>4, <1>6, <1>7, <1>9, <1>10, <1>13, <1>14, <1>15, <1>16, <1>18, <1>19, <1>20

-----------------------------------------------------------------------------
(* What has been read is what is stored *)

LEMMA CachedNow == ASSUME Quiet PROVE \A x \in Watched : Cached(x) = Now(x) /\ Exists(x) = store[x].exists
  BY DEF Quiet, Cached, Now, Exists

\* Only three fields of the input change once the tenants are listed.
Extended == \E subs, bridges, outputs : in' = OtelColConfigInput(in, in.tenants, subs, bridges, outputs)

LEMMA KeptNow ==
    ASSUME CollectorInv, Quiet
    PROVE  /\ ListedNow /\ listed' = listed /\ Extended => ListedNow'
           /\ SubscriptionsNow /\ in'.subs = in.subs => SubscriptionsNow'
           /\ BridgesNow /\ in'.bridges = in.bridges => BridgesNow'
           /\ OutputsNow /\ in'.outputs = in.outputs /\ (pc = "secret" <=> pc' = "secret") => OutputsNow'
  <1>1. ASSUME ListedNow, listed' = listed, Extended PROVE ListedNow'
    <2>1. \A t \in StoredTenants : Now(t)' = Now(t)
      BY StoredSame, AskedKinds
    <2>2. in' = OtelColConfigInput(store[Collector], [t \in StoredTenants |-> TenantInput(Now(t))], in'.subs, in'.bridges, in'.outputs)
      BY <1>1 DEF Extended, ListedNow, InputOf, OtelColConfigInput
    <2>3. in' = InputOf(in.subs)'
      BY <2>1, <2>2, StoredSame DEF InputOf
    <2> QED BY <1>1, <2>1, <2>3, StoredSame DEF ListedNow
  <1>2. ASSUME SubscriptionsNow, in'.subs = in.subs PROVE SubscriptionsNow'
    <2>1. \A s \in Stored(AskedSubscriptions) : Now(s)' = Now(s)
      BY StoredSame, AskedKinds DEF Stored
    <2> QED BY <1>2, <2>1, StoredSame DEF SubscriptionsNow
  <1>3. ASSUME BridgesNow, in'.bridges = in.bridges PROVE BridgesNow'
    BY <1>3, StoredSame DEF BridgesNow
  <1>4. ASSUME OutputsNow, in'.outputs = in.outputs, pc = "secret" <=> pc' = "secret" PROVE OutputsNow'
    <2>1. \A o \in Stored(AskedOutputs) :
            Now(o)' = Now(o) /\ SecretStored(o)' = SecretStored(o) /\ StoredOutput(o)' = StoredOutput(o)
      BY StoredSame, AskedKinds DEF Stored
    <2> QED BY <1>4, <2>1, StoredSame DEF OutputsNow, OutputNow
  <1> QED BY <1>1, <1>2, <1>3, <1>4

LEMMA ReadTenants == ASSUME CollectorInv, Quiet, own = store[Collector], ListTenants PROVE ReadNow'
  <1>1. SelectedTenants = StoredTenants
    BY CachedNow, AskedKinds DEF SelectedTenants, StoredTenants, Stored
  <1>2. need' = {} /\ todo' = StoredTenants /\ pc' = "tenants" /\ listed' = [t \in StoredTenants |-> Cached(t)]
    BY <1>1 DEF CollectorInv, ReadInv, ListTenants, At
  <1>3. \A t \in StoredTenants : Cached(t) = Now(t) /\ Now(t)' = Now(t)
    BY CachedNow, StoredSame, AskedKinds
  <1>4. in' = OtelColConfigInput(store[Collector], [t \in StoredTenants |-> TenantInput(Now(t))], <<>>, <<>>, <<>>)
    BY <1>1, <1>3 DEF ListTenants
  <1>5. in'.subs = <<>> /\ in'.bridges = <<>> /\ in'.outputs = <<>>
    BY <1>4 DEF OtelColConfigInput
  <1>6. in' = InputOf(in.subs)'
    BY <1>3, <1>4, <1>5, StoredSame DEF InputOf
  <1>7. ListedNow'
    BY <1>2, <1>3, <1>6, StoredSame DEF ListedNow
  <1>8. DOMAIN <<>> = {} /\ <<>> = [s \in {} |-> SubscriptionInput(Now(s))]'
    BY EmptySeq
  <1>9. SubscriptionsNow' /\ BridgesNow' /\ OutputsNow'
    BY <1>5, <1>8 DEF SubscriptionsNow, BridgesNow, OutputsNow
  <1>10. AskedNow' /\ VisitedNow'
    BY <1>2, StoredSame DEF AskedNow, VisitedNow
  <1> QED BY <1>7, <1>9, <1>10 DEF ReadNow

LEMMA Extends ==
    ASSUME ListedNow, NEW v,
           in' = in \/ in' = [in EXCEPT !.subs = v] \/ in' = [in EXCEPT !.bridges = v] \/ in' = [in EXCEPT !.outputs = v]
    PROVE  Extended
  <1>1. in = OtelColConfigInput(in, in.tenants, in.subs, in.bridges, in.outputs)
    BY DEF ListedNow, InputOf, OtelColConfigInput
  <1>2. CASE in' = in
    BY <1>1, <1>2 DEF Extended
  <1>3. CASE in' = [in EXCEPT !.subs = v]
    <2>1. in' = OtelColConfigInput(in, in.tenants, v, in.bridges, in.outputs)
      BY <1>1, <1>3 DEF OtelColConfigInput
    <2> QED BY <2>1 DEF Extended
  <1>4. CASE in' = [in EXCEPT !.bridges = v]
    <2>1. in' = OtelColConfigInput(in, in.tenants, in.subs, v, in.outputs)
      BY <1>1, <1>4 DEF OtelColConfigInput
    <2> QED BY <2>1 DEF Extended
  <1>5. CASE in' = [in EXCEPT !.outputs = v]
    <2>1. in' = OtelColConfigInput(in, in.tenants, in.subs, in.bridges, v)
      BY <1>1, <1>5 DEF OtelColConfigInput
    <2> QED BY <2>1 DEF Extended
  <1> QED BY <1>2, <1>3, <1>4, <1>5

LEMMA ReadVisit ==
    ASSUME CollectorInv, Quiet, ReadNow, NEW t \in Tenants, VisitTenant(t), ~Failed(t), in' = in
    PROVE  ReadNow'
  <1>1. /\ pc = "tenants" /\ pc' = pc /\ need = {} /\ t \in todo /\ todo' = todo \ {t} /\ listed' = listed
        /\ need' = listed[t].subs \cup listed[t].bridges
    BY DEF VisitTenant, At
  <1>2. DOMAIN listed = StoredTenants /\ t \in StoredTenants /\ listed[t] = Now(t) /\ Now(t).state # "failed"
    BY <1>1 DEF ReadNow, ListedNow, CollectorInv, TypeOK, Failed
  <1>3. \A u \in StoredTenants : Now(u)' = Now(u)
    BY StoredSame, AskedKinds
  <1>4. AskedNow'
    BY <1>1, <1>2, StoredSame DEF AskedNow, AskedSubscriptions, AskedBridges
  <1>5. \A u \in StoredTenants : u \in todo \/ Visited(u)
    BY <1>1 DEF ReadNow, VisitedNow
  <1>6. VisitedNow'
    BY <1>1, <1>2, <1>3, <1>5, StoredSame DEF VisitedNow, Visited
  <1> QED BY <1>1, <1>4, <1>6, KeptNow, Extends DEF ReadNow

LEMMA ReadSubscription ==
    ASSUME CollectorInv, Quiet, ReadNow, NEW s \in Subscriptions, GetSubscription(s), SubscriptionRead(s), pc' = pc, listed' = listed
    PROVE  ReadNow'
  <1>1. pc = "tenants" /\ s \in need /\ store[s].exists /\ Cached(s) = Now(s) /\ Now(s)' = Now(s)
    BY CachedNow, StoredSame, AskedKinds DEF GetSubscription, SubscriptionRead, At
  <1>2. need' = need \ {s} /\ todo' = todo
    BY <1>1 DEF GetSubscription, SubscriptionRead, At
  <1>3. PICK entry : entry = Entry(in.subs, s, SubscriptionInput(Now(s)))
    OBVIOUS
  <1>4. in' = [in EXCEPT !.subs = entry] /\ in'.subs = entry /\ in'.bridges = in.bridges /\ in'.outputs = in.outputs
    BY <1>1, <1>3 DEF SubscriptionRead, CollectorInv, InputInv
  <1>5. DOMAIN entry = DOMAIN in.subs \cup {s} /\ s \in AskedSubscriptions
    <2>1. need \subseteq AskedSubscriptions \cup AskedBridges
      BY <1>1 DEF ReadNow, AskedNow
    <2> QED BY <1>1, <1>3, <2>1, AskedKinds, KindsAssumption DEF Entry
  <1>6. SubscriptionsNow'
    <2>1. \A x \in Stored(AskedSubscriptions) : Now(x)' = Now(x)
      BY StoredSame, AskedKinds DEF Stored
    <2>2. DOMAIN entry \subseteq Stored(AskedSubscriptions)
      BY <1>1, <1>5 DEF ReadNow, SubscriptionsNow, Stored
    <2>3. entry = [x \in DOMAIN entry |-> SubscriptionInput(Now(x))]
      BY <1>3, <1>5 DEF Entry, ReadNow, SubscriptionsNow
    <2> QED BY <1>4, <2>1, <2>2, <2>3, StoredSame DEF SubscriptionsNow
  <1>7. AskedNow'
    BY <1>1, <1>2, StoredSame DEF ReadNow, AskedNow
  <1>8. VisitedNow'
    <2>1. \A t \in StoredTenants : Now(t)' = Now(t) /\ s \notin Now(t).bridges
      BY StoredSame, AskedKinds, KindsAssumption DEF AskedBridges
    <2> QED BY <1>1, <1>2, <1>4, <2>1, StoredSame DEF ReadNow, VisitedNow, Visited
  <1> QED BY <1>1, <1>4, <1>6, <1>7, <1>8, KeptNow, Extends DEF ReadNow

\* The elements of a sequence that has become longer by one.
LEMMA BridgeAdded ==
    ASSUME CollectorInv, NEW b \in Bridges, BridgeRead(b), NEW new, new = BridgeInput(b, Cached(b))
    PROVE  /\ in'.bridges = Append(in.bridges, new) /\ in'.subs = in.subs /\ in'.outputs = in.outputs
           /\ {in'.bridges[i] : i \in DOMAIN in'.bridges} = {in.bridges[i] : i \in DOMAIN in.bridges} \cup {new}
  <1>1. in'.bridges = Append(in.bridges, new) /\ in'.subs = in.subs /\ in'.outputs = in.outputs
    BY DEF BridgeRead, CollectorInv, InputInv
  <1>2. in.bridges \in Seq({in.bridges[i] : i \in DOMAIN in.bridges})
    BY DEF CollectorInv, InputInv
  <1> QED BY <1>1, <1>2, Longer, SMTT(30)

LEMMA ReadBridge ==
    ASSUME CollectorInv, Quiet, ReadNow, NEW b \in Bridges, GetBridge(b), BridgeRead(b), pc' = pc, listed' = listed
    PROVE  ReadNow'
  <1>1. pc = "tenants" /\ b \in need /\ store[b].exists /\ Cached(b) = Now(b)
    BY CachedNow, AskedKinds DEF GetBridge, BridgeRead, At
  <1>2. need' = need \ {b} /\ todo' = todo
    BY <1>1 DEF GetBridge, BridgeRead, At
  <1>3. PICK new, read : new = BridgeInput(b, Now(b)) /\ read = {in.bridges[i] : i \in DOMAIN in.bridges}
    OBVIOUS
  <1>4. /\ in' = [in EXCEPT !.bridges = Append(@, new)] /\ in'.subs = in.subs /\ in'.outputs = in.outputs
        /\ {in'.bridges[i] : i \in DOMAIN in'.bridges} = read \cup {new}
    BY <1>1, <1>3, BridgeAdded DEF BridgeRead
  <1>5. b \in AskedBridges
    BY <1>1, AskedKinds, KindsAssumption DEF ReadNow, AskedNow
  <1>6. new \in StoredBridges /\ new.name = b
    BY <1>1, <1>3, <1>5 DEF StoredBridges, Stored, BridgeInput
  <1>7. BridgesNow'
    <2>1. read \subseteq StoredBridges
      BY <1>3 DEF ReadNow, BridgesNow
    <2> QED BY <1>4, <1>6, <2>1, StoredSame DEF BridgesNow
  <1>8. AskedNow'
    BY <1>1, <1>2, StoredSame DEF ReadNow, AskedNow
  <1>9. VisitedNow'
    <2>1. \A t \in StoredTenants : Now(t)' = Now(t)
      BY StoredSame, AskedKinds
    <2>2. \A c : (\E i \in DOMAIN in'.bridges : in'.bridges[i].name = c) <=> (c = b \/ \E i \in DOMAIN in.bridges : in.bridges[i].name = c)
      <3>1. \A c : (\E i \in DOMAIN in'.bridges : in'.bridges[i].name = c) <=> \E x \in read \cup {new} : x.name = c
        BY <1>4
      <3>2. \A c : (\E i \in DOMAIN in.bridges : in.bridges[i].name = c) <=> \E x \in read : x.name = c
        BY <1>3
      <3> QED BY <1>6, <3>1, <3>2
    <2> QED BY <1>1, <1>2, <2>1, <2>2, StoredSame DEF ReadNow, VisitedNow, Visited
  <1> QED BY <1>1, <1>4, <1>7, <1>8, <1>9, KeptNow, Extends DEF ReadNow

LEMMA ReadAllTenants == ASSUME CollectorInv, Quiet, ReadNow, TenantsRead PROVE ReadNow'
  <1>1. /\ pc = "tenants" /\ pc' = "subscriptions" /\ todo = {} /\ need = {} /\ need' = {}
        /\ in' = in /\ listed' = listed
    BY DEF TenantsRead, At
  <1>2. AskedNow'
    BY <1>1 DEF AskedNow
  <1>3. \A t \in StoredTenants : Now(t)' = Now(t)
    BY StoredSame, AskedKinds
  <1>4. VisitedNow'
    BY <1>1, <1>3, StoredSame DEF ReadNow, VisitedNow, Visited
  <1> QED BY <1>1, <1>2, <1>4, KeptNow, Extends DEF ReadNow

\* After the tenants, every one of them has been visited.
LEMMA VisitedAll ==
    ASSUME CollectorInv, Quiet, VisitedNow, pc # "tenants", pc' # "tenants",
           DOMAIN in.bridges = DOMAIN in'.bridges, in.bridges = in'.bridges
    PROVE  VisitedNow'
  <1>1. \A t \in StoredTenants : Now(t)' = Now(t)
    BY StoredSame, AskedKinds
  <1> QED BY <1>1, StoredSame DEF VisitedNow, Visited

LEMMA ReadVisitSubscription ==
    ASSUME CollectorInv, Quiet, ReadNow, NEW s \in Subscriptions, VisitSubscription(s)
    PROVE  ReadNow'
  <1>1. /\ pc = "subscriptions" /\ pc' = pc /\ s \in todo /\ need' = in.subs[s].outputs
        /\ in' = in /\ listed' = listed
    BY DEF VisitSubscription, At
  <1>2. s \in DOMAIN in.subs
    BY <1>1 DEF CollectorInv, TypeOK
  <1>3. s \in Stored(AskedSubscriptions) /\ in.subs[s] = SubscriptionInput(Now(s))
    BY <1>2 DEF ReadNow, SubscriptionsNow
  <1>4. need' \subseteq AskedOutputs
    BY <1>1, <1>3 DEF SubscriptionInput, AskedOutputs
  <1>5. AskedNow'
    BY <1>1, <1>4, StoredSame DEF AskedNow
  <1> QED BY <1>1, <1>5, KeptNow, Extends, VisitedAll DEF ReadNow

LEMMA ReadOutput ==
    ASSUME CollectorInv, Quiet, ReadNow, NEW o \in Outputs, GetOutput(o), OutputRead(o), listed' = listed
    PROVE  ReadNow'
  <1>1. /\ pc = "subscriptions" /\ o \in need /\ store[o].exists /\ Cached(o) = Now(o) /\ Now(o)' = Now(o)
        /\ pc' = IF Now(o).auth # None THEN "secret" ELSE "subscriptions"
    BY CachedNow, StoredSame, AskedKinds DEF GetOutput, OutputRead, At
  <1>2. need' = need \ {o}
    BY <1>1 DEF GetOutput, OutputRead, At
  <1>3. o \in Stored(AskedOutputs) /\ AskedNow'
    BY <1>1, <1>2, StoredSame DEF ReadNow, AskedNow, Stored
  <1>4. PICK new, n : new = OutputInput(o, Now(o), NoData) /\ n = Len(in.outputs)
    OBVIOUS
  <1>5. /\ n \in Nat /\ DOMAIN in.outputs = 1 .. n /\ in'.outputs = Append(in.outputs, new)
        /\ DOMAIN in'.outputs = 1 .. (n + 1) /\ Len(in'.outputs) = n + 1 /\ in'.outputs[n + 1] = new
        /\ \A i \in 1 .. n : in'.outputs[i] = in.outputs[i]
    BY <1>1, <1>4, OutputAdded
  <1>6. in' = [in EXCEPT !.outputs = Append(@, new)] /\ in'.subs = in.subs /\ in'.bridges = in.bridges
    BY <1>1, <1>4 DEF OutputRead, CollectorInv, InputInv
  <1>7. new.name = o /\ new.auth = Now(o).auth
    BY <1>4 DEF OutputInput
  <1>8. \A u \in Stored(AskedOutputs) :
            Now(u)' = Now(u) /\ SecretStored(u)' = SecretStored(u) /\ StoredOutput(u)' = StoredOutput(u)
    BY StoredSame, AskedKinds DEF Stored
  <1>9. Now(o).auth = None => StoredOutput(o) = new
    BY <1>4 DEF StoredOutput, SecretStored
  <1>10. ASSUME NEW i \in DOMAIN in'.outputs
         PROVE  LET u == in'.outputs[i]
                IN  /\ u.name \in Stored(AskedOutputs)
                    /\ IF pc' = "secret" /\ i = Len(in'.outputs)
                       THEN u = OutputInput(u.name, Now(u.name), NoData) /\ u.auth # None
                       ELSE OutputNow(u)
    <2>1. CASE i \in 1 .. n
      <3>1. in'.outputs[i] = in.outputs[i] /\ i # Len(in'.outputs)
        BY <1>5, <2>1
      <3>2. in.outputs[i].name \in Stored(AskedOutputs) /\ OutputNow(in.outputs[i])
        BY <1>1, <1>5, <2>1 DEF ReadNow, OutputsNow
      <3> QED BY <3>1, <3>2
    <2>2. CASE i = n + 1
      <3>1. in'.outputs[i] = new /\ i = Len(in'.outputs)
        BY <1>5, <2>2
      <3> QED BY <1>1, <1>3, <1>4, <1>7, <1>9, <3>1 DEF OutputNow
    <2> QED BY <1>5, <2>1, <2>2
  <1>11. OutputsNow'
    BY <1>8, <1>10, StoredSame DEF OutputsNow, OutputNow
  <1> QED BY <1>1, <1>3, <1>6, <1>11, KeptNow, Extends, VisitedAll DEF ReadNow

LEMMA ReadSecret ==
    ASSUME CollectorInv, Quiet, ReadNow, GetSecret, SecretRead, listed' = listed
    PROVE  ReadNow'
  <1>1. PICK last, out, new : last = Len(in.outputs) /\ out = in.outputs[last] /\ new = WithSecret(out)
    OBVIOUS
  <1>2. /\ last \in DOMAIN in.outputs /\ out \in Outs(in) /\ DOMAIN out = OutputFields /\ out.name \in Outputs
        /\ in'.outputs = [in.outputs EXCEPT ![last] = new]
        /\ DOMAIN in'.outputs = DOMAIN in.outputs /\ in'.outputs[last] = new
        /\ \A i \in DOMAIN in.outputs \ {last} : in'.outputs[i] = in.outputs[i]
        /\ Len(in'.outputs) = Len(in.outputs)
    BY <1>1, SecretAdded
  <1>3. /\ pc = "secret" /\ pc' = "subscriptions" /\ need' = need
        /\ Exists(SecretOf[out.name]) /\ out.auth \in AuthMethods
    BY <1>1 DEF GetSecret, SecretRead, At, HandleError, BecomeIdle
  <1>4. in' = [in EXCEPT !.outputs = in'.outputs] /\ in'.subs = in.subs /\ in'.bridges = in.bridges
    BY <1>1 DEF SecretRead, CollectorInv, InputInv
  <1>5. out.name \in Stored(AskedOutputs) /\ out = OutputInput(out.name, Now(out.name), NoData) /\ out.auth # None
    BY <1>1, <1>2, <1>3 DEF ReadNow, OutputsNow
  <1>6. SecretStored(out.name)
    <2>1. store[SecretOf[out.name]].exists
      BY <1>2, <1>3, CachedNow, AskedKinds
    <2>2. out.auth = Now(out.name).auth
      BY <1>5 DEF OutputInput
    <2> QED BY <1>3, <1>5, <2>1, <2>2 DEF SecretStored
  <1>7. new = StoredOutput(out.name) /\ new.name = out.name
    <2>1. cache[SecretOf[out.name]] = store[SecretOf[out.name]]
      BY <1>2, AskedKinds DEF Quiet
    <2>2. new = OutputInput(out.name, Now(out.name), store[SecretOf[out.name]].data)
      BY <1>1, <1>5, <2>1 DEF WithSecret, OutputInput
    <2> QED BY <1>6, <2>2 DEF StoredOutput, OutputInput
  <1>8. \A u \in Stored(AskedOutputs) :
            Now(u)' = Now(u) /\ SecretStored(u)' = SecretStored(u) /\ StoredOutput(u)' = StoredOutput(u)
    BY StoredSame, AskedKinds DEF Stored
  <1>9. ASSUME NEW i \in DOMAIN in'.outputs
        PROVE  LET u == in'.outputs[i]
               IN  u.name \in Stored(AskedOutputs) /\ OutputNow(u)
    <2>1. CASE i = last
      BY <1>2, <1>5, <1>6, <1>7, <2>1 DEF OutputNow
    <2>2. CASE i # last
      <3>1. in'.outputs[i] = in.outputs[i] /\ i \in DOMAIN in.outputs /\ i # Len(in.outputs)
        BY <1>1, <1>2, <2>2
      <3>2. in.outputs[i].name \in Stored(AskedOutputs) /\ OutputNow(in.outputs[i])
        BY <3>1 DEF ReadNow, OutputsNow
      <3> QED BY <3>1, <3>2
    <2> QED BY <2>1, <2>2
  <1>10. OutputsNow'
    BY <1>3, <1>8, <1>9, StoredSame DEF OutputsNow, OutputNow
  <1>11. AskedNow'
    BY <1>3, StoredSame DEF ReadNow, AskedNow
  <1> QED BY <1>3, <1>4, <1>10, <1>11, KeptNow, Extends, VisitedAll DEF ReadNow

-----------------------------------------------------------------------------
(* Then it is all that is stored *)

\* Every subscription that is asked for has been read.
LEMMA AllSubscriptions ==
    ASSUME CollectorInv, ReadNow, pc = "subscriptions"
    PROVE  in.subs = StoredSubscriptions /\ AskedSubscriptions = Stored(AskedSubscriptions)
  <1>1. DOMAIN in.subs = UNION {SubscriptionsOf(in, t) : t \in DOMAIN in.tenants}
    BY DEF CollectorInv, ReadInv
  <1>2. DOMAIN in.tenants = StoredTenants /\ \A t \in StoredTenants : in.tenants[t].subs = Now(t).subs
    BY DEF ReadNow, ListedNow, InputOf, OtelColConfigInput, TenantInput
  <1>3. DOMAIN in.subs = AskedSubscriptions
    BY <1>1, <1>2 DEF AskedSubscriptions, SubscriptionsOf
  <1>4. AskedSubscriptions = Stored(AskedSubscriptions)
    BY <1>3 DEF ReadNow, SubscriptionsNow, Stored
  <1> QED BY <1>3, <1>4 DEF ReadNow, SubscriptionsNow, StoredSubscriptions

LEMMA AllBridges ==
    ASSUME CollectorInv, ReadNow, pc = "subscriptions"
    PROVE  /\ {in.bridges[i] : i \in DOMAIN in.bridges} = StoredBridges
           /\ \A b \in AskedBridges : store[b].exists
  <1>1. \A i \in DOMAIN in.bridges : \E b \in Stored(AskedBridges) : in.bridges[i] = BridgeInput(b, Now(b)) /\ in.bridges[i].name = b
    BY DEF ReadNow, BridgesNow, StoredBridges, BridgeInput
  <1>2. ASSUME NEW b \in AskedBridges
        PROVE  \E i \in DOMAIN in.bridges : in.bridges[i].name = b
    BY DEF AskedBridges, ReadNow, VisitedNow, Visited
  <1>3. ASSUME NEW b \in AskedBridges
        PROVE  b \in Stored(AskedBridges) /\ \E i \in DOMAIN in.bridges : in.bridges[i] = BridgeInput(b, Now(b))
    BY <1>1, <1>2
  <1>4. \A b \in AskedBridges : store[b].exists
    BY <1>3 DEF Stored
  <1>5. StoredBridges \subseteq {in.bridges[i] : i \in DOMAIN in.bridges}
    BY <1>3 DEF StoredBridges, Stored
  <1> QED BY <1>4, <1>5 DEF ReadNow, BridgesNow

LEMMA AllOutputs ==
    ASSUME CollectorInv, ReadNow, pc = "subscriptions", todo = {}, need = {}
    PROVE  /\ Outs(in) = StoredOutputs
           /\ \A o \in AskedOutputs : store[o].exists /\ (Now(o).auth # None => SecretStored(o))
  <1>1. \A o \in Outs(in) : o.name \in Stored(AskedOutputs) /\ OutputNow(o)
    BY DEF ReadNow, OutputsNow, Outs
  <1>2. ASSUME NEW o \in AskedOutputs PROVE \E c \in Outs(in) : c.name = o
    <2>1. PICK s \in Stored(AskedSubscriptions) : o \in Now(s).outputs
      BY DEF AskedOutputs
    <2>2. s \in DOMAIN in.subs /\ in.subs[s].outputs = Now(s).outputs
      BY <2>1, AllSubscriptions DEF StoredSubscriptions, SubscriptionInput
    <2>3. Followed(s)
      BY <2>2 DEF CollectorInv, ReadInv
    <2> QED BY <2>1, <2>2, <2>3 DEF Followed
  <1>3. ASSUME NEW o \in AskedOutputs PROVE StoredOutput(o) \in Outs(in) /\ store[o].exists /\ (Now(o).auth # None => SecretStored(o))
    <2>1. PICK c \in Outs(in) : c.name = o
      BY <1>2
    <2>2. c = StoredOutput(o) /\ (c.auth # None => SecretStored(o)) /\ o \in Stored(AskedOutputs)
      BY <1>1, <2>1 DEF OutputNow
    <2>3. StoredOutput(o).auth = Now(o).auth
      BY DEF StoredOutput, OutputInput
    <2> QED BY <2>1, <2>2, <2>3 DEF Stored
  <1>4. Outs(in) \subseteq StoredOutputs
    BY <1>1 DEF OutputNow, StoredOutputs
  <1>5. StoredOutputs \subseteq Outs(in)
    BY <1>3 DEF StoredOutputs, Stored
  <1> QED BY <1>3, <1>4, <1>5

\* Once it is, it stays so.
LEMMA InputStays == ASSUME CollectorInv, Quiet, InputNow, in' = in PROVE InputNow'
  <1>1. \A t \in StoredTenants : Now(t)' = Now(t)
    BY StoredSame, AskedKinds
  <1>2. InputOf(StoredSubscriptions)' = InputOf(StoredSubscriptions)
    BY <1>1, StoredSame DEF InputOf
  <1>3. Outs(in)' = Outs(in)
    BY DEF Outs
  <1>4. ValidateConfigInput(in)' = ValidateConfigInput(in)
    OBVIOUS
  <1> QED BY <1>2, <1>3, <1>4, StoredSame DEF InputNow

LEMMA AllRead ==
    ASSUME CollectorInv, ReadNow, pc = "subscriptions", todo = {}, need = {}, ValidateConfigInput(in)
    PROVE  InputNow
  <1>1. \A t \in StoredTenants : Now(t).state # "failed"
    BY DEF ReadNow, VisitedNow, Visited
  <1>2. \A x \in AskedSubscriptions : store[x].exists
    BY AllSubscriptions DEF Stored
  <1>3. \A o \in Stored(AskedOutputs) : o \in AskedOutputs
    BY DEF Stored
  <1>4. Readable
    BY <1>1, <1>2, <1>3, AllBridges, AllOutputs DEF Readable
  <1>5. in = InputOf(StoredSubscriptions)
    BY AllSubscriptions DEF ReadNow, ListedNow
  <1> QED BY <1>4, <1>5, AllBridges, AllOutputs DEF InputNow

-----------------------------------------------------------------------------
(* What is written does not depend on how often and in which order outputs    *)
(* and bridges were read                                                      *)

\* Under a key is the field of the output it is the key of.
LEMMA KeyedAlone ==
    ASSUME LabelsDistinct, NEW a, OneCopy(a), OutputsTyped(a), NEW o \in Outs(a), HasAuthentication(o), NEW f \in Given(o)
    PROVE  AuthSecret(a)[SecretKey(o, f)] = o.cred[f]
  <1>1. PICK i \in DOMAIN a.outputs : a.outputs[i] = o
    BY DEF Outs
  <1>2. i \in Authenticated(a) /\ f \in Given(a.outputs[i])
    BY <1>1 DEF Authenticated
  <1>3. PICK j \in Authenticated(a) :
          /\ a.outputs[j].name = a.outputs[i].name
          /\ AuthSecret(a)[SecretKey(a.outputs[i], f)] = a.outputs[j].cred[f]
    BY <1>2, KeyedByOutput
  <1>4. a.outputs[j] \in Outs(a)
    BY DEF Authenticated, Outs
  <1>5. a.outputs[j] = o
    BY <1>1, <1>3, <1>4 DEF OneCopy
  <1> QED BY <1>1, <1>3, <1>5

LEMMA KeysOf ==
    ASSUME NEW a
    PROVE  /\ AuthSecret(a) = [k \in DOMAIN AuthSecret(a) |-> AuthSecret(a)[k]]
           /\ \A k : k \in DOMAIN AuthSecret(a) <=>
                        \E o \in Outs(a) : HasAuthentication(o) /\ \E f \in Given(o) : k = SecretKey(o, f)
  <1> DEFINE data == UNION {{<<i, f>> : f \in Given(a.outputs[i])} : i \in Authenticated(a)}
             Key(p) == SecretKey(a.outputs[p[1]], p[2])
             Last(k, p) == Key(p) = k /\ \A q \in data : q[1] > p[1] => Key(q) # k
             Value(k) == LET p == CHOOSE p \in data : Last(k, p) IN a.outputs[p[1]].cred[p[2]]
             keys == {Key(p) : p \in data}
  <1>1. AuthSecret(a) = [k \in keys |-> Value(k)]
    BY Zenon DEF AuthSecret
  <1>2. \A p : p \in data <=> \E i \in Authenticated(a) : \E f \in Given(a.outputs[i]) : p = <<i, f>>
    OBVIOUS
  <1>3. \A i, f : Key(<<i, f>>) = SecretKey(a.outputs[i], f)
    OBVIOUS
  <1> HIDE DEF data, Key, Value
  <1>4. \A k : k \in keys <=> \E i \in Authenticated(a) : \E f \in Given(a.outputs[i]) : k = SecretKey(a.outputs[i], f)
    <2>1. \A k : k \in keys => \E i \in Authenticated(a) : \E f \in Given(a.outputs[i]) : k = SecretKey(a.outputs[i], f)
      BY <1>2, <1>3
    <2>2. ASSUME NEW i \in Authenticated(a), NEW f \in Given(a.outputs[i]) PROVE SecretKey(a.outputs[i], f) \in keys
      <3>1. <<i, f>> \in data
        BY <1>2
      <3> QED BY <1>3, <3>1
    <2> QED BY <2>1, <2>2
  <1>5. \A k : k \in keys <=> \E o \in Outs(a) : HasAuthentication(o) /\ \E f \in Given(o) : k = SecretKey(o, f)
    BY <1>4 DEF Authenticated, Outs
  <1> HIDE DEF keys
  <1>6. DOMAIN AuthSecret(a) = keys /\ AuthSecret(a) = [k \in DOMAIN AuthSecret(a) |-> AuthSecret(a)[k]]
    BY <1>1
  <1> QED BY <1>5, <1>6

LEMMA AlikeSecret ==
    ASSUME LabelsDistinct, NEW a, NEW b, Alike(a, b), OneCopy(a), OneCopy(b), OutputsTyped(a), OutputsTyped(b)
    PROVE  AuthSecret(a) = AuthSecret(b)
  <1>1. Outs(a) = Outs(b)
    BY DEF Alike
  <1>2. PICK f, g : f = AuthSecret(a) /\ g = AuthSecret(b)
    OBVIOUS
  <1>3. DOMAIN f = DOMAIN g
    BY <1>1, <1>2, KeysOf
  <1>4. ASSUME NEW k \in DOMAIN f PROVE f[k] = g[k]
    <2>1. PICK o, x : o \in Outs(a) /\ HasAuthentication(o) /\ x \in Given(o) /\ k = SecretKey(o, x)
      BY <1>2, KeysOf
    <2>2. f[k] = o.cred[x]
      BY <1>2, <2>1, KeyedAlone
    <2>3. g[k] = o.cred[x]
      BY <1>1, <1>2, <2>1, KeyedAlone
    <2> QED BY <2>2, <2>3
  <1>5. f = [k \in DOMAIN f |-> f[k]] /\ g = [k \in DOMAIN g |-> g[k]]
    BY <1>2, KeysOf
  <1> QED BY <1>2, <1>3, <1>4, <1>5

LEMMA AlikeEnv == ASSUME NEW a, NEW b, Alike(a, b) PROVE Env(a) = Env(b)
  <1> DEFINE Refs(in0) == UNION {SecretKeys(o) : o \in {o \in Outs(in0) : HasAuthentication(o)}}
  <1>1. ASSUME NEW c PROVE Env(c) = When(~c.dryRun, {NodeName}) \cup Refs(c)
    <2>1. UNION {SecretKeys(c.outputs[i]) : i \in Authenticated(c)} = Refs(c)
      BY DEF Authenticated, Outs
    <2> QED BY <2>1 DEF Env
  <1>2. Refs(a) = Refs(b) /\ a.dryRun = b.dryRun
    BY DEF Alike
  <1> HIDE DEF Refs
  <1> QED BY <1>1, <1>2

\* Of volumes whose names tell them apart the order does not matter.
LEMMA AddedOf ==
    ASSUME NEW pod, NEW asked, Asked(asked), NEW all, all = Elements(asked),
           \A v, w \in all : v.name = w.name => v = w
    PROVE  Template!NewVolumes(pod, asked) = {v \in all : ~Template!VolumeExists(pod, v.name)}
  <1>1. PICK new : new = Template!NewVolumes(pod, asked)
    OBVIOUS
  <1>2. \A v \in new : v \in all /\ ~Template!VolumeExists(pod, v.name)
    BY <1>1, VolumesAdded DEF Elements
  <1>3. ASSUME NEW v \in all, ~Template!VolumeExists(pod, v.name) PROVE v \in new
    <2>1. PICK i \in DOMAIN asked : v \in asked[i]
      BY DEF Elements
    <2>2. \A j \in DOMAIN asked : \A w \in asked[j] : w.name = v.name => w = v
      BY DEF Elements
    <2> QED BY <1>1, <1>3, <2>1, <2>2, AskedAdded
  <1> QED BY <1>1, <1>2, <1>3

\* The directories of the outputs.
LEMMA DirectoriesOf ==
    ASSUME NEW a, OneCopy(a)
    PROVE  /\ Asked(Directories(a))
           /\ Elements(Directories(a)) = {Template!FileExporterVolume(o.path) : o \in {o \in Outs(a) : o.kind = "file"}}
  <1>1. PICK n \in Nat : DOMAIN a.outputs = 1 .. n
    BY LenProperties DEF OneCopy
  <1>2. PICK files : files = Directories(a)
    OBVIOUS
  <1>3. /\ DOMAIN files = DOMAIN a.outputs
        /\ \A i \in DOMAIN a.outputs :
             files[i] = IF a.outputs[i].kind = "file" THEN {Template!FileExporterVolume(a.outputs[i].path)} ELSE {}
    BY <1>2 DEF When, Directories
  <1>4. Asked(files)
    BY <1>1, <1>3 DEF Asked
  <1>5. \A v : v \in Elements(files) <=> \E i \in DOMAIN a.outputs : v \in files[i]
    BY <1>3 DEF Elements
  <1>6. \A v : v \in Elements(files) <=> \E i \in DOMAIN a.outputs :
                  a.outputs[i].kind = "file" /\ v = Template!FileExporterVolume(a.outputs[i].path)
    BY <1>3, <1>5
  <1>7. \A v : v \in Elements(files) <=> \E o \in Outs(a) : o.kind = "file" /\ v = Template!FileExporterVolume(o.path)
    BY <1>6 DEF Outs
  <1> QED BY <1>2, <1>4, <1>7

LEMMA AlikePod ==
    ASSUME NEW a, NEW b, Alike(a, b), a.given = b.given, OneCopy(a), OneCopy(b), NEW order,
           \A v, w \in Elements(Directories(a)) : v.name = w.name => v = w
    PROVE  Volumes(a, order) = Volumes(b, order)
  <1>1. PICK f, g, all : f = Directories(a) /\ g = Directories(b) /\ all = Elements(f)
    OBVIOUS
  <1>2. Asked(f) /\ Asked(g) /\ Elements(g) = all
    BY <1>1, DirectoriesOf DEF Alike
  <1>3. \A pod : Template!NewVolumes(pod, f) = Template!NewVolumes(pod, g)
    BY <1>1, <1>2, AddedOf
  <1>4. \A pod : Template!AddVolumes(pod, f) = Template!AddVolumes(pod, g)
    BY <1>3 DEF Template!AddVolumes
  <1>5. Buffers(a, order) = Buffers(b, order)
    BY DEF Buffers, Alike
  <1>6. a.dryRun = b.dryRun
    BY DEF Alike
  <1> QED BY <1>1, <1>4, <1>5, <1>6 DEF Volumes, Template!Pod, Template!HandleVolumes

LEMMA SequenceOfSet ==
    ASSUME NEW S, IsFiniteSet(S), NEW seq, seq = Ext!SetToSeq(S)
    PROVE  seq \in Seq(S) /\ {seq[i] : i \in DOMAIN seq} = S
  <1>1. PICK n : n = Cardinality(S)
    OBVIOUS
  <1>2. n \in Nat /\ ExistsBijection(1 .. n, S)
    BY <1>1, FS_CardinalityType
  <1>3. PICK f : f \in Bijection(1 .. n, S)
    BY <1>2 DEF ExistsBijection
  <1>4. f \in [1 .. n -> S] /\ Ext!IsInjective(f)
    BY <1>3 DEF Bijection, Injection, IsInjective, Ext!IsInjective
  <1>5. Ext!Cardinality(S) = n
    BY <1>1 DEF Ext!Cardinality, Cardinality
  <1>6. seq \in [1 .. n -> S] /\ Ext!IsInjective(seq)
    <2>1. seq = CHOOSE g \in [1 .. n -> S] : Ext!IsInjective(g)
      BY <1>5 DEF Ext!SetToSeq
    <2> QED BY <1>4, <2>1
  <1>7. seq \in Injection(1 .. n, S)
    BY <1>6 DEF Injection, IsInjective, Ext!IsInjective
  <1>8. IsFiniteSet(1 .. n) /\ Cardinality(1 .. n) = n
    BY <1>2, FS_Interval
  <1>9. seq \in Surjection(1 .. n, S)
    BY <1>1, <1>7, <1>8, FS_Injection
  <1> QED BY <1>2, <1>6, <1>9 DEF Surjection

LEMMA StoredFinite == ASSUME CollectorInv PROVE IsFiniteSet(StoredBridges) /\ IsFiniteSet(StoredOutputs)
  <1>1. IsFiniteSet(Stored(AskedBridges)) /\ IsFiniteSet(Stored(AskedOutputs))
    BY AskedKinds, KindsAssumption, FS_Subset DEF Stored
  <1>2. PICK B, O, f, g :
          /\ B = Stored(AskedBridges) /\ f = [b \in B |-> BridgeInput(b, Now(b))]
          /\ O = Stored(AskedOutputs) /\ g = [o \in O |-> StoredOutput(o)]
    OBVIOUS
  <1>3. IsFiniteSet({f[b] : b \in B}) /\ IsFiniteSet({g[o] : o \in O})
    BY <1>1, <1>2, ImageFinite
  <1> QED BY <1>2, <1>3 DEF StoredBridges, StoredOutputs

\* One output or bridge of a name is stored.
LEMMA StoredOnce ==
    ASSUME CollectorInv
    PROVE  /\ \A b, c \in StoredBridges : b.name = c.name => b = c
           /\ \A o, u \in StoredOutputs : o.name = u.name => o = u
           /\ \A o \in StoredOutputs : o.name \in Outputs
  <1>1. \A b \in StoredBridges : b = BridgeInput(b.name, Now(b.name))
    BY DEF StoredBridges, BridgeInput
  <1>2. \A o \in StoredOutputs : o = StoredOutput(o.name) /\ o.name \in Outputs
    BY AskedKinds DEF StoredOutputs, StoredOutput, OutputInput, Stored
  <1> QED BY <1>1, <1>2

LEMMA StoredInputIs ==
    ASSUME CollectorInv, NEW input, input = StoredInput
    PROVE  /\ Outs(input) = StoredOutputs /\ Brs(input) = StoredBridges
           /\ OneCopy(input) /\ OutputsTyped(input)
  <1>1. PICK bs, os : bs = Ext!SetToSeq(StoredBridges) /\ os = Ext!SetToSeq(StoredOutputs)
    OBVIOUS
  <1>2. input.bridges = bs /\ input.outputs = os
    BY <1>1 DEF StoredInput, OtelColConfigInput
  <1>3. /\ bs \in Seq(StoredBridges) /\ {bs[i] : i \in DOMAIN bs} = StoredBridges
        /\ os \in Seq(StoredOutputs) /\ {os[i] : i \in DOMAIN os} = StoredOutputs
    BY <1>1, StoredFinite, SequenceOfSet
  <1>4. Outs(input) = StoredOutputs /\ Brs(input) = StoredBridges
    BY <1>2, <1>3 DEF Outs, Brs
  <1> QED BY <1>2, <1>3, <1>4, StoredOnce DEF OneCopy, OutputsTyped

\* The input is like one made of what is stored.
LEMMA InputAlike ==
    ASSUME CollectorInv, InputNow, NEW a, a = in, NEW b, b = StoredInput
    PROVE  /\ Alike(a, b) /\ a.given = b.given
           /\ OneCopy(a) /\ OneCopy(b) /\ OutputsTyped(a) /\ OutputsTyped(b)
  <1>1. Outs(b) = StoredOutputs /\ Brs(b) = StoredBridges /\ OneCopy(b) /\ OutputsTyped(b)
    BY StoredInputIs
  <1>2. Outs(a) = StoredOutputs /\ Brs(a) = StoredBridges
    BY DEF InputNow, Brs
  <1>3. a.outputs \in Seq(Outs(a)) /\ a.bridges \in Seq(Brs(a))
    BY DEF CollectorInv, InputInv, Brs
  <1>4. OneCopy(a) /\ OutputsTyped(a)
    BY <1>2, <1>3, StoredOnce DEF OneCopy, OutputsTyped
  <1>5. a = InputOf(StoredSubscriptions)
    BY DEF InputNow
  <1>6. /\ a.tenants = b.tenants /\ a.subs = b.subs /\ a.debug = b.debug /\ a.dryRun = b.dryRun
        /\ a.events = b.events /\ a.axoflow = b.axoflow /\ a.given = b.given
    BY <1>5 DEF InputOf, StoredInput, OtelColConfigInput
  <1> QED BY <1>1, <1>2, <1>4, <1>6 DEF Alike

\* So what is made of it is what is to be deployed.
LEMMA MadeOfStored ==
    ASSUME LabelsDistinct, DirectoriesApart, CollectorInv, OriginInv, InputNow,
           NEW cfg, NEW layout
    PROVE  /\ AssembleConfig(in) = AssembleConfig(StoredInput)
           /\ ValidateConfigInput(in) = ValidateConfigInput(StoredInput)
           /\ AuthSecret(in) = AuthSecret(StoredInput)
           /\ Layouts(in, cfg) = Layouts(StoredInput, cfg)
           /\ OtelCollector(in, cfg, layout) = OtelCollector(StoredInput, cfg, layout)
  <1>1. PICK a, b : a = in /\ b = StoredInput
    OBVIOUS
  <1>2. /\ Alike(a, b) /\ a.given = b.given
        /\ OneCopy(a) /\ OneCopy(b) /\ OutputsTyped(a) /\ OutputsTyped(b)
    BY <1>1, InputAlike
  <1>3. AssembleConfig(a) = AssembleConfig(b) /\ ValidateConfigInput(a) = ValidateConfigInput(b)
    BY <1>2, AlikeAssembled
  <1>4. AuthSecret(a) = AuthSecret(b)
    BY <1>2, AlikeSecret
  <1>5. QueueStorages(a) = QueueStorages(b) /\ \A order : AdditionalArgs(a, order) = AdditionalArgs(b, order)
    BY <1>2, AlikeQueues
  <1>6. Env(a) = Env(b)
    BY <1>2, AlikeEnv
  <1>7. \A v, w \in Elements(Directories(a)) : v.name = w.name => v = w
    BY <1>1, FilesAsked DEF Apart
  <1>8. \A order : Volumes(a, order) = Volumes(b, order)
    BY <1>2, <1>7, AlikePod
  <1>9. a.tenants = b.tenants
    BY <1>2 DEF Alike
  <1>10. Layouts(a, cfg) = Layouts(b, cfg)
    BY <1>5, <1>9 DEF Layouts
  <1>11. OtelCollector(a, cfg, layout) = OtelCollector(b, cfg, layout)
    BY <1>5, <1>6, <1>8 DEF OtelCollector
  <1> QED BY <1>1, <1>3, <1>4, <1>10, <1>11


-----------------------------------------------------------------------------
(* The roles, which are not watched *)

\* A step writes a role, or takes nothing of it away.
RbacKept(x) == store'[x].exists = TRUE \/ (store'[x] = store[x] /\ Versions(x)' \subseteq Versions(x))

LEMMA RbacPut ==
    ASSUME ApiInv, NEW x \in Objects, NEW y \in Objects, NEW v, Put(y, v), y = x => v.exists = TRUE
    PROVE  RbacKept(x)
  BY PutStreams DEF ApiInv, RbacKept

LEMMA RbacStutter == ASSUME ApiInv, NEW x \in Objects, UNCHANGED apiVars PROVE RbacKept(x)
  BY StutterStreams DEF ApiInv, RbacKept, apiVars

LEMMA RbacReconciled ==
    ASSUME ApiInv, NEW x \in Objects, NEW child \in Children, NEW content, NEW outcome,
           ReconcileResource(child, content, outcome)
    PROVE  RbacKept(x)
  <1>1. child \in Objects /\ Desired(child, content).exists = TRUE
    BY Kinds DEF Desired, Child
  <1>2. UNCHANGED apiVars \/ Put(child, Desired(child, content))
    BY DEF ReconcileResource
  <1> QED BY <1>1, <1>2, RbacPut, RbacStutter

LEMMA RbacWritten ==
    ASSUME RbacLeftAlone, CollectorInv, [Next]_vars, NEW i \in DOMAIN Rbac
    PROVE  RbacKept(Rbac[i])
  <1>1. PICK x \in {"role", "sa", "binding"} : x = Rbac[i]
    BY DEF Rbac
  <1>2. x \in Objects /\ x # Collector /\ x # "otel" /\ x \notin DOMAIN EditValues /\ ApiInv
    BY <1>1, TheChildren DEF RbacLeftAlone, CollectorInv
  <1> SUFFICES RbacKept(x)
    BY <1>1
  <1>3. ASSUME NEW y \in Objects \ {x}, NEW v, Put(y, v) PROVE RbacKept(x)
    BY <1>2, <1>3, RbacPut
  <1>4. CASE UNCHANGED apiVars
    BY <1>2, <1>4, RbacStutter
  <1>5. ASSUME NEW child \in Children, NEW content, NEW outcome, ReconcileResource(child, content, outcome)
        PROVE  RbacKept(x)
    BY <1>2, <1>5, RbacReconciled
  <1>6. CASE WorkerStep
    <2>1. ASSUME NEW outcome, NEW j \in DOMAIN Rbac, ReconcileRBAC(Rbac[j], outcome) PROVE RbacKept(x)
      <3>1. Rbac[j] \in Children
        BY DEF Rbac, Children
      <3> QED BY <1>5, <2>1, <3>1 DEF ReconcileRBAC
    <2>2. ASSUME NEW outcome, ReconcileAuthSecret(outcome) \/ ReconcileOtelCollector(outcome) PROVE RbacKept(x)
      BY <1>5, <2>2, TheChildren DEF ReconcileAuthSecret, ReconcileOtelCollector
    <2>3. CASE Publish
      BY <1>2, <1>3, <1>4, <2>3, TheChildren DEF Publish
    <2> QED BY <1>4, <1>6, <2>1, <2>2, <2>3
            DEF WorkerStep, ListTenants, TenantsRead, GetSecret, Assemble, CheckConfig, VisitTenant, GetSubscription,
                VisitSubscription, GetBridge, GetOutput
  <1>7. CASE Environment
    <2>1. ASSUME NEW y \in DOMAIN EditValues \cup {Collector, "otel"}, NEW v, Edit(y, v) PROVE RbacKept(x)
      BY <1>2, <1>3, <2>1, Edited, TheChildren DEF Edit
    <2> QED BY <1>4, <1>7, <2>1 DEF Environment, EditCollector, AddFinalizer, NamespaceEvent
  <1>8. ASSUME NEW y \in Objects, DeliverEvent(y) PROVE RbacKept(x)
    BY <1>2, <1>8, DeliverStreams DEF DeliverEvent, Deliver, ApiInv, RbacKept
  <1>9. CASE Restart
    BY <1>2, <1>9, SyncStreams, StoredVersion DEF Restart, InitialSync, ApiInv, RbacKept
  <1>10. CASE StartReconcile \/ StartError \/ ReadError \/ UNCHANGED vars
    BY <1>4, <1>10 DEF StartReconcile, StartError, ReadError, vars
  <1> QED BY <1>6, <1>7, <1>8, <1>9, <1>10 DEF Next

\* A part that has been reconciled without an error is there.
LEMMA RbacReached ==
    ASSUME CollectorInv, NEW child \in Children, NEW content, ReconcileResource(child, content, "ok"),
           \A v \in Versions(child) : v.exists => store[child].exists
    PROVE  store'[child].exists
  <1>1. child \in Objects /\ Desired(child, content).exists = TRUE
    BY Kinds DEF Desired, Child
  <1>2. CASE UNCHANGED apiVars /\ Exists(child)
    BY <1>2 DEF Exists, Versions, apiVars
  <1>3. CASE Put(child, Desired(child, content))
    BY <1>1, <1>3, PutStreams DEF CollectorInv, ApiInv
  <1> QED BY <1>2, <1>3 DEF ReconcileResource

\* Where a step of the worker that is at a child comes from.
LEMMA ChildrenStep ==
    ASSUME CollectorInv, [Next]_vars, pc \in Children
    PROVE  \/ WorkerLeftAlone \/ pc' \in {"idle", "publish"}
           \/ \E outcome \in Outcomes :
                \/ \E i \in DOMAIN Rbac : ReconcileRBAC(Rbac[i], outcome)
                \/ ReconcileAuthSecret(outcome)
  <1>1. pc \notin {"idle", "list", "tenants", "subscriptions", "secret", "assembled", "publish"}
    BY DEF Children
  <1>2. ASSUME NEW kind, HandleError(kind) PROVE pc' \in {"idle", "publish"}
    BY <1>2 DEF HandleError, BecomeIdle
  <1>3. CASE WorkerStep
    <2>1. ASSUME NEW outcome \in Outcomes, ReconcileOtelCollector(outcome) PROVE pc' \in {"idle", "publish"}
      BY <1>2, <2>1 DEF ReconcileOtelCollector
    <2> QED BY <1>1, <1>3, <2>1
            DEF WorkerStep, ListTenants, TenantsRead, GetSecret, Assemble, CheckConfig, VisitTenant, GetSubscription,
                VisitSubscription, GetBridge, GetOutput, Publish, At
  <1>4. CASE StartReconcile \/ StartError \/ ReadError \/ Restart \/ \E x \in Objects : DeliverEvent(x)
    BY <1>1, <1>4 DEF StartReconcile, StartError, ReadError, Restart, DeliverEvent, BecomeIdle, WorkerLeftAlone, workerVars, At
  <1>5. CASE Environment
    BY <1>5 DEF Environment, EditCollector, AddFinalizer, Edit, NamespaceEvent, WorkerLeftAlone, workerVars
  <1>6. CASE UNCHANGED vars
    BY <1>6 DEF vars, workerVars, WorkerLeftAlone
  <1> QED BY <1>3, <1>4, <1>5, <1>6 DEF Next

LEMMA RbacStep == ASSUME RbacLeftAlone, CollectorInv, RbacInv, [Next]_vars PROVE RbacInv'
  <1>1. DOMAIN Rbac = {1, 2, 3} /\ Rbac[1] = "role" /\ Rbac[2] = "sa" /\ Rbac[3] = "binding"
    BY DEF Rbac
  <1>2. \A i \in DOMAIN Rbac : RbacKept(Rbac[i])
    BY RbacWritten
  <1>3. \A i \in DOMAIN Rbac : store[Rbac[i]].exists => store'[Rbac[i]].exists
    BY <1>2 DEF RbacKept
  <1>4. \A i \in DOMAIN Rbac : \A v \in Versions(Rbac[i])' : v.exists => store'[Rbac[i]].exists
    BY <1>2, <1>3 DEF RbacKept, RbacInv
  <1> DEFINE After == /\ pc' = "sa" => store'["role"].exists \/ errs' # {}
                      /\ pc' = "binding" => (store'["role"].exists /\ store'["sa"].exists) \/ errs' # {}
                      /\ pc' \in {"auth", "otel"} => \A i \in DOMAIN Rbac : store'[Rbac[i]].exists
  <1>5. ASSUME pc' = pc, errs' = errs PROVE After
    BY <1>1, <1>3, <1>5 DEF RbacInv, RbacThere
  <1>6. ASSUME pc' \notin {"sa", "binding", "auth", "otel"} PROVE After
    BY <1>6
  <1>7. ASSUME NEW kind, HandleError(kind) PROVE After
    BY <1>7 DEF HandleError, BecomeIdle
  <1>8. ASSUME NEW outcome \in Outcomes, NEW i \in DOMAIN Rbac, ReconcileRBAC(Rbac[i], outcome) PROVE After
    <2>1. Rbac[i] \in Children /\ pc = Rbac[i] /\ ReconcileResource(Rbac[i], "fixed", outcome)
      BY <1>8 DEF Rbac, Children, ReconcileRBAC, At
    <2>2. outcome = "ok" => store'[Rbac[i]].exists
      BY <2>1, RbacReached DEF RbacInv
    <2>3. CASE errs' = errs \cup ({outcome} \ {"ok"}) /\ pc' = AfterRbac(Rbac[i]) /\ (Rbac[i] = "binding" => errs' = {})
      <3>1. errs' = {} => errs = {} /\ store'[Rbac[i]].exists
        BY <2>2, <2>3
      <3>2. CASE i = 1
        BY <1>1, <2>3, <3>1, <3>2 DEF AfterRbac
      <3>3. CASE i = 2
        BY <1>1, <1>3, <2>1, <2>3, <3>1, <3>3 DEF AfterRbac, RbacInv
      <3>4. CASE i = 3
        BY <1>1, <1>3, <2>1, <2>3, <3>1, <3>4 DEF AfterRbac, RbacInv
      <3> QED BY <1>1, <3>2, <3>3, <3>4
    <2>4. CASE \E kind : HandleError(kind)
      BY <1>7, <2>4
    <2> QED BY <1>8, <2>3, <2>4 DEF ReconcileRBAC
  <1>9. ASSUME NEW outcome \in Outcomes, ReconcileAuthSecret(outcome) PROVE After
    <2>1. CASE HandleError(outcome)
      BY <1>7, <2>1
    <2>2. CASE pc = "auth" /\ pc' = "otel"
      BY <1>3, <2>2 DEF RbacInv, RbacThere
    <2> QED BY <1>9, <2>1, <2>2 DEF ReconcileAuthSecret, At
  <1>10. After
    <2> HIDE DEF After
    <2>1. CASE WorkerLeftAlone
      BY <1>5, <2>1 DEF WorkerLeftAlone
    <2>2. CASE pc' \in {"idle", "list", "tenants", "subscriptions", "secret", "publish", "assembled", "role"}
      BY <1>6, <2>2
    <2>3. CASE pc \in Children /\ pc' \in Children
      BY <1>5, <1>6, <1>8, <1>9, <2>1, <2>2, <2>3, ChildrenStep
    <2> QED BY <2>1, <2>2, <2>3, ConfigStep
  <1> QED BY <1>4, <1>10 DEF RbacInv, RbacThere

-----------------------------------------------------------------------------
(* What is deployed *)

\* What has been read, written and deployed stays so while nothing is noticed.
LEMMA ReadStays == ASSUME CollectorInv, Quiet, ReadNow, WorkerLeftAlone PROVE ReadNow'
  <1>1. in' = in /\ listed' = listed /\ pc' = pc /\ need' = need /\ todo' = todo
    BY DEF WorkerLeftAlone
  <1>2. ListedNow' /\ SubscriptionsNow' /\ BridgesNow' /\ OutputsNow'
    BY <1>1, KeptNow, Extends DEF ReadNow
  <1>3. AskedNow'
    BY <1>1, StoredSame DEF ReadNow, AskedNow
  <1>4. \A t \in StoredTenants : Now(t)' = Now(t)
    BY StoredSame, AskedKinds
  <1>5. VisitedNow'
    BY <1>1, <1>4, StoredSame DEF ReadNow, VisitedNow, Visited
  <1> QED BY <1>2, <1>3, <1>5 DEF ReadNow

LEMMA DeployedStays ==
    ASSUME RbacLeftAlone, CollectorInv, [Next]_vars, Quiet
    PROVE  /\ Deployable => Deployable'
           /\ ChildrenDeployed => ChildrenDeployed'
           /\ Deployed => Deployed'
  <1>1. \A i \in DOMAIN Rbac : store[Rbac[i]].exists => store'[Rbac[i]].exists
    BY RbacWritten DEF RbacKept
  <1>2. store'["auth"] = store["auth"] /\ store'["otel"] = store["otel"]
    BY TheWatched DEF Quiet
  <1>3. DOMAIN Rbac = {1, 2, 3} /\ Rbac[1] = "role" /\ Rbac[2] = "sa" /\ Rbac[3] = "binding"
    BY DEF Rbac
  <1>4. \A child \in Children : store[child].exists => store'[child].exists
    BY <1>1, <1>2, <1>3, TheChildren
  <1>5. PICK input : input = StoredInput /\ input = StoredInput'
    BY StoredSame
  <1>6. ASSUME ChildrenDeployed PROVE ChildrenDeployed'
    BY <1>2, <1>4, <1>5, <1>6 DEF ChildrenDeployed
  <1>7. ASSUME Deployed PROVE Deployed'
    BY <1>6, <1>7, StoredSame DEF Deployed
  <1> QED BY <1>6, <1>7, StoredSame

LEMMA SettledStays ==
    ASSUME RbacLeftAlone, CollectorInv, [Next]_vars, Quiet, Settling, WorkerLeftAlone
    PROVE  Settling'
  <1>1. pc' = pc /\ own' = own /\ in' = in /\ config' = config
    BY DEF WorkerLeftAlone
  <1>2. store'[Collector] = store[Collector] /\ store'["auth"] = store["auth"] /\ StoredTenants' = StoredTenants
    BY StoredSame, TheWatched DEF Quiet
  <1>3. OwnReady' = OwnReady
    BY <1>1, <1>2 DEF OwnReady
  <1>4. ReadNow => ReadNow'
    BY ReadStays
  <1>5. InputNow => InputNow'
    BY <1>1, InputStays
  <1>6. AuthSecret(in)' = AuthSecret(in) /\ ValidateAssembledConfig(config)' = ValidateAssembledConfig(config)
    BY <1>1
  <1> QED BY <1>1, <1>2, <1>3, <1>4, <1>5, <1>6, DeployedStays DEF Settling

\* An error is kept in the status or brings the worker back.
LEMMA SettledError == ASSUME CollectorInv, pc # "idle", NEW kind, HandleError(kind), ~Seen' PROVE Settling'
  <1>1. ~queued'
    BY DEF Seen
  <1>2. pc' = "publish" /\ own' = [own EXCEPT !.state = "failed", !.problems = @ \cup {kind}]
    BY <1>1 DEF HandleError
  <1>3. own'.state = "failed"
    BY <1>2 DEF CollectorInv, InputInv, CollectorFields
  <1> QED BY <1>2, <1>3 DEF Settling, Children

\* What the worker has written without being noticed was there.
LEMMA FoundThere ==
    ASSUME CollectorInv, Quiet, NEW child \in {"auth", "otel"}, NEW content, ReconcileResource(child, content, "ok")
    PROVE  store[child].exists /\ store[child].content = content
  <1>1. child \in Watched /\ child \in Objects
    BY TheWatched
  <1>2. store'[child] = store[child] /\ cache[child] = store[child]
    BY <1>1 DEF Quiet
  <1>3. CASE Exists(child) /\ cache[child].content = content
    BY <1>2, <1>3 DEF Exists
  <1>4. CASE Put(child, Desired(child, content))
    <2>1. store'[child] = Desired(child, content)
      BY <1>1, <1>4, PutStreams DEF CollectorInv, ApiInv
    <2> QED BY <1>2, <2>1 DEF Desired, Child
  <1> QED BY <1>3, <1>4 DEF ReconcileResource

LEMMA SettledAuth ==
    ASSUME CollectorInv, Quiet, ~Seen', Settling, NEW outcome, ReconcileAuthSecret(outcome)
    PROVE  Settling'
  <1>1. CASE HandleError(outcome)
    BY <1>1, SettledError DEF ReconcileAuthSecret, At
  <1>2. CASE outcome = "ok" /\ pc = "auth" /\ pc' = "otel" /\ own' = own /\ in' = in /\ config' = config
    <2>1. store["auth"].exists /\ store["auth"].content = AuthSecret(in)
      BY <1>2, FoundThere DEF ReconcileAuthSecret
    <2>2. store'["auth"] = store["auth"] /\ store'[Collector] = store[Collector]
      BY TheWatched DEF Quiet
    <2>3. InputNow /\ own = store[Collector] /\ ValidateAssembledConfig(config)
      BY <1>2, TheChildren DEF Settling
    <2>4. InputNow'
      BY <1>2, <2>3, InputStays
    <2>5. AuthSecret(in)' = AuthSecret(in) /\ ValidateAssembledConfig(config)' = ValidateAssembledConfig(config)
      BY <1>2
    <2> QED BY <1>2, <2>1, <2>2, <2>3, <2>4, <2>5 DEF Settling
  <1> QED BY <1>1, <1>2 DEF ReconcileAuthSecret, Fails, At

LEMMA SettledOtel ==
    ASSUME LabelsDistinct, DirectoriesApart, RbacLeftAlone, CollectorInv, OriginInv, RbacInv, [Next]_vars, Quiet, ~Seen',
           Settling, NEW outcome, ReconcileOtelCollector(outcome)
    PROVE  Settling'
  <1>1. CASE HandleError(outcome)
    BY <1>1, SettledError DEF ReconcileOtelCollector, At
  <1>2. CASE /\ outcome = "ok" /\ pc = "otel" /\ pc' = "publish"
             /\ own' = [own EXCEPT !.tenants = DOMAIN in.tenants, !.state = "ready", !.problems = {}]
    <2>1. PICK layout \in Layouts(in, config) : ReconcileResource("otel", OtelCollector(in, config, layout), "ok")
      BY <1>2 DEF ReconcileOtelCollector
    <2>2. store["otel"].exists /\ store["otel"].content = OtelCollector(in, config, layout)
      BY <2>1, FoundThere
    <2>3. /\ InputNow /\ own = store[Collector] /\ ValidateAssembledConfig(config) /\ config = AssembleConfig(in)
          /\ store["auth"].exists /\ store["auth"].content = AuthSecret(in)
      BY <1>2, TheChildren DEF Settling, OriginInv
    <2>4. PICK input, cfg : input = StoredInput /\ cfg = config
      OBVIOUS
    <2>5. /\ cfg = AssembleConfig(input) /\ ValidateConfigInput(in) = ValidateConfigInput(input)
          /\ AuthSecret(in) = AuthSecret(input)
          /\ Layouts(in, cfg) = Layouts(input, cfg)
          /\ OtelCollector(in, cfg, layout) = OtelCollector(input, cfg, layout)
      BY <2>3, <2>4, MadeOfStored
    <2>6. \A child \in Children : store[child].exists
      <3>1. DOMAIN Rbac = {1, 2, 3} /\ Rbac[1] = "role" /\ Rbac[2] = "sa" /\ Rbac[3] = "binding"
        BY DEF Rbac
      <3> QED BY <1>2, <2>2, <2>3, <3>1, TheChildren DEF RbacInv, RbacThere
    <2>7. ChildrenDeployed
      BY <2>1, <2>2, <2>3, <2>4, <2>5, <2>6 DEF ChildrenDeployed
    <2>8. Deployable
      BY <2>3, <2>4, <2>5 DEF Deployable, InputNow, Quiet, Seen
    <2>9. DOMAIN in.tenants = StoredTenants
      BY <2>3 DEF InputNow, InputOf, OtelColConfigInput
    <2>10. store'[Collector] = store[Collector] /\ StoredTenants' = StoredTenants
      BY StoredSame
    <2>11. OwnReady'
      BY <1>2, <2>3, <2>9, <2>10 DEF OwnReady
    <2> QED BY <1>2, <2>7, <2>8, <2>11, DeployedStays DEF Settling, Children
  <1> QED BY <1>1, <1>2 DEF ReconcileOtelCollector, Fails, At

LEMMA SettledPublish ==
    ASSUME RbacLeftAlone, CollectorInv, [Next]_vars, Quiet, ~Seen', Settling, Publish
    PROVE  Settling'
  <1>1. ~queued'
    BY DEF Seen
  <1>2. pc = "publish" /\ pc' = "idle" /\ own.state # "failed" /\ Put(Collector, own)
    BY <1>1 DEF Publish, BecomeIdle, At, Requeue
  <1>3. OwnReady /\ Deployable /\ ChildrenDeployed
    BY <1>2 DEF Settling
  <1>4. store'[Collector] = own
    BY <1>2, PutStreams, TheChildren DEF CollectorInv, ApiInv
  <1>5. store[Collector] = own /\ store[Collector].exists
    BY <1>4, TheWatched DEF Quiet, Seen
  <1>6. DOMAIN store[Collector] = CollectorFields
    BY <1>5, NowTyped
  <1>7. own.state = "ready" /\ own.problems = {} /\ own.tenants = StoredTenants
    BY <1>3, <1>6 DEF OwnReady, CollectorFields
  <1>8. Deployed
    BY <1>3, <1>5, <1>7 DEF Deployed
  <1> QED BY <1>2, <1>3, <1>8, DeployedStays DEF Settling, Children

\* Reading, tenants and subscriptions first and outputs and secrets after.
LEMMA SettledReading ==
    ASSUME CollectorInv, Quiet, ReadNow', pc' \in {"tenants", "subscriptions", "secret"}, own' = own, own = store[Collector]
    PROVE  Settling'
  <1>1. own' = store'[Collector]
    BY StoredSame
  <1> QED BY <1>1 DEF Settling, Children

LEMMA SettledTenants ==
    ASSUME CollectorInv, Quiet, ~Seen', Settling,
           \/ ListTenants \/ TenantsRead
           \/ \E t \in Tenants : VisitTenant(t)
           \/ \E s \in Subscriptions : GetSubscription(s)
           \/ \E b \in Bridges : GetBridge(b)
    PROVE  Settling'
  <1>1. pc \in {"list", "tenants"} /\ pc # "idle" /\ own = store[Collector] /\ (pc = "tenants" => ReadNow)
    BY DEF ListTenants, TenantsRead, VisitTenant, GetSubscription, GetBridge, At, Settling
  <1>2. ASSUME NEW kind, HandleError(kind) PROVE Settling'
    BY <1>1, <1>2, SettledError
  <1>3. CASE ListTenants
    <2>1. ReadNow'
      BY <1>1, <1>3, ReadTenants
    <2> QED BY <1>1, <1>3, <2>1, SettledReading DEF ListTenants
  <1>4. CASE TenantsRead
    <2>1. ReadNow'
      BY <1>1, <1>4, ReadAllTenants DEF TenantsRead, At
    <2> QED BY <1>1, <1>4, <2>1, SettledReading DEF TenantsRead
  <1>5. ASSUME NEW t \in Tenants, VisitTenant(t), ~Failed(t), in' = in, pc' = pc, own' = own PROVE Settling'
    <2>1. pc = "tenants" /\ ReadNow'
      BY <1>1, <1>5, ReadVisit DEF VisitTenant, At
    <2> QED BY <1>1, <1>5, <2>1, SettledReading
  <1>6. ASSUME NEW t \in Tenants, VisitTenant(t) PROVE Settling'
    BY <1>2, <1>5, <1>6 DEF VisitTenant
  <1>7. ASSUME NEW s \in Subscriptions, GetSubscription(s), SubscriptionRead(s), pc' = pc, own' = own, listed' = listed
        PROVE  Settling'
    <2>1. pc = "tenants" /\ ReadNow'
      BY <1>1, <1>7, ReadSubscription DEF GetSubscription, At
    <2> QED BY <1>1, <1>7, <2>1, SettledReading
  <1>8. ASSUME NEW s \in Subscriptions, GetSubscription(s) PROVE Settling'
    BY <1>2, <1>7, <1>8 DEF GetSubscription, SubscriptionRead
  <1>9. ASSUME NEW b \in Bridges, GetBridge(b), BridgeRead(b), pc' = pc, own' = own, listed' = listed PROVE Settling'
    <2>1. pc = "tenants" /\ ReadNow'
      BY <1>1, <1>9, ReadBridge DEF GetBridge, At
    <2> QED BY <1>1, <1>9, <2>1, SettledReading
  <1>10. ASSUME NEW b \in Bridges, GetBridge(b) PROVE Settling'
    BY <1>2, <1>9, <1>10 DEF GetBridge, BridgeRead
  <1> QED BY <1>3, <1>4, <1>6, <1>8, <1>10

LEMMA SettledOutputs ==
    ASSUME CollectorInv, Quiet, ~Seen', Settling,
           \/ GetSecret \/ (\E s \in Subscriptions : VisitSubscription(s)) \/ (\E o \in Outputs : GetOutput(o))
    PROVE  Settling'
  <1>1. pc \in {"subscriptions", "secret"} /\ pc # "idle" /\ own = store[Collector] /\ ReadNow
    BY DEF GetSecret, VisitSubscription, GetOutput, At, Settling
  <1>2. ASSUME NEW kind, HandleError(kind) PROVE Settling'
    BY <1>1, <1>2, SettledError
  <1>3. CASE \E s \in Subscriptions : VisitSubscription(s)
    <2>1. ReadNow'
      BY <1>1, <1>3, ReadVisitSubscription
    <2> QED BY <1>1, <1>3, <2>1, SettledReading DEF VisitSubscription
  <1>4. ASSUME NEW o \in Outputs, GetOutput(o), OutputRead(o), own' = own, listed' = listed PROVE Settling'
    <2>1. ReadNow'
      BY <1>1, <1>4, ReadOutput
    <2> QED BY <1>1, <1>4, <2>1, SettledReading DEF OutputRead
  <1>5. ASSUME NEW o \in Outputs, GetOutput(o) PROVE Settling'
    BY <1>2, <1>4, <1>5 DEF GetOutput, OutputRead, At
  <1>6. ASSUME GetSecret, SecretRead, own' = own, listed' = listed PROVE Settling'
    <2>1. ReadNow'
      BY <1>1, <1>6, ReadSecret
    <2> QED BY <1>1, <1>6, <2>1, SettledReading DEF SecretRead
  <1>7. CASE GetSecret
    BY <1>2, <1>6, <1>7 DEF GetSecret, SecretRead, At
  <1> QED BY <1>3, <1>5, <1>7

\* The input is complete, accepted and used.
LEMMA SettledAssembling ==
    ASSUME CollectorInv, Quiet, ~Seen', Settling,
           \/ Assemble \/ CheckConfig
           \/ \E outcome \in Outcomes : \E i \in DOMAIN Rbac : ReconcileRBAC(Rbac[i], outcome)
    PROVE  Settling'
  <1>1. DOMAIN Rbac = {1, 2, 3} /\ Rbac[1] = "role" /\ Rbac[2] = "sa" /\ Rbac[3] = "binding"
    BY DEF Rbac
  <1>2. pc \in {"subscriptions", "assembled", "role", "sa", "binding"} /\ pc # "idle" /\ own = store[Collector]
    BY <1>1 DEF Assemble, CheckConfig, ReconcileRBAC, At, Settling
  <1>3. ASSUME NEW kind, HandleError(kind) PROVE Settling'
    BY <1>2, <1>3, SettledError
  <1>4. own' = own => own' = store'[Collector]
    BY <1>2, StoredSame
  <1>5. CASE Assemble
    <2>1. CASE ~ValidateConfigInput(in)
      BY <1>3, <1>5, <2>1 DEF Assemble
    <2>2. CASE ValidateConfigInput(in)
      <3>1. InputNow
        BY <1>5, <2>2, AllRead DEF Assemble, At, Settling
      <3>2. InputNow' /\ pc' = "assembled" /\ own' = own
        BY <1>5, <2>2, <3>1, InputStays DEF Assemble
      <3> QED BY <1>4, <3>2 DEF Settling, Children
    <2> QED BY <2>1, <2>2
  <1>6. ASSUME InputNow, in' = in, own' = own, config' = config, ValidateAssembledConfig(config), pc' \in Children \ {"otel"}
        PROVE  Settling'
    <2>1. InputNow'
      BY <1>6, InputStays
    <2>2. ValidateAssembledConfig(config)' = ValidateAssembledConfig(config)
      BY <1>6
    <2> QED BY <1>4, <1>6, <2>1, <2>2 DEF Settling, Children
  <1>7. CASE CheckConfig
    <2>1. InputNow
      BY <1>7 DEF CheckConfig, At, Settling
    <2>2. "role" \in Children \ {"otel"}
      BY TheChildren
    <2> QED BY <1>3, <1>6, <1>7, <2>1, <2>2 DEF CheckConfig, Accepted
  <1>8. ASSUME NEW outcome \in Outcomes, NEW i \in DOMAIN Rbac, ReconcileRBAC(Rbac[i], outcome) PROVE Settling'
    <2>1. pc = Rbac[i] /\ Rbac[i] \in Children
      BY <1>1, <1>8, TheChildren DEF ReconcileRBAC, At
    <2>2. InputNow /\ ValidateAssembledConfig(config)
      BY <2>1 DEF Settling
    <2>3. AfterRbac(Rbac[i]) \in Children \ {"otel"}
      BY <1>1, TheChildren DEF AfterRbac
    <2> QED BY <1>3, <1>6, <1>8, <2>2, <2>3 DEF ReconcileRBAC
  <1> QED BY <1>5, <1>7, <1>8

LEMMA SettleStep ==
    ASSUME LabelsDistinct, DirectoriesApart, RbacLeftAlone, CollectorInv, OriginInv, SettleInv, [Next]_vars
    PROVE  SettleInv'
  <1>1. RbacInv /\ RbacInv'
    BY RbacStep DEF SettleInv
  <1> SUFFICES ASSUME ~Seen' PROVE Settling'
    BY <1>1 DEF SettleInv
  <1>2. CASE StartReconcile
    <2>1. pc' = "list" /\ own' = store'[Collector]
      BY <1>2, StartedFresh
    <2> QED BY <2>1 DEF Settling, Children
  <1> SUFFICES ASSUME ~StartReconcile PROVE Settling'
    BY <1>2
  <1>3. Quiet
    BY Undisturbed
  <1>4. Settling
    BY <1>3 DEF SettleInv, Quiet
  <1>5. CASE WorkerLeftAlone
    BY <1>3, <1>4, <1>5, SettledStays
  <1>6. CASE WorkerStep
    <2>1. CASE \/ ListTenants \/ TenantsRead
               \/ \E t \in Tenants : VisitTenant(t)
               \/ \E s \in Subscriptions : GetSubscription(s)
               \/ \E b \in Bridges : GetBridge(b)
      BY <1>3, <1>4, <2>1, SettledTenants
    <2>2. CASE \/ GetSecret \/ (\E s \in Subscriptions : VisitSubscription(s)) \/ (\E o \in Outputs : GetOutput(o))
      BY <1>3, <1>4, <2>2, SettledOutputs
    <2>3. CASE \/ Assemble \/ CheckConfig
               \/ \E outcome \in Outcomes : \E i \in DOMAIN Rbac : ReconcileRBAC(Rbac[i], outcome)
      BY <1>3, <1>4, <2>3, SettledAssembling
    <2>4. CASE \E outcome \in Outcomes : ReconcileAuthSecret(outcome)
      BY <1>3, <1>4, <2>4, SettledAuth
    <2>5. CASE \E outcome \in Outcomes : ReconcileOtelCollector(outcome)
      BY <1>1, <1>3, <1>4, <2>5, SettledOtel
    <2>6. CASE Publish
      BY <1>3, <1>4, <2>6, SettledPublish
    <2> QED BY <1>6, <2>1, <2>2, <2>3, <2>4, <2>5, <2>6 DEF WorkerStep
  <1>7. CASE StartError \/ \E x \in Objects : DeliverEvent(x)
    BY <1>5, <1>7 DEF StartError, DeliverEvent, WorkerLeftAlone, workerVars
  <1>8. CASE ReadError
    BY <1>8, SettledError DEF ReadError
  <1>9. CASE Restart
    BY <1>9 DEF Restart, InitialSync, Seen
  <1>10. CASE Environment
    BY <1>5, <1>10 DEF Environment, EditCollector, AddFinalizer, Edit, NamespaceEvent, WorkerLeftAlone, workerVars
  <1>11. CASE UNCHANGED vars
    BY <1>5, <1>11 DEF vars, workerVars, WorkerLeftAlone
  <1> QED BY <1>6, <1>7, <1>8, <1>9, <1>10, <1>11 DEF Next

LEMMA SettleInitially == ASSUME Init PROVE SettleInv
  <1>1. pc = "idle" /\ Seen
    BY DEF Init, Seen
  <1>2. ASSUME NEW i \in DOMAIN Rbac PROVE Versions(Rbac[i]) = {store[Rbac[i]]}
    <2>1. Rbac[i] \in Objects
      BY TheChildren DEF Rbac
    <2> QED BY <2>1, EmptySeq DEF Init, Versions
  <1> QED BY <1>1, <1>2 DEF SettleInv, RbacInv

(***************************************************************************)
(* Whenever the collector controller has been left alone, everything is    *)
(* deployed as the resources ask for now: the roles are there, the auth    *)
(* secret and the OpenTelemetryCollector are those of the tenants,         *)
(* subscriptions, bridges, outputs and secrets in the store, and the       *)
(* status names the tenants. So no torn or stale read of                   *)
(* BuildConfigInputForCollector, no conflict, failed request or restart is *)
(* final: the watches of SetupWithManager and the errors Reconcile returns *)
(* bring the worker back for each. The roles are not watched, so others    *)
(* must leave them alone; and outputs must not share keys or directories,  *)
(* or the order in which they were read would show in what is deployed.    *)
(***************************************************************************)
THEOREM AlwaysSettledDeployed ==
    ASSUME LabelsDistinct, DirectoriesApart, RbacLeftAlone
    PROVE  Spec => []SettledDeployed
  <1>1. Init => SettleInv
    BY SettleInitially
  <1>2. CollectorInv /\ OriginInv /\ SettleInv /\ [Next]_vars => SettleInv'
    BY SettleStep
  <1>3. SettleInv => SettledDeployed
    BY TheWatched DEF SettleInv, SettledDeployed, LeftAlone, Seen, Settling
  <1> QED BY <1>1, <1>2, <1>3, CollectorInvariant, OriginInvariant, PTL DEF Spec

=============================================================================
