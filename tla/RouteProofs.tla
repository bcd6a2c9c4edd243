---------------------------- MODULE RouteProofs ----------------------------
(***************************************************************************)
(* Theorems about RouteReconciler for every set of tenants, resources,     *)
(* bridges and namespaces and every bound.                                 *)
(***************************************************************************)
EXTENDS RouteReconciler, TLAPS

-----------------------------------------------------------------------------
(* Objects and requests *)

\* The three kinds of objects are told apart by membership.
LEMMA KindOf ==
    /\ \A r \in Owned : r \in Objects /\ Values(r) = Resource
    /\ \A t \in Tenants : t \in Objects /\ t \notin Owned /\ Values(t) = TenantObj
    /\ \A b \in Bridges : b \in Objects /\ b \notin Owned /\ Values(b) = BridgeObj
    /\ \A x \in Objects : x \in Owned \/ x \in Tenants \/ x \in Bridges
    /\ None \notin Tenants /\ None \notin Owned
  BY KindsAssumption DEF Values, Owned

LEMMA AbsentType == \A x \in Objects : Absent(x) \in Values(x) /\ Absent(x).exists = FALSE
  <1>1. \A r \in Owned : Absent(r) \in Resource /\ Absent(r).exists = FALSE
    BY DEF Absent, Resource, States
  <1>2. \A t \in Tenants : Absent(t) \in TenantObj /\ Absent(t).exists = FALSE
    BY KindOf DEF Absent, TenantObj, TenantSpec, States
  <1>3. \A b \in Bridges : Absent(b) \in BridgeObj /\ Absent(b).exists = FALSE
    BY KindsAssumption DEF Absent, BridgeObj, States
  <1> QED BY <1>1, <1>2, <1>3, KindOf

LEMMA CreatedType == \A x \in Objects : Created(x) \in Values(x) /\ Created(x).exists = TRUE
  <1>1. ASSUME NEW r \in Owned PROVE Created(r) \in Resource /\ Created(r).exists = TRUE
    <2>1. Absent(r) \in Resource
      BY AbsentType, KindOf
    <2> QED BY <2>1 DEF Created, Resource
  <1>2. ASSUME NEW t \in Tenants PROVE Created(t) \in TenantObj /\ Created(t).exists = TRUE
    <2>1. Absent(t) \in TenantObj
      BY AbsentType, KindOf
    <2> QED BY <2>1 DEF Created, TenantObj
  <1>3. ASSUME NEW b \in Bridges PROVE Created(b) \in BridgeObj /\ Created(b).exists = TRUE
    <2>1. Absent(b) \in BridgeObj
      BY AbsentType, KindOf
    <2> QED BY <2>1 DEF Created, BridgeObj
  <1> QED BY <1>1, <1>2, <1>3, KindOf

LEMMA InitialObjectType == \A x \in Objects : InitialObject(x) \in Values(x)
  <1>1. ASSUME NEW s \in Subscriptions PROVE InitialObject(s) \in Resource
    <2>1. s \in Owned /\ Absent(s) \in Resource /\ Created(s) \in Resource
      BY AbsentType, CreatedType, KindOf DEF Owned
    <2>2. [Created(s) EXCEPT !.refs = InitRefs[s]] \in Resource
      BY <2>1, SettingAssumption DEF Resource
    <2> QED BY <2>1, <2>2 DEF InitialObject
  <1>2. ASSUME NEW o \in Outputs PROVE InitialObject(o) \in Resource
    BY AbsentType, CreatedType, KindOf, KindsAssumption DEF InitialObject, Owned
  <1>3. ASSUME NEW t \in Tenants PROVE InitialObject(t) \in TenantObj
    <2>1. t \notin Owned /\ Absent(t) \in TenantObj /\ Created(t) \in TenantObj
      BY AbsentType, CreatedType, KindOf
    <2>2. [Created(t) EXCEPT !.spec = InitSpec[t]] \in TenantObj
      BY <2>1, SettingAssumption DEF TenantObj
    <2> QED BY <2>1, <2>2 DEF InitialObject, Owned
  <1>4. ASSUME NEW b \in Bridges PROVE InitialObject(b) \in BridgeObj
    BY AbsentType, CreatedType, KindOf, KindsAssumption DEF InitialObject, Owned
  <1> QED BY <1>1, <1>2, <1>3, <1>4, KindOf DEF Owned

\* A write of a well-typed object keeps store, cache and streams well typed.
LEMMA PutType ==
    ASSUME ApiTypeOK, NEW x \in Objects, NEW v \in Values(x), Put(x, v)
    PROVE  ApiTypeOK'
  <1>1. Append(pending[x], v) \in Seq(Values(x))
    BY DEF ApiTypeOK
  <1>2. \A y \in Objects : store'[y] \in Values(y) /\ pending'[y] \in Seq(Values(y))
    BY <1>1 DEF Put, ApiTypeOK
  <1> QED BY <1>2 DEF Put, ApiTypeOK

LEMMA DeliverType ==
    ASSUME ApiTypeOK, NEW x \in Objects, Deliver(x)
    PROVE  ApiTypeOK'
  <1>1. Head(pending[x]) \in Values(x) /\ Tail(pending[x]) \in Seq(Values(x))
    BY DEF ApiTypeOK, Deliver
  <1>2. \A y \in Objects : cache'[y] \in Values(y) /\ pending'[y] \in Seq(Values(y))
    BY <1>1 DEF Deliver, ApiTypeOK
  <1> QED BY <1>2 DEF Deliver, ApiTypeOK

LEMMA ApiStutterType == ApiTypeOK /\ UNCHANGED apiVars => ApiTypeOK'
  BY DEF ApiTypeOK, apiVars

LEMMA UpdateType ==
    ASSUME ApiTypeOK, EnvTypeOK, NEW x \in Objects, NEW v \in Values(x),
           UpdateOk(x, v) \/ UpdateErr(x, v)
    PROVE  ApiTypeOK' /\ spent' \in [edits: Nat, faults: Nat, restarts: Nat]
  <1>1. ApiTypeOK'
    BY PutType, ApiStutterType DEF UpdateOk, UpdateErr, apiVars
  <1>2. spent' \in [edits: Nat, faults: Nat, restarts: Nat]
    BY DEF UpdateOk, UpdateErr, Spend, EnvTypeOK
  <1> QED BY <1>1, <1>2

\* What the actions write has the type of what they read.
LEMMA WrittenResource ==
    ASSUME NEW v \in Resource
    PROVE  /\ AsConflict(v) \in Resource
           /\ \A t \in Tenants \cup {None} : AsTaken(v, t) \in Resource
           /\ \A ps \in SUBSET {"tenantMismatch", "secret"} : AsInvalid(v, ps) \in Resource
           /\ AsReady(v) \in Resource
           /\ [AsReady(v) EXCEPT !.state = "failed"] \in Resource
  BY DEF AsConflict, AsTaken, AsInvalid, AsReady, Resource, States

LEMMA WrittenTenant ==
    ASSUME NEW v \in TenantObj
    PROVE  /\ AsReady(v) \in TenantObj
           /\ \A p \in {"logsources", "owned", "bridges"} :
                [v EXCEPT !.problems = @ \cup {p}, !.state = "failed"] \in TenantObj
           /\ \A ns \in SUBSET Namespaces : [v EXCEPT !.logNs = ns] \in TenantObj
           /\ \A ss \in SUBSET Subscriptions : [v EXCEPT !.subs = ss] \in TenantObj
           /\ \A bs \in SUBSET Bridges : [v EXCEPT !.bridges = bs] \in TenantObj
  BY DEF AsReady, TenantObj, States

LEMMA WrittenBridge ==
    ASSUME NEW b \in Bridges, copy[b] \in BridgeObj
    PROVE  /\ BridgeReady(b) \in BridgeObj
           /\ \A p \in {"dangling", "query"} : BridgeFailed(b, p) \in BridgeObj
  BY DEF BridgeReady, BridgeFailed, BridgeObj, States

LEMMA WrittenSubscription ==
    ASSUME NEW s \in Subscriptions, copy[s] \in Resource, valid \subseteq Outputs
    PROVE  Validated(s) \in Resource
  BY DEF Validated, Resource, States

LEMMA CopyTypes ==
    ASSUME TypeOK
    PROVE  /\ \A r \in Owned : copy[r] \in Resource
           /\ \A t \in Tenants : copy[t] \in TenantObj
           /\ \A b \in Bridges : copy[b] \in BridgeObj
           /\ pc # "idle" => copy[cur] \in TenantObj
  BY KindOf DEF TypeOK, WorkerTypeOK

LEMMA FailType ==
    ASSUME TypeOK, cur \in Tenants, NEW step \in {"logsources", "owned", "bridges"}, Fail(step)
    PROVE  WorkerTypeOK' /\ fresh' \subseteq Objects
  <1> DEFINE v == [copy[cur] EXCEPT !.problems = @ \cup {step}, !.state = "failed"]
  <1>1. cur \in Objects /\ v \in Values(cur)
    BY CopyTypes, KindOf, WrittenTenant
  <1>2. \A x \in Objects : copy'[x] \in Values(x)
    BY <1>1, AbsentType DEF Fail, KeepTenant
  <1>3. DOMAIN copy' = Objects
    BY DEF Fail, KeepTenant
  <1> QED
    BY <1>2, <1>3, KindOf DEF Fail, KeepTenant, ClearLoop, TypeOK, WorkerTypeOK, EnvTypeOK, OfKind

LEMMA IdleType ==
    ASSUME TypeOK, BecomeIdle
    PROVE  WorkerTypeOK' /\ fresh' \subseteq Objects
  <1>1. DOMAIN copy' = Objects /\ \A x \in Objects : copy'[x] \in Values(x)
    BY AbsentType DEF BecomeIdle
  <1> QED BY <1>1 DEF BecomeIdle, ClearLoop, WorkerTypeOK, OfKind

LEMMA ReadType ==
    ASSUME TypeOK, NEW xs \in SUBSET Objects, Read(xs)
    PROVE  /\ DOMAIN copy' = Objects /\ \A x \in Objects : copy'[x] \in Values(x)
           /\ fresh' \subseteq Objects
  BY DEF Read, TypeOK, WorkerTypeOK, ApiTypeOK, EnvTypeOK

LEMMA SetCopyType ==
    ASSUME TypeOK, NEW x \in Objects, NEW v \in Values(x), SetCopy(x, v)
    PROVE  DOMAIN copy' = Objects /\ \A y \in Objects : copy'[y] \in Values(y)
  BY DEF SetCopy, TypeOK, WorkerTypeOK

LEMMA DropType ==
    ASSUME TypeOK, NEW x \in Objects, Drop(x)
    PROVE  /\ DOMAIN copy' = Objects /\ \A y \in Objects : copy'[y] \in Values(y)
           /\ fresh' \subseteq Objects
  BY AbsentType DEF Drop, TypeOK, WorkerTypeOK, EnvTypeOK

-----------------------------------------------------------------------------
(* Type correctness *)

LEMMA InitType == Init => TypeOK
  <1> SUFFICES ASSUME Init PROVE TypeOK
    OBVIOUS
  <1>1. ApiTypeOK
    BY InitialObjectType DEF Init, ApiTypeOK
  <1>2. WorkerTypeOK
    BY AbsentType DEF Init, WorkerTypeOK, OfKind
  <1>3. EnvTypeOK
    BY SettingAssumption DEF Init, EnvTypeOK
  <1> QED BY <1>1, <1>2, <1>3 DEF TypeOK

LEMMA ListSteps ==
    ASSUME TypeOK,
           \/ \E t \in Tenants : StartReconcile(t)
           \/ HandleLogSourceNamespaces \/ ReadError \/ ListOwned \/ ListReferencing
           \/ ListSourceBridges \/ ListTargetBridges
    PROVE  TypeOK'
  <1> USE DEF At
  <1>1. ASSUME NEW t \in Tenants, StartReconcile(t) PROVE TypeOK'
    <2>1. CASE ~cache[t].exists
      BY <1>1, <2>1 DEF StartReconcile, TypeOK, ApiTypeOK, WorkerTypeOK, EnvTypeOK, workerVars,
         loopVars, apiVars, envVars, OfKind
    <2>2. CASE cache[t].exists
      <3>1. {t} \in SUBSET Objects
        BY KindOf
      <3>2. Read({t})
        BY <1>1, <2>2 DEF StartReconcile
      <3>3. WorkerTypeOK'
        BY <1>1, <2>2, <3>1, <3>2, ReadType, KindOf
        DEF StartReconcile, TypeOK, WorkerTypeOK, loopVars, OfKind
      <3>4. ApiTypeOK' /\ EnvTypeOK'
        BY <1>1, <3>1, <3>2, ReadType, ApiStutterType DEF StartReconcile, TypeOK, EnvTypeOK, envVars
      <3> QED BY <3>3, <3>4 DEF TypeOK
    <2> QED BY <2>1, <2>2
  <1>2. ASSUME HandleLogSourceNamespaces PROVE TypeOK'
    <2>1. cur \in Tenants
      BY <1>2 DEF HandleLogSourceNamespaces, TypeOK, WorkerTypeOK
    <2>2. CASE Fail("logsources")
      BY <1>2, <2>1, <2>2, FailType, ApiStutterType
      DEF HandleLogSourceNamespaces, TypeOK, EnvTypeOK, envVars
    <2>3. CASE ~Fail("logsources")
      <3> DEFINE v == [copy[cur] EXCEPT !.logNs = NamespacesFor(copy[cur].spec.log)]
      <3>1. cur \in Objects /\ v \in Values(cur)
        BY <2>1, CopyTypes, KindOf, WrittenTenant DEF NamespacesFor
      <3>2. SetCopy(cur, v)
        BY <1>2, <2>3 DEF HandleLogSourceNamespaces
      <3>3. WorkerTypeOK'
        BY <1>2, <2>3, <3>1, <3>2, SetCopyType
        DEF HandleLogSourceNamespaces, TypeOK, WorkerTypeOK, loopVars, OfKind
      <3> QED BY <1>2, <2>3, <3>3, ApiStutterType
        DEF HandleLogSourceNamespaces, TypeOK, EnvTypeOK, envVars
    <2> QED BY <2>2, <2>3
  <1>3. ASSUME ReadError PROVE TypeOK'
    <2>1. cur \in Tenants
      BY <1>3 DEF ReadError, TypeOK, WorkerTypeOK
    <2>2. PICK step \in {"logsources", "owned", "bridges"} : Fail(step)
      BY <1>3 DEF ReadError
    <2>3. WorkerTypeOK' /\ fresh' \subseteq Objects
      BY <2>1, <2>2, FailType
    <2>4. spent' \in [edits: Nat, faults: Nat, restarts: Nat]
      BY <1>3 DEF ReadError, Spend, TypeOK, EnvTypeOK
    <2> QED BY <1>3, <2>3, <2>4, ApiStutterType DEF ReadError, TypeOK, EnvTypeOK, envVars
  <1>4. ASSUME ListOwned PROVE TypeOK'
    <2>1. cur \in Tenants
      BY <1>4 DEF ListOwned, TypeOK, WorkerTypeOK
    <2>2. CASE Fail("owned")
      BY <1>4, <2>1, <2>2, FailType, ApiStutterType DEF ListOwned, TypeOK, EnvTypeOK, envVars
    <2>3. CASE ~Fail("owned")
      <3>1. Selected(cur, kind) \in SUBSET OfKind(kind) /\ Selected(cur, kind) \in SUBSET Objects
        BY KindOf DEF Selected, OfKind, Owned
      <3>2. Read(Selected(cur, kind))
        BY <1>4, <2>3 DEF ListOwned
      <3>3. WorkerTypeOK'
        BY <1>4, <2>1, <2>3, <3>1, <3>2, ReadType
        DEF ListOwned, TypeOK, WorkerTypeOK, OfKind, Owned
      <3> QED BY <1>4, <2>3, <3>1, <3>2, <3>3, ReadType, ApiStutterType
        DEF ListOwned, TypeOK, EnvTypeOK, envVars
    <2> QED BY <2>2, <2>3
  <1>5. ASSUME ListReferencing PROVE TypeOK'
    <2>1. Unselected(cur, kind) \in SUBSET OfKind(kind) /\ Unselected(cur, kind) \in SUBSET Objects
      BY KindOf DEF Unselected, OfKind, Owned
    <2>2. WorkerTypeOK'
      BY <1>5, <2>1, ReadType DEF ListReferencing, TypeOK, WorkerTypeOK, OfKind, Owned
    <2> QED BY <1>5, <2>1, <2>2, ReadType, ApiStutterType
      DEF ListReferencing, TypeOK, EnvTypeOK, envVars
  <1>6. ASSUME ListSourceBridges PROVE TypeOK'
    <2>1. Listed("source") \in SUBSET Bridges /\ Listed("source") \in SUBSET Objects
      BY KindOf DEF Listed
    <2>2. WorkerTypeOK'
      BY <1>6, <2>1, ReadType DEF ListSourceBridges, TypeOK, WorkerTypeOK, OfKind, Sides
    <2> QED BY <1>6, <2>1, <2>2, ReadType, ApiStutterType
      DEF ListSourceBridges, TypeOK, EnvTypeOK, envVars
  <1>7. ASSUME ListTargetBridges PROVE TypeOK'
    <2> DEFINE bs == {b \in Listed("target") : <<b, "source">> \notin todo}
               all == {p[1] : p \in todo} \cup Listed("target")
    <2>1. Listed("target") \in SUBSET Bridges /\ bs \in SUBSET Bridges /\ all \in SUBSET Bridges
      BY <1>7 DEF Listed, ListTargetBridges, TypeOK, WorkerTypeOK
    <2>2. cur \in Tenants /\ cur \in Objects
      BY <1>7, KindOf DEF ListTargetBridges, TypeOK, WorkerTypeOK
    <2>3. [copy[cur] EXCEPT !.bridges = all] \in Values(cur)
      BY <2>1, <2>2, CopyTypes, KindOf, WrittenTenant
    <2>4. DOMAIN copy' = Objects /\ \A x \in Objects : copy'[x] \in Values(x)
      BY <1>7, <2>3 DEF ListTargetBridges, ReadBridges, TypeOK, WorkerTypeOK, ApiTypeOK
    <2>5. fresh' \subseteq Objects
      BY <1>7, <2>1, KindOf DEF ListTargetBridges, ReadBridges, TypeOK, EnvTypeOK
    <2>6. WorkerTypeOK'
      BY <1>7, <2>1, <2>4 DEF ListTargetBridges, TypeOK, WorkerTypeOK, OfKind, Sides
    <2> QED BY <1>7, <2>5, <2>6, ApiStutterType DEF ListTargetBridges, TypeOK, EnvTypeOK, envVars
  <1> QED BY <1>1, <1>2, <1>3, <1>4, <1>5, <1>6, <1>7

LEMMA ResourceSteps ==
    ASSUME TypeOK, NEW r \in Owned, MarkConflict(r) \/ Adopt(r) \/ Disown(r)
    PROVE  TypeOK'
  <1> USE DEF At
  <1>1. r \in Objects /\ copy[r] \in Resource /\ Values(r) = Resource
    BY CopyTypes, KindOf
  <1>2. cur \in Tenants /\ todo' \subseteq todo
    BY DEF MarkConflict, Adopt, Disown, TypeOK, WorkerTypeOK
  <1>3. /\ AsConflict(copy[r]) \in Values(r)
        /\ AsTaken(copy[r], cur) \in Values(r) /\ AsTaken(copy[r], None) \in Values(r)
    BY <1>1, <1>2, WrittenResource
  <1>4. ApiTypeOK' /\ spent' \in [edits: Nat, faults: Nat, restarts: Nat]
    BY <1>1, <1>3, UpdateType DEF MarkConflict, Adopt, Disown, TypeOK
  <1>5. /\ DOMAIN copy' = Objects /\ \A x \in Objects : copy'[x] \in Values(x)
        /\ fresh' \subseteq Objects
    <2>1. CASE Drop(r)
      BY <1>1, <2>1, DropType
    <2>2. CASE SetCopy(r, AsTaken(copy[r], cur)) /\ UNCHANGED fresh
      BY <1>1, <1>3, <2>2, SetCopyType DEF TypeOK, EnvTypeOK
    <2> QED BY <2>1, <2>2 DEF MarkConflict, Adopt, Disown
  <1>6. mine' \subseteq OfKind(kind)
    <2>1. CASE UNCHANGED mine
      BY <2>1 DEF TypeOK, WorkerTypeOK
    <2>2. CASE ~UNCHANGED mine
      \* Only Adopt grows the list, by a resource of the pass.
      <3>1. Adopt(r) /\ mine' = mine \cup {r}
        BY <2>2 DEF MarkConflict, Adopt, Disown
      <3>2. r \in OfKind(kind)
        BY <3>1 DEF Adopt, TypeOK, WorkerTypeOK
      <3> QED BY <3>1, <3>2 DEF TypeOK, WorkerTypeOK
    <2> QED BY <2>1, <2>2
  <1>7. WorkerTypeOK'
    BY <1>2, <1>5, <1>6 DEF MarkConflict, Adopt, Disown, TypeOK, WorkerTypeOK, OfKind
  <1>8. EnvTypeOK'
    BY <1>4, <1>5 DEF MarkConflict, Adopt, Disown, TypeOK, EnvTypeOK, envVars
  <1> QED BY <1>4, <1>7, <1>8 DEF TypeOK

LEMMA PassSteps ==
    ASSUME TypeOK,
           \/ FinishOutputs \/ BeginValidation \/ CheckSubscriptions
           \/ \E s \in Subscriptions : PickSubscription(s)
    PROVE  TypeOK'
  <1> USE DEF At
  <1>0. cur \in Tenants /\ cur \in Objects /\ Values(cur) = TenantObj /\ copy[cur] \in TenantObj
    <2>1. pc # "idle"
      BY DEF FinishOutputs, BeginValidation, CheckSubscriptions, PickSubscription
    <2> QED BY <2>1, CopyTypes, KindOf DEF TypeOK, WorkerTypeOK
  <1>1. CASE Fail("owned") /\ UNCHANGED <<apiVars, queue, envVars, spent>>
    BY <1>0, <1>1, FailType, ApiStutterType DEF TypeOK, EnvTypeOK, envVars
  <1>2. CASE FinishOutputs /\ ~Fail("owned")
    <2>1. WorkerTypeOK'
      BY <1>2 DEF FinishOutputs, TypeOK, WorkerTypeOK, OfKind
    <2> QED BY <1>2, <2>1, ApiStutterType DEF FinishOutputs, TypeOK, EnvTypeOK, envVars
  <1>3. CASE BeginValidation
    <2>1. mine \in SUBSET Subscriptions
      BY <1>3 DEF BeginValidation, TypeOK, WorkerTypeOK, OfKind
    <2>2. [copy[cur] EXCEPT !.subs = mine] \in Values(cur)
      BY <1>0, <2>1, WrittenTenant
    <2>3. DOMAIN copy' = Objects /\ \A y \in Objects : copy'[y] \in Values(y)
      BY <1>0, <1>3, <2>2, SetCopyType DEF BeginValidation
    <2>4. WorkerTypeOK'
      BY <1>3, <2>1, <2>3 DEF BeginValidation, TypeOK, WorkerTypeOK, OfKind, Owned
    <2> QED BY <1>3, <2>4, ApiStutterType DEF BeginValidation, TypeOK, EnvTypeOK, envVars
  <1>4. CASE CheckSubscriptions /\ ~Fail("owned")
    <2>1. DOMAIN copy' = Objects /\ \A x \in Objects : copy'[x] \in Values(x)
      BY <1>0, <1>4, AbsentType DEF CheckSubscriptions, KeepTenant
    <2>2. fresh' \subseteq Objects
      BY <1>4 DEF CheckSubscriptions, KeepTenant, TypeOK, EnvTypeOK
    <2>3. WorkerTypeOK'
      BY <1>0, <1>4, <2>1 DEF CheckSubscriptions, ClearLoop, TypeOK, WorkerTypeOK, OfKind
    <2> QED BY <1>4, <2>2, <2>3, ApiStutterType DEF CheckSubscriptions, TypeOK, EnvTypeOK, envVars
  <1>5. ASSUME NEW s \in Subscriptions, PickSubscription(s) PROVE TypeOK'
    <2>1. copy[s].refs \subseteq Outputs
      BY CopyTypes DEF Owned, Resource
    <2>2. WorkerTypeOK'
      BY <1>5, <2>1 DEF PickSubscription, TypeOK, WorkerTypeOK, OfKind
    <2> QED BY <1>5, <2>2, ApiStutterType DEF PickSubscription, TypeOK, EnvTypeOK, envVars
  <1> QED BY <1>1, <1>2, <1>3, <1>4, <1>5 DEF FinishOutputs, CheckSubscriptions

LEMMA OutputSteps ==
    ASSUME TypeOK, NEW o \in Outputs, CheckOutput(o) \/ SecretError(o)
    PROVE  TypeOK'
  <1> USE DEF At
  <1> DEFINE Spent == [edits: Nat, faults: Nat, restarts: Nat]
  <1>1. o \in Objects /\ copy[o] \in Resource /\ Values(o) = Resource
    BY CopyTypes, KindOf DEF Owned
  <1>2. /\ Wrong(o) \in SUBSET {"tenantMismatch", "secret"}
        /\ Wrong(o) \cup {"secret"} \in SUBSET {"tenantMismatch", "secret"}
    BY DEF Wrong
  <1>3. /\ AsInvalid(copy[o], Wrong(o)) \in Values(o)
        /\ AsInvalid(copy[o], Wrong(o) \cup {"secret"}) \in Values(o)
        /\ AsReady(copy[o]) \in Values(o)
        /\ [AsReady(copy[o]) EXCEPT !.state = "failed"] \in Values(o)
    BY <1>1, <1>2, WrittenResource
  <1>4. /\ ApiTypeOK' /\ spent' \in Spent
        /\ DOMAIN copy' = Objects /\ \A x \in Objects : copy'[x] \in Values(x)
        /\ fresh' \subseteq Objects /\ valid' \subseteq Outputs
    <2>1. CASE RejectUnknown(o)
      BY <2>1, ApiStutterType DEF RejectUnknown, TypeOK, WorkerTypeOK, EnvTypeOK
    <2>2. CASE RejectInvalid(o, Wrong(o))
      <3>1. ApiTypeOK' /\ spent' \in Spent
        BY <1>1, <1>3, <2>2, UpdateType DEF RejectInvalid, TypeOK
      <3>2. DOMAIN copy' = Objects /\ \A x \in Objects : copy'[x] \in Values(x)
        BY <1>1, <1>3, <2>2, SetCopyType DEF RejectInvalid
      <3> QED BY <2>2, <3>1, <3>2
        DEF RejectInvalid, StaleIfChanged, TypeOK, EnvTypeOK, WorkerTypeOK
    <2>3. CASE Accept(o)
      <3>1. ApiTypeOK' /\ spent' \in Spent
        BY <1>1, <1>3, <2>3, UpdateType DEF Accept, TypeOK
      <3>2. DOMAIN copy' = Objects /\ \A x \in Objects : copy'[x] \in Values(x)
        BY <1>1, <1>3, <2>3, SetCopyType DEF Accept
      <3> QED BY <2>3, <3>1, <3>2
        DEF Accept, StaleIfChanged, TypeOK, EnvTypeOK, WorkerTypeOK
    <2>4. CASE SecretError(o)
      <3>1. ApiTypeOK'
        BY <1>1, <1>3, <2>4, PutType, ApiStutterType DEF SecretError, TypeOK
      <3>2. DOMAIN copy' = Objects /\ \A x \in Objects : copy'[x] \in Values(x)
        BY <1>1, <1>3, <2>4, SetCopyType DEF SecretError
      <3> QED BY <2>4, <3>1, <3>2 DEF SecretError, Spend, TypeOK, EnvTypeOK, WorkerTypeOK
    <2> QED BY <2>1, <2>2, <2>3, <2>4 DEF CheckOutput
  <1>5. WorkerTypeOK'
    BY <1>4 DEF CheckOutput, SecretError, TypeOK, WorkerTypeOK, OfKind
  <1> QED BY <1>4, <1>5 DEF CheckOutput, SecretError, TypeOK, EnvTypeOK, envVars

LEMMA SubscriptionSteps ==
    ASSUME TypeOK, UpdateSubscription
    PROVE  TypeOK'
  <1> USE DEF At
  <1>1. /\ cur \in Tenants /\ sub \in Subscriptions
        /\ sub \in Objects /\ Values(sub) = Resource /\ copy[sub] \in Resource
    BY CopyTypes, KindOf DEF UpdateSubscription, TypeOK, WorkerTypeOK, Owned
  <1>2. Validated(sub) \in Values(sub)
    BY <1>1, WrittenSubscription DEF TypeOK, WorkerTypeOK
  <1>3. ApiTypeOK' /\ spent' \in [edits: Nat, faults: Nat, restarts: Nat]
    BY <1>1, <1>2, UpdateType DEF UpdateSubscription, TypeOK
  <1>4. WorkerTypeOK' /\ fresh' \subseteq Objects
    <2>1. CASE Fail("owned")
      BY <1>1, <2>1, FailType
    <2>2. CASE ~Fail("owned")
      <3>1. DOMAIN copy' = Objects /\ \A x \in Objects : copy'[x] \in Values(x)
        BY <1>1, <1>2, <2>2, SetCopyType DEF UpdateSubscription
      <3> QED BY <2>2, <3>1
        DEF UpdateSubscription, TypeOK, WorkerTypeOK, EnvTypeOK, OfKind
    <2> QED BY <2>1, <2>2
  <1> QED BY <1>3, <1>4 DEF UpdateSubscription, TypeOK, EnvTypeOK, envVars

LEMMA BridgeSteps ==
    ASSUME TypeOK, NEW b \in Bridges, NEW side \in Sides,
           RejectBridge(b, side) \/ AcceptBridge(b, side) \/ BridgeQueryError(b, side)
    PROVE  TypeOK'
  <1> USE DEF At
  <1>1. b \in Objects /\ copy[b] \in BridgeObj /\ Values(b) = BridgeObj
    BY CopyTypes, KindOf
  <1>2. cur \in Tenants
    BY DEF RejectBridge, AcceptBridge, BridgeQueryError, NextBridge, TypeOK, WorkerTypeOK
  <1>3. /\ BridgeReady(b) \in Values(b) /\ BridgeFailed(b, "dangling") \in Values(b)
        /\ BridgeFailed(b, "query") \in Values(b)
    BY <1>1, WrittenBridge
  <1>4. ApiTypeOK' /\ spent' \in [edits: Nat, faults: Nat, restarts: Nat]
    <2>1. CASE BridgeQueryError(b, side)
      BY <1>1, <1>3, <2>1, PutType, ApiStutterType
      DEF BridgeQueryError, Spend, TypeOK, EnvTypeOK
    <2>2. CASE ~BridgeQueryError(b, side)
      BY <1>1, <1>3, <2>2, UpdateType DEF RejectBridge, AcceptBridge, TypeOK
    <2> QED BY <2>1, <2>2
  <1>5. WorkerTypeOK' /\ fresh' \subseteq Objects
    <2>1. CASE Fail("bridges")
      BY <1>2, <2>1, FailType
    <2>2. CASE ~Fail("bridges")
      BY <2>2 DEF RejectBridge, AcceptBridge, BridgeQueryError, NextBridge, StaleIfChanged,
         TypeOK, WorkerTypeOK, EnvTypeOK, OfKind
    <2> QED BY <2>1, <2>2
  <1> QED BY <1>4, <1>5
    DEF RejectBridge, AcceptBridge, BridgeQueryError, TypeOK, EnvTypeOK, envVars

LEMMA PublishSteps ==
    ASSUME TypeOK, FinishBridges \/ Publish
    PROVE  TypeOK'
  <1> USE DEF At
  <1>1. cur \in Tenants /\ cur \in Objects /\ Values(cur) = TenantObj /\ copy[cur] \in TenantObj
    BY CopyTypes, KindOf DEF FinishBridges, Publish, TypeOK, WorkerTypeOK
  <1>2. CASE FinishBridges
    <2>1. AsReady(copy[cur]) \in Values(cur)
      BY <1>1, WrittenTenant
    <2>2. /\ DOMAIN copy' = Objects /\ \A x \in Objects : copy'[x] \in Values(x)
          /\ fresh' \subseteq Objects
      <3>1. copy' = [x \in Objects |-> IF x = cur THEN AsReady(copy[cur]) ELSE Absent(x)]
        BY <1>2 DEF FinishBridges, KeepTenant
      <3>2. fresh' \subseteq Objects
        BY <1>2 DEF FinishBridges, KeepTenant, TypeOK, EnvTypeOK
      <3> QED BY <2>1, <3>1, <3>2, AbsentType
    <2>3. WorkerTypeOK'
      BY <1>1, <1>2, <2>2 DEF FinishBridges, ClearLoop, TypeOK, WorkerTypeOK, OfKind
    <2> QED BY <1>2, <2>2, <2>3, ApiStutterType DEF FinishBridges, TypeOK, EnvTypeOK, envVars
  <1>3. CASE Publish
    <2>1. WorkerTypeOK' /\ fresh' \subseteq Objects
      BY <1>3, IdleType DEF Publish
    <2>2. ApiTypeOK'
      BY <1>1, <1>3, PutType, ApiStutterType DEF Publish, TypeOK
    <2>3. queue' \subseteq Tenants
      BY <1>1, <1>3 DEF Publish, Requeue, TypeOK, EnvTypeOK
    <2>4. spent' \in [edits: Nat, faults: Nat, restarts: Nat]
      <3>1. spent' = spent \/ Spend("faults")
        BY <1>3 DEF Publish
      <3> QED BY <3>1 DEF Spend, TypeOK, EnvTypeOK
    <2> QED BY <1>3, <2>1, <2>2, <2>3, <2>4 DEF Publish, TypeOK, EnvTypeOK, envVars
  <1> QED BY <1>2, <1>3

LEMMA EnvironmentSteps ==
    ASSUME TypeOK, (\E x \in Objects : DeliverEvent(x)) \/ Restart \/ UserStep
    PROVE  TypeOK'
  <1>1. ASSUME NEW x \in Objects, DeliverEvent(x) PROVE TypeOK'
    <2>1. ApiTypeOK'
      BY <1>1, DeliverType DEF DeliverEvent, TypeOK
    <2>2. queue' \subseteq Tenants
      BY <1>1 DEF DeliverEvent, QueuedBy, CachedTenants, TypeOK, EnvTypeOK
    <2> QED BY <1>1, <2>1, <2>2
      DEF DeliverEvent, TypeOK, WorkerTypeOK, EnvTypeOK, workerVars, loopVars, envVars, OfKind
  <1>2. CASE Restart
    <2>1. ApiTypeOK'
      BY <1>2 DEF Restart, InitialSync, TypeOK, ApiTypeOK
    <2>2. WorkerTypeOK' /\ fresh' \subseteq Objects
      BY <1>2, IdleType DEF Restart
    <2>3. queue' \subseteq Tenants /\ spent' \in [edits: Nat, faults: Nat, restarts: Nat]
      BY <1>2 DEF Restart, Spend, TypeOK, EnvTypeOK
    <2> QED BY <1>2, <2>1, <2>2, <2>3 DEF Restart, TypeOK, EnvTypeOK, envVars
  <1>3. ASSUME NEW x \in Objects, NEW v \in Values(x), Edit(x, v) PROVE TypeOK'
    <2>1. ApiTypeOK'
      BY <1>3, PutType DEF Edit, TypeOK
    <2>2. fresh' \subseteq Objects /\ spent' \in [edits: Nat, faults: Nat, restarts: Nat]
      BY <1>3 DEF Edit, MayEdit, Spend, TypeOK, EnvTypeOK
    <2> QED BY <1>3, <2>1, <2>2
      DEF Edit, TypeOK, WorkerTypeOK, EnvTypeOK, workerVars, loopVars, envVars, OfKind
  <1>4. \A x \in Objects : OrCreated(x) \in Values(x)
    BY CreatedType DEF OrCreated, TypeOK, ApiTypeOK
  <1>5. ASSUME NEW t \in Tenants, NEW spec \in TenantSpecs, ApplyTenant(t, spec) PROVE TypeOK'
    <2>1. t \in Objects /\ Values(t) = TenantObj /\ OrCreated(t) \in TenantObj
      BY <1>4, KindOf
    <2>2. [OrCreated(t) EXCEPT !.spec = spec] \in Values(t)
      BY <2>1, SettingAssumption DEF TenantObj
    <2> QED BY <1>3, <1>5, <2>1, <2>2 DEF ApplyTenant
  <1>6. ASSUME NEW s \in Subscriptions, NEW rs \in RefChoices, ApplySubscription(s, rs)
        PROVE  TypeOK'
    <2>1. s \in Objects /\ Values(s) = Resource /\ OrCreated(s) \in Resource
      BY <1>4, KindOf DEF Owned
    <2>2. [OrCreated(s) EXCEPT !.refs = rs] \in Values(s)
      BY <2>1, SettingAssumption DEF Resource
    <2> QED BY <1>3, <1>6, <2>1, <2>2 DEF ApplySubscription
  <1>7. ASSUME NEW x \in Outputs \cup Bridges, ApplyOther(x) PROVE TypeOK'
    <2>1. x \in Objects
      BY KindOf DEF Owned
    <2> QED BY <1>3, <1>4, <1>7, <2>1 DEF ApplyOther
  <1>8. ASSUME NEW x \in Objects, Delete(x) PROVE TypeOK'
    BY <1>3, <1>8, AbsentType DEF Delete
  <1>9. ASSUME NEW n \in Movable, NEW l \in Labels, Relabel(n, l) PROVE TypeOK'
    <2>1. /\ nsLabel' \in [Namespaces -> Labels] /\ queue' \subseteq Tenants
          /\ spent' \in [edits: Nat, faults: Nat, restarts: Nat]
      BY <1>9, SettingAssumption DEF Relabel, MayEdit, Spend, CachedTenants, TypeOK, EnvTypeOK
    <2> QED BY <1>9, <2>1, ApiStutterType
      DEF Relabel, TypeOK, WorkerTypeOK, EnvTypeOK, workerVars, loopVars, OfKind
  <1>10. ASSUME NEW o \in AuthOutputs, ChangeSecret(o) PROVE TypeOK'
    <2>1. /\ secrets' \subseteq AuthOutputs
          /\ spent' \in [edits: Nat, faults: Nat, restarts: Nat]
      BY <1>10 DEF ChangeSecret, MayEdit, Spend, TypeOK, EnvTypeOK
    <2> QED BY <1>10, <2>1, ApiStutterType
      DEF ChangeSecret, TypeOK, WorkerTypeOK, EnvTypeOK, workerVars, loopVars, OfKind
  <1> QED BY <1>1, <1>2, <1>5, <1>6, <1>7, <1>8, <1>9, <1>10 DEF UserStep

LEMMA StutterType == TypeOK /\ UNCHANGED vars => TypeOK'
  BY DEF TypeOK, ApiTypeOK, WorkerTypeOK, EnvTypeOK, vars, apiVars, workerVars, loopVars,
     envVars, OfKind

LEMMA NextType == TypeOK /\ [Next]_vars => TypeOK'
  BY ListSteps, ResourceSteps, PassSteps, OutputSteps, SubscriptionSteps, BridgeSteps,
     PublishSteps, EnvironmentSteps, StutterType
  DEF Next, WorkerStep, Failure

\* The lists and copies the reconciler keeps have the shape its loops rely on,
\* whatever users, the cache and the API server do.
THEOREM TypeCorrect == Spec => []TypeOK
  BY InitType, NextType, PTL DEF Spec
=============================================================================
