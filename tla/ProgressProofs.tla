--------------------------- MODULE ProgressProofs ---------------------------
(***************************************************************************)
(* A tenant that has been left alone has the status its spec asks for. The *)
(* argument follows one reconciliation: as long as nothing queues the      *)
(* tenant again, the cache shows what the tenant is about, every request   *)
(* changes nothing, and ProgressInv says what has been looked at so far.   *)
(***************************************************************************)
EXTENDS StatusProofs

-----------------------------------------------------------------------------
(* Steps that leave a tenant alone *)

\* Nothing t is about changes, and t is not to be reconciled again.
Still(t) ==
    /\ ~Attended(t) /\ nsLabel' = nsLabel
    /\ \A x \in Watched(t) : store'[x] = store[x]

LEMMA CacheShows ==
    ASSUME TypeOK, CacheCoherent, NEW t \in Tenants, ~Attended(t)
    PROVE  /\ store[t].exists /\ t \notin queue
           /\ \A x \in Watched(t) : x \in Objects /\ CacheCurrent(x) /\ cache[x] = store[x]
  BY KindOf DEF Attended, Watched, CacheCurrent, CacheCoherent, Latest

\* A write that t does not hear of is none.
LEMMA WriteStill ==
    ASSUME TypeOK, TypeOK', NEW t \in Tenants, ~Attended(t)', queue \subseteq queue', nsLabel' = nsLabel,
           (\E x \in Objects : \E v : Put(x, v)) \/ UNCHANGED apiVars
    PROVE  Still(t)
  <1>1. ASSUME NEW x \in Watched(t) PROVE store'[x] = store[x] /\ pending'[x] = pending[x]
    <2>1. x \in Objects /\ CacheCurrent(x)'
      BY KindOf DEF Watched, Attended
    <2>2. CASE UNCHANGED apiVars
      BY <2>2 DEF apiVars
    <2>3. ASSUME NEW y \in Objects, NEW v, Put(y, v)
          PROVE  store'[x] = store[x] /\ pending'[x] = pending[x]
      <3>1. v \in Values(y)
        <4>1. store'[y] = v
          BY <2>3 DEF Put, TypeOK, ApiTypeOK
        <4> QED BY <4>1 DEF TypeOK, ApiTypeOK
      <3>2. /\ store'[y] = v /\ (v = store[y] \/ ~CacheCurrent(y)')
            /\ \A z \in Objects \ {y} : store'[z] = store[z] /\ pending'[z] = pending[z]
        BY <2>3, <3>1, PutPending DEF TypeOK
      <3>3. v = store[y] => pending' = pending
        BY <2>3 DEF Put
      <3> QED BY <2>1, <3>2, <3>3
    <2> QED BY <2>2, <2>3
  <1>2. t \in Watched(t)
    BY DEF Watched
  <1> QED BY <1>1, <1>2 DEF Still, Attended, CacheCurrent

\* What the worker's steps do to the API server, the queue and the namespaces.
LEMMA WorkingWrite ==
    ASSUME TypeOK, Working
    PROVE  /\ queue \subseteq queue' /\ nsLabel' = nsLabel
           /\ (\E x \in Objects : \E v : Put(x, v)) \/ UNCHANGED apiVars
  <1> USE DEF At, UpdateOk, UpdateErr, envVars
  <1>0. cur \in Objects /\ \A x \in Owned \cup Bridges : x \in Objects
    BY WorkingOn, KindOf
  <1>1. CASE HandleLogSourceNamespaces \/ ListOwned \/ ListReferencing \/ ReadError
    BY <1>1 DEF HandleLogSourceNamespaces, ListOwned, ListReferencing, ReadError
  <1>2. CASE \E r \in Owned : MarkConflict(r) \/ Adopt(r) \/ Disown(r)
    BY <1>0, <1>2 DEF MarkConflict, Adopt, Disown
  <1>3. CASE \/ FinishOutputs \/ BeginValidation \/ CheckSubscriptions
             \/ \E s \in Subscriptions : PickSubscription(s)
    BY <1>3 DEF FinishOutputs, BeginValidation, CheckSubscriptions, PickSubscription
  <1>4. CASE UpdateSubscription
    <2>1. sub \in Objects
      BY <1>0, <1>4 DEF UpdateSubscription, TypeOK, WorkerTypeOK, Owned
    <2> QED BY <1>4, <2>1 DEF UpdateSubscription
  <1>5. ASSUME NEW o \in Outputs, CheckOutput(o) \/ SecretError(o)
        PROVE  /\ queue \subseteq queue' /\ nsLabel' = nsLabel
               /\ (\E x \in Objects : \E v : Put(x, v)) \/ UNCHANGED apiVars
    <2>1. o \in Objects
      BY <1>0 DEF Owned
    <2>2. \E v : UpdateOk(o, v) \/ UpdateErr(o, v) \/ Put(o, v) \/ UNCHANGED apiVars
      BY <1>5, OutputWrite
    <2> QED BY <1>5, <2>1, <2>2 DEF CheckOutput, SecretError
  <1>6. CASE ListSourceBridges \/ ListTargetBridges \/ FinishBridges
    BY <1>6 DEF ListSourceBridges, ListTargetBridges, FinishBridges
  <1>7. CASE Publish
    BY <1>0, <1>7 DEF Publish, Requeue
  <1>8. CASE \E b \in Bridges, side \in Sides :
               RejectBridge(b, side) \/ AcceptBridge(b, side) \/ BridgeQueryError(b, side)
    BY <1>0, <1>8 DEF RejectBridge, AcceptBridge, BridgeQueryError
  <1> QED BY <1>1, <1>2, <1>3, <1>4, <1>5, <1>6, <1>7, <1>8 DEF Working, WorkerStep, Failure

\* A tenant that is there and up to date in the cache is on the list that the
\* events of resources, bridges and namespaces go through.
LEMMA ShownIsCached ==
    ASSUME CacheCoherent, NEW t \in Tenants, CacheCurrent(t), store[t].exists
    PROVE  t \in CachedTenants
  BY KindOf DEF CachedTenants, CacheCurrent, CacheCoherent, Latest

\* Unless t is taken from the queue, a step after which t is not to be
\* reconciled leaves alone what t is about.
LEMMA StillOrStarted ==
    ASSUME TypeOK, TypeOK', CacheCoherent, [Next]_vars, NEW t \in Tenants, ~Attended(t)'
    PROVE  \/ Still(t) /\ ~StartReconcile(t)
           \/ /\ StartReconcile(t) /\ cache[t].exists /\ UNCHANGED <<apiVars, nsLabel>>
              /\ \A x \in Watched(t) : CacheCurrent(x) /\ cache[x] = store[x]
  <1>0. /\ t \notin queue' /\ store'[t].exists /\ t \in Watched(t) /\ t \in Objects
        /\ \A x \in Watched(t) : x \in Objects /\ CacheCurrent(x)'
    BY KindOf DEF Attended, Watched
  <1>s. Still(t) => ~StartReconcile(t)
    BY DEF Still, Attended, StartReconcile
  <1>1. CASE Working
    <2>1. pc # "idle"
      BY <1>1, WorkingOn
    <2> QED BY <1>1, <2>1, WorkingWrite, WriteStill DEF StartReconcile, At
  <1>2. ASSUME NEW u \in Tenants, StartReconcile(u), u # t PROVE Still(t) /\ ~StartReconcile(t)
    <2>1. UNCHANGED apiVars /\ nsLabel' = nsLabel /\ queue' = queue \ {u} /\ u \in queue
      BY <1>2 DEF StartReconcile, envVars
    <2> QED BY <1>0, <1>2, <2>1 DEF StartReconcile, Still, Attended, apiVars, CacheCurrent
  <1>3. CASE StartReconcile(t)
    <2>1. UNCHANGED apiVars /\ nsLabel' = nsLabel
      BY <1>3 DEF StartReconcile, envVars
    <2>2. \A x \in Watched(t) : CacheCurrent(x) /\ cache[x] = store[x]
      BY <1>0, <2>1 DEF apiVars, CacheCurrent, CacheCoherent, Latest
    <2>3. cache[t].exists
      BY <1>0, <2>1, <2>2 DEF apiVars
    <2> QED BY <1>3, <2>1, <2>2, <2>3
  <1>4. ASSUME NEW x \in Objects, DeliverEvent(x) PROVE Still(t)
    <2>1. /\ UNCHANGED <<store, nsLabel>> /\ queue' = queue \cup QueuedBy(x)
          /\ \A y \in Objects \ {x} : pending'[y] = pending[y]
      BY <1>4 DEF DeliverEvent, Deliver, envVars, TypeOK, ApiTypeOK
    <2>2. x # t
      BY <1>0, <2>1 DEF QueuedBy
    <2>3. CacheCurrent(t) /\ store[t].exists
      BY <1>0, <2>1, <2>2 DEF CacheCurrent
    <2>4. x \notin Watched(t)
      <3>1. t \in CachedTenants
        BY <2>3, ShownIsCached
      <3>2. x \in Tenants
        BY <1>0, <2>1, <3>1 DEF QueuedBy
      <3> QED BY <2>2, <3>2, KindOf, KindsAssumption DEF Watched
    <2> QED BY <1>0, <2>1, <2>4 DEF Still, Attended, CacheCurrent
  <1>5. ~Restart
    BY <1>0 DEF Restart, InitialSync
  <1>6. CASE UserStep
    <2>1. /\ queue \subseteq queue'
          /\ nsLabel' = nsLabel \/ (CachedTenants \subseteq queue' /\ UNCHANGED apiVars)
      BY <1>6 DEF UserStep, ApplyTenant, ApplySubscription, ApplyOther, Delete, Edit, Relabel,
         ChangeSecret, envVars
    <2>2. nsLabel' = nsLabel
      <3>1. UNCHANGED apiVars => t \in CachedTenants
        BY <1>0, ShownIsCached DEF apiVars, CacheCurrent
      <3> QED BY <1>0, <2>1, <3>1
    <2>3. (\E x \in Objects : \E v : Put(x, v)) \/ UNCHANGED apiVars
      BY <1>6, UserWrite DEF Edit
    <2> QED BY <1>s, <2>1, <2>2, <2>3, WriteStill
  <1>7. CASE UNCHANGED vars
    BY <1>0, <1>s, <1>7 DEF vars, apiVars, envVars, Still, Attended, CacheCurrent
  <1> QED BY <1>s, <1>1, <1>2, <1>3, <1>4, <1>5, <1>6, <1>7 DEF Next, Working, Failure

-----------------------------------------------------------------------------
(* What the status of a tenant speaks of *)

LEMMA StillSame ==
    ASSUME TypeOK, NEW t \in Tenants, Still(t)
    PROVE  /\ Chosen(t)' = Chosen(t)
           /\ \A k \in {"output", "subscription"} :
                /\ OwnOf(t, k)' = OwnOf(t, k)
                /\ Claimed(t, k) => Claimed(t, k)'
                /\ Sorted(t, k) => Sorted(t, k)'
           /\ \A side \in Sides : BridgesAt(t, side)' = BridgesAt(t, side)
           /\ \A s \in Subscriptions : Served(t, s) => Served(t, s)'
           /\ NamespacesFor(store[t].spec.log)' = NamespacesFor(store[t].spec.log)
  <1>1. /\ \A r \in Owned : store'[r] = store[r]
        /\ \A b \in Bridges : store'[b] = store[b]
        /\ store'[t] = store[t] /\ nsLabel' = nsLabel
    BY DEF Still, Watched
  <1>2. Chosen(t)' = Chosen(t) /\ NamespacesFor(store[t].spec.log)' = NamespacesFor(store[t].spec.log)
    BY <1>1 DEF Chosen, NamespacesFor
  <1>3. ASSUME NEW k \in {"output", "subscription"}
        PROVE  /\ OwnOf(t, k)' = OwnOf(t, k)
               /\ Claimed(t, k) => Claimed(t, k)'
               /\ Sorted(t, k) => Sorted(t, k)'
    <2>1. OfKind(k) \subseteq Owned
      BY DEF OfKind, Owned
    <2>2. OwnOf(t, k)' = OwnOf(t, k)
      BY <1>1, <2>1 DEF OwnOf
    <2>3. Claimed(t, k) => Claimed(t, k)'
      BY <1>1, <1>2, <2>1 DEF Claimed
    <2> QED BY <1>2, <2>2, <2>3 DEF Sorted
  <1>4. \A side \in Sides : BridgesAt(t, side)' = BridgesAt(t, side)
    BY <1>1 DEF BridgesAt
  <1>5. ASSUME NEW s \in Subscriptions, Served(t, s) PROVE Served(t, s)'
    <2>1. s \in Owned /\ store[s] \in Resource /\ \A o \in Outputs : o \in Owned
      BY KindOf DEF TypeOK, ApiTypeOK, Owned
    <2>2. store[s].refs \subseteq Outputs
      BY <2>1 DEF Resource
    <2> QED BY <1>1, <1>5, <2>1, <2>2 DEF Served
  <1> QED BY <1>2, <1>3, <1>4, <1>5

LEMMA StaysConsistent ==
    ASSUME TypeOK, NEW t \in Tenants, Still(t), Consistent(t)
    PROVE  Consistent(t)'
  <1>1. store'[t] = store[t] /\ store[t].subs \subseteq Subscriptions
    <2>1. store[t] \in TenantObj
      BY KindOf DEF TypeOK, ApiTypeOK
    <2> QED BY <2>1 DEF Still, Watched, TenantObj
  <1> QED BY <1>1, StillSame DEF Consistent, Sides

-----------------------------------------------------------------------------
(* A reconciliation that nothing disturbs *)

Going(t) ==
    /\ t \in Tenants /\ cur = t /\ TypeOK /\ OwnershipInv /\ HoldsOwn
    /\ Still(t) /\ Progress(t)

LEMMA GoingOn ==
    ASSUME NEW t, Going(t)
    PROVE  /\ t \in Objects /\ t \notin Owned /\ t \notin Bridges /\ t # None
           /\ copy[t] \in TenantObj /\ store'[t] = store[t]
           /\ \A x \in Owned \cup Bridges :
                x \in Objects /\ CacheCurrent(x) /\ cache[x] = store[x] /\ store'[x] = store[x]
           /\ \A r \in Owned : copy[r] \in Resource /\ store[r] \in Resource
           /\ kind \in {"output", "subscription"} /\ OfKind(kind) \subseteq Owned
           /\ mine \subseteq OfKind(kind) /\ outs \subseteq Outputs
           /\ kind = "subscription" => outs \cap OfKind(kind) = {}
           /\ \A r \in Owned : store[r].tenant = t => store[r].exists
  <1> USE DEF Going
  <1>1. t \in Objects /\ t \notin Owned /\ t \notin Bridges /\ t # None /\ copy[t] \in TenantObj
    BY KindOf, KindsAssumption, CopyTypes
  <1>2. store'[t] = store[t] /\ \A x \in Owned \cup Bridges :
          x \in Objects /\ CacheCurrent(x) /\ cache[x] = store[x] /\ store'[x] = store[x]
    BY CacheShows DEF Still, Watched, OwnershipInv
  <1>3. \A r \in Owned : copy[r] \in Resource /\ store[r] \in Resource
    BY KindOf, CopyTypes DEF TypeOK, ApiTypeOK
  <1>4. /\ kind \in {"output", "subscription"} /\ OfKind(kind) \subseteq Owned
        /\ mine \subseteq OfKind(kind) /\ outs \subseteq Outputs
        /\ kind = "subscription" => outs \cap OfKind(kind) = {}
    BY KindsAssumption DEF TypeOK, WorkerTypeOK, OfKind, Owned
  <1>5. ASSUME NEW r \in Owned, store[r].tenant = t PROVE store[r].exists
    <2>1. Absent(r).tenant = None
      BY DEF Absent
    <2> QED BY <1>1, <1>5, <2>1 DEF OwnershipInv, AbsentFree
  <1> QED BY <1>1, <1>2, <1>3, <1>4, <1>5

\* A request of such a reconciliation changes nothing.
LEMMA IdleRequest ==
    ASSUME NEW t, Going(t), NEW x \in Owned \cup Bridges, NEW v, UpdateOk(x, v) \/ Put(x, v)
    PROVE  v = store[x]
  <1>1. x \in Objects /\ store'[x] = store[x]
    BY GoingOn
  <1>2. store'[x] = v
    BY <1>1 DEF UpdateOk, Put, Going, TypeOK, ApiTypeOK
  <1> QED BY <1>1, <1>2

\* A request with a fresh copy does not fail in a loop that goes on.
LEMMA FreshAnswered ==
    ASSUME TypeOK, pc \in {"claim", "release", "outputs"}, pc' = pc, ~Swallowed, NEW x \in fresh, NEW v
    PROVE  ~UpdateErr(x, v)
  <1>1. spent' # [spent EXCEPT !["faults"] = @ + 1]
    BY DEF Swallowed, TypeOK, EnvTypeOK
  <1> QED BY <1>1 DEF UpdateErr, Spend

LEMMA FailGivesUp ==
    ASSUME NEW t, Going(t), NEW step, Fail(step)
    PROVE  GivenUp(t)'
  <1>1. copy'[t] = [copy[t] EXCEPT !.problems = @ \cup {step}, !.state = "failed"] /\ pc' = "publish"
    BY GoingOn DEF Going, Fail, KeepTenant
  <1> QED BY <1>1, GoingOn DEF GivenUp, At, TenantObj

\* Copies that are just read, and those that are not touched, are true.
LEMMA ReadTruly ==
    ASSUME NEW t, Going(t), NEW xs \in SUBSET (Owned \cup Bridges), Read(xs)
    PROVE  /\ TrueCopies(xs)'
           /\ \A rs \in SUBSET Owned : TrueCopies(rs) /\ rs \cap xs = {} => TrueCopies(rs)'
           /\ copy'[t] = copy[t]
  <1>1. copy'[t] = copy[t] /\ \A r \in Owned \cup Bridges : r \notin xs => copy'[r] = copy[r]
    BY GoingOn DEF Read
  <1>2. \A x \in xs : copy'[x] = store'[x] /\ x \in fresh'
    BY GoingOn DEF Read
  <1>3. \A x \in fresh : x \notin xs => x \in fresh'
    BY DEF Read
  <1>4. TrueCopies(xs)'
    BY <1>2 DEF TrueCopies
  <1>5. ASSUME NEW rs \in SUBSET Owned, TrueCopies(rs), rs \cap xs = {} PROVE TrueCopies(rs)'
    <2>1. \A r \in rs : copy'[r] = store'[r] /\ r \in fresh'
      BY <1>1, <1>3, <1>5, GoingOn DEF TrueCopies
    <2> QED BY <2>1 DEF TrueCopies
  <1> QED BY <1>1, <1>4, <1>5

LEMMA GoLogSources ==
    ASSUME NEW t, Going(t), HandleLogSourceNamespaces
    PROVE  GivenUp(t)' \/ Progress(t)'
  <1> USE DEF At
  <1>1. CASE Fail("logsources")
    BY <1>1, FailGivesUp
  <1>2. CASE ~Fail("logsources")
    <2>1. /\ copy'[t] = [copy[t] EXCEPT !.logNs = NamespacesFor(copy[t].spec.log)]
          /\ pc' = "list" /\ kind' = kind /\ kind = "output"
      BY <1>2, GoingOn DEF Going, HandleLogSourceNamespaces, SetCopy, TypeOK, WorkerTypeOK, loopVars, HoldsOwn
    <2>2. copy'[t].spec = copy[t].spec /\ copy'[t].logNs = NamespacesFor(copy[t].spec.log)
      BY <2>1, GoingOn DEF TenantObj
    <2>3. /\ copy[t].spec = store[t].spec
          /\ NamespacesFor(store[t].spec.log)' = NamespacesFor(store[t].spec.log)
      BY StillSame DEF Going, Progress
    <2> QED BY <2>1, <2>2, <2>3, GoingOn DEF Progress
  <1> QED BY <1>1, <1>2

\* What stays true of a step of the two passes that keeps the copy of t.
PassKept(t) ==
    /\ copy'[t] = copy[t] /\ kind' = kind /\ outs' = outs
    /\ kind = "subscription" => TrueCopies(outs)'

LEMMA PassOn ==
    ASSUME NEW t, Going(t), PassKept(t), pc \in {"list", "claim", "release"}
    PROVE  /\ pc' = "claim" /\ Claiming(t)' /\ TrueCopies(mine \cup todo)' => Progress(t)'
           /\ pc' = "release" /\ Releasing(t)' /\ TrueCopies(mine \cup todo)' => Progress(t)'
  <1> USE DEF At
  <1>1. /\ copy'[t].spec = store'[t].spec
        /\ copy'[t].logNs = NamespacesFor(store[t].spec.log)'
    BY GoingOn, StillSame DEF Going, Progress, PassKept
  <1>2. kind' = "subscription" => Sorted(t, "output")' /\ outs' = OwnOf(t, "output")' /\ TrueCopies(outs)'
    BY StillSame DEF Going, Progress, PassKept
  <1> QED BY <1>1, <1>2 DEF Progress

LEMMA GoList ==
    ASSUME NEW t, Going(t), ListOwned
    PROVE  GivenUp(t)' \/ Progress(t)'
  <1> USE DEF At
  <1>1. CASE Fail("owned")
    BY <1>1, FailGivesUp
  <1>2. CASE ~Fail("owned")
    <2>1. PICK xs, k : xs = Chosen(t) \cap OfKind(kind) /\ k = kind
      OBVIOUS
    <2>2. k \in {"output", "subscription"} /\ OfKind(k) \subseteq Owned /\ xs \in SUBSET Owned
      BY <2>1, GoingOn
    <2>3. Selected(t, k) = xs
      BY <2>1, GoingOn DEF Selected, Chosen, NamespacesFor, Going, Progress
    <2>4. /\ Read(xs) /\ pc = "list" /\ pc' = "claim" /\ kind' = k /\ outs' = outs
          /\ mine' = {r \in xs : OwnedBy(r, t)} /\ todo' = {r \in xs : ~OwnedBy(r, t)}
      BY <1>2, <2>1, <2>3 DEF ListOwned, Going
    <2>5. \A r \in xs : OwnedBy(r, t) <=> store[r].tenant = t
      BY <2>2, GoingOn DEF OwnedBy
    <2>6. mine' \cup todo' = xs /\ TrueCopies(mine \cup todo)'
      <3>1. mine' \cup todo' = xs
        BY <2>4
      <3> QED BY <2>2, <2>4, <3>1, ReadTruly DEF TrueCopies
    <2>7. PassKept(t)
      <3>1. k = "subscription" => TrueCopies(outs) /\ outs \cap xs = {} /\ outs \in SUBSET Owned
        BY <2>1, GoingOn DEF Going, Progress, Owned
      <3> QED BY <2>1, <2>2, <2>4, <3>1, ReadTruly DEF PassKept, TrueCopies
    <2>8. /\ mine' = OwnOf(t, k) \cap Chosen(t) /\ todo' \cap OwnOf(t, k) = {}
          /\ \A r \in Chosen(t) \cap OfKind(k) : r \in todo' \/ store[r].tenant # None
      BY <2>1, <2>2, <2>4, <2>5, GoingOn DEF OwnOf
    <2>9. Claiming(t)'
      BY <2>2, <2>4, <2>8, StillSame, GoingOn DEF Claiming, Going
    <2> QED BY <2>4, <2>6, <2>7, <2>9, PassOn
  <1> QED BY <1>1, <1>2

\* A resource of another tenant is left, and no other copy is touched.
LEMMA GoConflict ==
    ASSUME NEW t, Going(t), NEW r \in Owned, MarkConflict(r)
    PROVE  Progress(t)'
  <1> USE DEF At
  <1>1. PICK k : k = kind
    OBVIOUS
  <1>2. /\ pc = "claim" /\ pc' = "claim" /\ kind' = k /\ outs' = outs /\ mine' = mine
        /\ r \in todo /\ todo' = todo \ {r} /\ copy[r].tenant # None /\ Drop(r)
    BY <1>1 DEF MarkConflict, Conflicting
  <1>3. /\ Claiming(t) /\ TrueCopies(mine \cup todo) /\ r \notin mine /\ r \in OfKind(k)
        /\ k = "subscription" => TrueCopies(outs) /\ r \notin outs
    BY <1>1, <1>2, GoingOn DEF Going, Progress, HoldsOwn, TypeOK, WorkerTypeOK
  <1>4. /\ \A x \in Objects \ {r} : copy'[x] = copy[x]
        /\ fresh' = fresh \ {r}
    BY <1>2 DEF Drop
  <1>5. todo \subseteq Owned /\ mine \subseteq Owned /\ outs \subseteq Owned
    BY <1>2, GoingOn DEF Going, TypeOK, WorkerTypeOK, Owned
  <1>6. TrueCopies(mine \cup todo)'
    <2>1. \A q \in mine' \cup todo' : q \in fresh' /\ copy'[q] = store'[q]
      BY <1>2, <1>3, <1>4, <1>5, GoingOn DEF TrueCopies
    <2> QED BY <2>1 DEF TrueCopies
  <1>7. PassKept(t)
    <2>1. k = "subscription" => \A q \in outs : q \in fresh' /\ copy'[q] = store'[q]
      BY <1>3, <1>4, <1>5, GoingOn DEF TrueCopies
    <2> QED BY <1>1, <1>2, <1>4, <2>1, GoingOn DEF PassKept, TrueCopies
  <1>8. store[r].tenant # None
    BY <1>2, <1>3 DEF TrueCopies
  <1>9. Claiming(t)'
    BY <1>1, <1>2, <1>3, <1>8, StillSame, GoingOn DEF Claiming, Going
  <1> QED BY <1>2, <1>6, <1>7, <1>9, PassOn

\* An adoption or a disowning would be heard of.
LEMMA GoUnchanged ==
    ASSUME NEW t, Going(t), ~Swallowed, NEW r \in Owned
    PROVE  ~Adopt(r) /\ ~Disown(r)
  <1> USE DEF At
  <1>1. AsTaken(copy[r], t).tenant = t /\ AsTaken(copy[r], None).tenant = None
    BY GoingOn DEF AsTaken, Resource
  <1>2. ASSUME Adopt(r) PROVE FALSE
    <2>1. /\ pc = "claim" /\ pc' = pc /\ r \in todo
          /\ UpdateOk(r, AsTaken(copy[r], t)) \/ UpdateErr(r, AsTaken(copy[r], t))
      BY <1>2 DEF Adopt, Going
    <2>2. r \in fresh /\ r \in OfKind(kind) /\ r \notin OwnOf(t, kind)
      BY <2>1 DEF Going, Progress, Claiming, TrueCopies, TypeOK, WorkerTypeOK
    <2>3. UpdateOk(r, AsTaken(copy[r], t))
      BY <2>1, <2>2, FreshAnswered DEF Going
    <2>4. AsTaken(copy[r], t) = store[r]
      BY <2>3, IdleRequest
    <2> QED BY <1>1, <2>2, <2>4 DEF OwnOf
  <1>3. ASSUME Disown(r) PROVE FALSE
    <2>1. /\ pc = "release" /\ pc' = pc /\ r \in todo
          /\ UpdateOk(r, AsTaken(copy[r], None)) \/ UpdateErr(r, AsTaken(copy[r], None))
      BY <1>3 DEF Disown
    <2>2. r \in fresh /\ r \in OwnOf(t, kind)
      BY <2>1 DEF Going, Progress, Releasing, TrueCopies
    <2>3. UpdateOk(r, AsTaken(copy[r], None))
      BY <2>1, <2>2, FreshAnswered DEF Going
    <2>4. AsTaken(copy[r], None) = store[r]
      BY <2>3, IdleRequest
    <2> QED BY <1>1, <2>2, <2>4, GoingOn DEF OwnOf
  <1> QED BY <1>2, <1>3

LEMMA GoReferencing ==
    ASSUME NEW t, Going(t), ListReferencing
    PROVE  Progress(t)'
  <1> USE DEF At
  <1>1. PICK xs, k : xs = OwnOf(t, kind) \ mine /\ k = kind
    OBVIOUS
  <1>2. k \in {"output", "subscription"} /\ OfKind(k) \subseteq Owned /\ xs \in SUBSET Owned
    BY <1>1, GoingOn DEF OwnOf
  <1>3. Unselected(t, k) = xs
    BY <1>1, <1>2, GoingOn DEF Unselected, OwnOf
  <1>4. /\ Read(xs) /\ pc = "claim" /\ pc' = "release" /\ kind' = k /\ outs' = outs
        /\ mine' = mine /\ todo' = xs /\ todo = {}
    BY <1>1, <1>3 DEF ListReferencing, Going
  <1>5. Claiming(t) /\ TrueCopies(mine) /\ mine \in SUBSET Owned
    BY <1>4, GoingOn DEF Going, Progress, TrueCopies
  <1>6. TrueCopies(mine \cup todo)'
    <2>1. mine \cap xs = {}
      BY <1>1
    <2>2. TrueCopies(xs)' /\ TrueCopies(mine)'
      <3>1. \A rs \in SUBSET Owned : TrueCopies(rs) /\ rs \cap xs = {} => TrueCopies(rs)'
        BY <1>2, <1>4, ReadTruly
      <3>2. TrueCopies(xs)'
        BY <1>2, <1>4, ReadTruly
      <3> QED BY <1>4, <1>5, <2>1, <3>1, <3>2 DEF TrueCopies
    <2> QED BY <1>4, <2>2 DEF TrueCopies
  <1>7. PassKept(t)
    <2>1. k = "subscription" => TrueCopies(outs) /\ outs \cap xs = {} /\ outs \in SUBSET Owned
      BY <1>1, GoingOn DEF Going, Progress, Owned, OwnOf
    <2> QED BY <1>1, <1>2, <1>4, <2>1, ReadTruly DEF PassKept, TrueCopies
  <1>8. Claimed(t, k) /\ mine = OwnOf(t, k) \cap Chosen(t)
    BY <1>1, <1>4, <1>5 DEF Claiming, Claimed
  <1>9. Releasing(t)'
    BY <1>1, <1>2, <1>4, <1>8, StillSame DEF Releasing, Going
  <1> QED BY <1>4, <1>6, <1>7, <1>9, PassOn

\* The end of a pass: what has t for its tenant is selected, and listed.
LEMMA PassDone ==
    ASSUME NEW t, Going(t), At("release"), todo = {}
    PROVE  Sorted(t, kind) /\ mine = OwnOf(t, kind) /\ TrueCopies(mine)
  BY DEF Going, Progress, Releasing, Sorted, At, TrueCopies

LEMMA GoFinishOutputs ==
    ASSUME NEW t, Going(t), FinishOutputs
    PROVE  GivenUp(t)' \/ Progress(t)'
  <1> USE DEF At
  <1>1. CASE Fail("owned")
    BY <1>1, FailGivesUp
  <1>2. CASE ~Fail("owned")
    <2>1. /\ pc = "release" /\ todo = {} /\ kind = "output" /\ outs' = mine /\ kind' = "subscription"
          /\ pc' = "list" /\ UNCHANGED <<copy, fresh>>
      BY <1>2 DEF FinishOutputs
    <2>2. Sorted(t, "output") /\ mine = OwnOf(t, "output") /\ TrueCopies(mine) /\ mine \subseteq Owned
      BY <2>1, PassDone, GoingOn
    <2>3. Sorted(t, "output")' /\ outs' = OwnOf(t, "output")'
      BY <2>1, <2>2, StillSame DEF Going
    <2>4. TrueCopies(outs)'
      BY <2>1, <2>2, GoingOn DEF TrueCopies
    <2>5. /\ copy'[t].spec = store'[t].spec
          /\ copy'[t].logNs = NamespacesFor(store[t].spec.log)'
      BY <2>1, GoingOn, StillSame DEF Going, Progress
    <2> QED BY <2>1, <2>3, <2>4, <2>5 DEF Progress
  <1> QED BY <1>1, <1>2

\* A step of the validation: what goes on and what has to be shown anew.
ValidationKept(t) ==
    /\ kind = "subscription" /\ UNCHANGED <<kind, mine, outs>>
    /\ copy'[t].spec = copy[t].spec /\ copy'[t].logNs = copy[t].logNs
    /\ pc \notin {"logsources", "publish"} /\ TrueCopies(mine \cup outs)'

LEMMA ValidationOn ==
    ASSUME NEW t, Going(t), ValidationKept(t), pc' \in {"validate", "outputs"}, Validating(t)'
    PROVE  Progress(t)'
  <1> USE DEF At
  <1>1. /\ copy'[t].spec = store'[t].spec
        /\ copy'[t].logNs = NamespacesFor(store[t].spec.log)'
    BY GoingOn, StillSame DEF Going, Progress, ValidationKept
  <1>2. Sorted(t, "output")' /\ outs' = OwnOf(t, "output")'
    BY StillSame DEF Going, Progress, ValidationKept
  <1>3. TrueCopies(mine)' /\ TrueCopies(outs)'
    BY DEF TrueCopies, ValidationKept
  <1> QED BY <1>1, <1>2, <1>3 DEF Progress

LEMMA GoValidation ==
    ASSUME NEW t, Going(t), BeginValidation
    PROVE  Progress(t)'
  <1> USE DEF At
  <1>1. /\ pc = "release" /\ todo = {} /\ kind = "subscription" /\ pc' = "validate" /\ todo' = mine
        /\ UNCHANGED <<kind, mine, outs, fresh>>
        /\ copy' = [copy EXCEPT ![t] = [copy[t] EXCEPT !.subs = mine]]
    BY DEF BeginValidation, SetCopy, Going
  <1>2. /\ copy'[t].subs = mine /\ copy'[t].spec = copy[t].spec /\ copy'[t].logNs = copy[t].logNs
        /\ \A r \in Owned : copy'[r] = copy[r]
    BY <1>1, GoingOn DEF Going, TypeOK, WorkerTypeOK, TenantObj
  <1>3. Sorted(t, "subscription") /\ mine = OwnOf(t, "subscription") /\ TrueCopies(mine)
    BY <1>1, PassDone
  <1>4. TrueCopies(outs) /\ outs \subseteq Owned /\ mine \subseteq Owned
    BY <1>1, GoingOn DEF Going, Progress, Owned
  <1>5. TrueCopies(mine \cup outs)'
    BY <1>1, <1>2, <1>3, <1>4, GoingOn DEF TrueCopies
  <1>6. Validating(t)'
    BY <1>1, <1>2, <1>3, StillSame DEF Validating, Going
  <1> QED BY <1>1, <1>2, <1>5, <1>6, ValidationOn DEF ValidationKept

\* During the validation.
LEMMA InValidation ==
    ASSUME NEW t, Going(t), pc \in {"validate", "outputs"}
    PROVE  /\ kind = "subscription" /\ Validating(t) /\ TrueCopies(mine \cup outs)
           /\ mine \subseteq Subscriptions /\ mine \subseteq Owned /\ outs \subseteq Owned
           /\ Sorted(t, "subscription")' /\ mine = OwnOf(t, "subscription")'
           /\ \A s \in mine \ todo : store[s].state = "failed" \/ Served(t, s) =>
                store'[s].state = "failed" \/ Served(t, s)'
  <1>1. kind = "subscription" /\ Validating(t) /\ TrueCopies(mine) /\ TrueCopies(outs)
    BY DEF Going, Progress, HoldsOwn
  <1>2. mine \subseteq Subscriptions /\ mine \subseteq Owned /\ outs \subseteq Owned
    BY <1>1, GoingOn DEF OfKind, Owned
  <1>3. Sorted(t, "subscription")' /\ mine = OwnOf(t, "subscription")'
    BY <1>1, StillSame DEF Going, Validating
  <1>4. ASSUME NEW s \in mine, store[s].state = "failed" \/ Served(t, s)
        PROVE  store'[s].state = "failed" \/ Served(t, s)'
    BY <1>2, <1>4, StillSame, GoingOn DEF Going
  <1> QED BY <1>1, <1>2, <1>3, <1>4 DEF TrueCopies

LEMMA GoPick ==
    ASSUME NEW t, Going(t), NEW s \in Subscriptions, PickSubscription(s)
    PROVE  Progress(t)'
  <1> USE DEF At
  <1>1. /\ pc = "validate" /\ s \in todo /\ todo' = todo \ {s} /\ sub' = s /\ valid' = {} /\ pc' = "outputs"
        /\ UNCHANGED <<kind, mine, outs, copy, fresh>>
    BY DEF PickSubscription
  <1>2. TrueCopies(mine \cup outs)'
    BY <1>1, InValidation, GoingOn DEF TrueCopies
  <1>3. Validating(t)'
    <2>1. \A q \in mine \ todo : store'[q].state = "failed" \/ Served(t, q)'
      BY <1>1, InValidation DEF Validating
    <2> QED BY <1>1, <2>1, InValidation DEF Validating
  <1> QED BY <1>1, <1>2, <1>3, InValidation, ValidationOn DEF ValidationKept

\* The copy of an output that has been looked at is what is stored, and the
\* output is ready if it counts as valid.
LEMMA OutputLookedAt ==
    ASSUME NEW t, Going(t), ~Swallowed, NEW o \in Outputs, CheckOutput(o) \/ SecretError(o)
    PROVE  /\ \/ UNCHANGED <<copy, fresh>>
              \/ /\ copy'[o] = store[o] /\ fresh' = fresh
                 /\ \A x \in Objects \ {o} : copy'[x] = copy[x]
           /\ valid' = valid \/ (valid' = valid \cup {o} /\ store[o].state = "ready")
  <1> USE DEF At
  <1>1. /\ pc = "outputs" /\ pc' = pc /\ o \in Owned /\ o \in Objects /\ copy[o] \in Resource
        /\ o \in outs => o \in fresh
    <2>1. pc = "outputs" /\ pc' = pc
      BY DEF CheckOutput, SecretError
    <2> QED BY <2>1, InValidation, GoingOn DEF TrueCopies, Owned
  <1>2. \A v : o \in outs => ~UpdateErr(o, v)
    BY <1>1, FreshAnswered DEF Going
  <1>3. ASSUME NEW v, SetCopy(o, v)
        PROVE  copy'[o] = v /\ \A x \in Objects \ {o} : copy'[x] = copy[x]
    BY <1>1, <1>3 DEF SetCopy, Going, TypeOK, WorkerTypeOK
  <1>4. CASE RejectUnknown(o)
    BY <1>4 DEF RejectUnknown
  <1>5. CASE RejectInvalid(o, Wrong(o))
    <2>1. PICK v : v = AsInvalid(copy[o], Wrong(o))
      OBVIOUS
    <2>2. UpdateOk(o, v) /\ fresh' = fresh /\ SetCopy(o, v) /\ valid' = valid
      BY <1>2, <1>5, <2>1 DEF RejectInvalid
    <2> QED BY <1>1, <1>3, <2>2, IdleRequest
  <1>6. CASE Accept(o)
    <2>1. PICK v : v = AsReady(copy[o])
      OBVIOUS
    <2>2. UpdateOk(o, v) /\ fresh' = fresh /\ SetCopy(o, v) /\ valid' = valid \cup {o}
      BY <1>2, <1>6, <2>1 DEF Accept
    <2>3. v.state = "ready"
      BY <1>1, <2>1 DEF AsReady, Resource
    <2> QED BY <1>1, <1>3, <2>2, <2>3, IdleRequest
  <1>7. ~SecretError(o)
    <2>1. spent' # [spent EXCEPT !["faults"] = @ + 1]
      BY <1>1 DEF Swallowed, Going, TypeOK, EnvTypeOK
    <2> QED BY <2>1 DEF SecretError, Spend
  <1> QED BY <1>4, <1>5, <1>6, <1>7 DEF CheckOutput

LEMMA GoOutput ==
    ASSUME NEW t, Going(t), ~Swallowed, NEW o \in Outputs, CheckOutput(o) \/ SecretError(o)
    PROVE  Progress(t)'
  <1> USE DEF At
  <1>1. pc = "outputs" /\ pc' = "outputs" /\ UNCHANGED <<kind, mine, outs, todo, sub>>
    BY DEF CheckOutput, SecretError
  <1>2. /\ \A x \in Objects : copy'[x] = copy[x] \/ (x = o /\ copy'[x] = store[x])
        /\ fresh' = fresh /\ o \in Owned /\ copy'[t] = copy[t]
    BY OutputLookedAt, GoingOn DEF Owned
  <1>3. TrueCopies(mine \cup outs)'
    <2>1. \A r \in mine \cup outs : r \in fresh' /\ copy'[r] = store'[r]
      BY <1>1, <1>2, InValidation, GoingOn DEF TrueCopies
    <2> QED BY <1>1, <2>1 DEF TrueCopies
  <1>4. Validating(t)'
    <2>1. \A q \in mine \ todo : q = sub \/ store'[q].state = "failed" \/ Served(t, q)'
      BY <1>1, InValidation DEF Validating
    <2>2. \A q \in valid : store[q].state = "ready" /\ q \in Owned
      BY <1>1, InValidation DEF Validating, Going, HoldsOwn
    <2>3. \A q \in valid' : store'[q].state = "ready"
      BY <1>2, <2>2, OutputLookedAt, GoingOn
    <2> QED BY <1>1, <1>2, <2>1, <2>3, InValidation DEF Validating
  <1> QED BY <1>1, <1>2, <1>3, <1>4, InValidation, ValidationOn DEF ValidationKept

\* A subscription whose status stays as it is failed, or all it refers to is
\* there for t.
LEMMA GoUpdateSubscription ==
    ASSUME NEW t, Going(t), UpdateSubscription
    PROVE  GivenUp(t)' \/ Progress(t)'
  <1> USE DEF At
  <1>1. CASE Fail("owned")
    BY <1>1, FailGivesUp
  <1>2. CASE ~Fail("owned")
    <2>1. PICK v : v = Validated(sub)
      OBVIOUS
    <2>2. /\ pc = "outputs" /\ pc' = "validate" /\ UpdateOk(sub, v) /\ SetCopy(sub, v)
          /\ UNCHANGED <<kind, mine, outs, todo, fresh>>
      BY <1>2, <2>1 DEF UpdateSubscription
    <2>3. sub \in mine /\ sub \in Subscriptions /\ sub \in Owned /\ sub \in Objects
      BY <2>2, InValidation, GoingOn DEF Going, HoldsOwn
    <2>4. v = store[sub]
      BY <2>2, <2>3, IdleRequest
    <2>5. copy'[sub] = store[sub] /\ \A x \in Objects \ {sub} : copy'[x] = copy[x]
      BY <2>2, <2>3, <2>4 DEF SetCopy, Going, TypeOK, WorkerTypeOK
    <2>6. TrueCopies(mine \cup outs)'
      <3>1. \A r \in mine \cup outs : r \in fresh' /\ copy'[r] = store'[r]
        BY <2>2, <2>5, InValidation, GoingOn DEF TrueCopies
      <3> QED BY <2>2, <3>1 DEF TrueCopies
    <2>7. store[sub].state = "failed" \/ Served(t, sub)
      <3>1. copy[sub] \in Resource
        BY <2>3, GoingOn
      <3>2. CASE valid = copy[sub].refs
        <4>1. v.state = "ready" /\ v.outputs = valid /\ v.refs = valid
          BY <2>1, <3>1, <3>2 DEF Validated, Resource
        <4>2. \A o \in valid : store[o].tenant = t /\ store[o].state = "ready"
          <5>1. valid \subseteq OwnOf(t, "output")
            BY <2>2, InValidation DEF Going, HoldsOwn, Progress
          <5> QED BY <2>2, <5>1, InValidation DEF OwnOf, Validating
        <4> QED BY <2>4, <4>1, <4>2 DEF Served
      <3>3. CASE valid # copy[sub].refs
        BY <2>1, <2>4, <3>1, <3>3 DEF Validated, Resource
      <3> QED BY <3>2, <3>3
    <2>8. Validating(t)'
      <3>1. \A q \in mine \ todo : store[q].state = "failed" \/ Served(t, q)
        BY <2>2, <2>7, InValidation DEF Validating
      <3>2. \A q \in mine \ todo : store'[q].state = "failed" \/ Served(t, q)'
        BY <2>2, <3>1, InValidation
      <3>3. copy'[t].subs = mine
        BY <2>2, <2>3, <2>5, InValidation, GoingOn DEF Validating
      <3> QED BY <2>2, <3>2, <3>3, InValidation DEF Validating
    <2>9. copy'[t] = copy[t]
      BY <2>3, <2>5, GoingOn
    <2> QED BY <2>2, <2>6, <2>8, <2>9, InValidation, ValidationOn DEF ValidationKept
  <1> QED BY <1>1, <1>2

\* Once the resources are done with, only the tenant is left.
ReportKept(t) ==
    /\ kind' = "output" /\ pc # "logsources"
    /\ copy'[t].spec = copy[t].spec /\ copy'[t].logNs = copy[t].logNs /\ copy'[t].subs = copy[t].subs

LEMMA ReportOn ==
    ASSUME NEW t, Going(t), ReportKept(t), Reported(t),
           \/ pc' = "source"
           \/ pc' = "target" /\ todo' = BridgesAt(t, "source") \X {"source"}
           \/ /\ pc' \in {"bridges", "publish"}
              /\ copy'[t].bridges = BridgesAt(t, "source") \cup BridgesAt(t, "target")
              /\ pc' = "publish" => copy'[t].state = "ready" /\ copy'[t].problems = {}
    PROVE  Progress(t)'
  <1> USE DEF At
  <1>1. /\ copy'[t].spec = store'[t].spec
        /\ copy'[t].logNs = NamespacesFor(store[t].spec.log)'
    BY GoingOn, StillSame DEF Going, Progress, ReportKept
  <1>2. Reported(t)'
    <2>1. copy[t].subs \subseteq Subscriptions
      BY GoingOn DEF TenantObj
    <2> QED BY <2>1, StillSame DEF Going, Reported, ReportKept
  <1>3. /\ BridgesAt(t, "source")' = BridgesAt(t, "source")
        /\ BridgesAt(t, "target")' = BridgesAt(t, "target")
    BY StillSame DEF Going, Sides
  <1>4. kind' = "output"
    BY DEF ReportKept
  <1>5. CASE pc' = "source"
    BY <1>1, <1>2, <1>4, <1>5 DEF Progress
  <1>6. CASE pc' = "target" /\ todo' = BridgesAt(t, "source") \X {"source"}
    BY <1>1, <1>2, <1>3, <1>4, <1>6 DEF Progress
  <1>7. CASE /\ pc' \in {"bridges", "publish"}
             /\ copy'[t].bridges = BridgesAt(t, "source") \cup BridgesAt(t, "target")
             /\ pc' = "publish" => copy'[t].state = "ready" /\ copy'[t].problems = {}
    BY <1>1, <1>2, <1>3, <1>4, <1>7 DEF Progress
  <1> QED BY <1>5, <1>6, <1>7

LEMMA GoCheck ==
    ASSUME NEW t, Going(t), CheckSubscriptions
    PROVE  GivenUp(t)' \/ Progress(t)'
  <1> USE DEF At
  <1>1. CASE Fail("owned")
    BY <1>1, FailGivesUp
  <1>2. CASE ~Fail("owned")
    <2>1. /\ pc = "validate" /\ todo = {} /\ ~AnyFailed(mine) /\ pc' = "source" /\ kind' = "output"
          /\ copy'[t] = copy[t]
      BY <1>2, GoingOn DEF CheckSubscriptions, KeepTenant, ClearLoop, Going
    <2>2. \A s \in mine : Served(t, s)
      <3>1. \A s \in mine : store[s].state # "failed"
        BY <2>1, InValidation DEF AnyFailed, TrueCopies
      <3> QED BY <2>1, <3>1, InValidation DEF Validating
    <2>3. Reported(t)
      BY <2>1, <2>2, InValidation DEF Reported, Validating, Going, Progress
    <2> QED BY <2>1, <2>3, ReportOn DEF ReportKept
  <1> QED BY <1>1, <1>2

\* While the bridges are looked at.
LEMMA InReport ==
    ASSUME NEW t, Going(t), pc \in {"source", "target", "bridges", "publish"}
    PROVE  /\ Reported(t) /\ kind = "output"
           /\ \A side \in Sides : Listed(side) = BridgesAt(t, side)
  <1>1. Reported(t) /\ kind = "output"
    BY DEF Going, Progress
  <1>2. ASSUME NEW side \in Sides PROVE Listed(side) = BridgesAt(t, side)
    BY GoingOn DEF Listed, BridgesAt, Going
  <1> QED BY <1>1, <1>2

LEMMA GoBridgeLists ==
    ASSUME NEW t, Going(t), ListSourceBridges \/ ListTargetBridges
    PROVE  Progress(t)'
  <1> USE DEF At
  <1>1. CASE ListSourceBridges
    <2>1. PICK bs : bs = BridgesAt(t, "source")
      OBVIOUS
    <2>2. pc = "source" /\ Listed("source") = bs
      BY <1>1, <2>1, InReport DEF ListSourceBridges, Sides
    <2>3. /\ Read(bs) /\ pc' = "target" /\ kind' = kind
          /\ todo' = {<<b, "source">> : b \in bs}
      BY <1>1, <2>2 DEF ListSourceBridges
    <2>4. bs \in SUBSET (Owned \cup Bridges)
      BY <2>1 DEF BridgesAt
    <2>5. copy'[t] = copy[t]
      BY <2>3, <2>4, ReadTruly
    <2>6. todo' = bs \X {"source"}
      BY <2>3
    <2> QED BY <2>1, <2>2, <2>3, <2>5, <2>6, InReport, ReportOn DEF ReportKept
  <1>2. CASE ListTargetBridges
    <2>1. PICK bs, cs : bs = BridgesAt(t, "source") /\ cs = BridgesAt(t, "target")
      OBVIOUS
    <2>2. pc = "target" /\ Listed("target") = cs /\ todo = bs \X {"source"}
      BY <1>2, <2>1, InReport DEF ListTargetBridges, Sides, Going, Progress
    <2>3. {p[1] : p \in todo} = bs
      <3>1. \A p \in todo : p[1] \in bs
        BY <2>2
      <3>2. \A b \in bs : <<b, "source">> \in todo /\ <<b, "source">>[1] = b
        BY <2>2
      <3> QED BY <3>1, <3>2, Zenon
    <2>4. pc' = "bridges" /\ kind' = kind /\ copy'[t] = [copy[t] EXCEPT !.bridges = bs \cup cs]
      <3>1. t \notin {b \in Listed("target") : <<b, "source">> \notin todo}
        BY GoingOn DEF Listed
      <3> QED BY <1>2, <2>2, <2>3, <3>1, GoingOn DEF ListTargetBridges, ReadBridges, Going
    <2>5. /\ copy'[t].spec = copy[t].spec /\ copy'[t].logNs = copy[t].logNs
          /\ copy'[t].subs = copy[t].subs /\ copy'[t].bridges = bs \cup cs
      BY <2>4, GoingOn DEF TenantObj
    <2> QED BY <2>1, <2>2, <2>4, <2>5, InReport, ReportOn DEF ReportKept
  <1> QED BY <1>1, <1>2

LEMMA GoBridges ==
    ASSUME NEW t, Going(t),
           \/ FinishBridges
           \/ \E b \in Bridges, side \in Sides :
                RejectBridge(b, side) \/ AcceptBridge(b, side) \/ BridgeQueryError(b, side)
    PROVE  GivenUp(t)' \/ Progress(t)'
  <1> USE DEF At
  <1>1. CASE \E step : Fail(step)
    BY <1>1, FailGivesUp
  <1>2. CASE /\ pc = "bridges" /\ pc' = "bridges" /\ UNCHANGED <<kind, copy>>
    BY <1>2, InReport, ReportOn DEF ReportKept, Going, Progress
  <1>3. CASE FinishBridges
    <2>1. pc = "bridges" /\ pc' = "publish" /\ kind' = "output" /\ copy'[t] = AsReady(copy[t])
      BY <1>3, GoingOn DEF FinishBridges, KeepTenant, ClearLoop, Going
    <2>2. /\ copy'[t].spec = copy[t].spec /\ copy'[t].logNs = copy[t].logNs
          /\ copy'[t].subs = copy[t].subs /\ copy'[t].bridges = copy[t].bridges
          /\ copy'[t].state = "ready" /\ copy'[t].problems = {}
      BY <2>1, GoingOn DEF AsReady, TenantObj
    <2>3. copy[t].bridges = BridgesAt(t, "source") \cup BridgesAt(t, "target")
      BY <2>1 DEF Going, Progress
    <2> QED BY <2>1, <2>2, <2>3, InReport, ReportOn DEF ReportKept
  <1> QED BY <1>1, <1>2, <1>3 DEF RejectBridge, AcceptBridge, BridgeQueryError, NextBridge

\* A status that is published and changes nothing is the one of a ready tenant.
LEMMA GoPublish ==
    ASSUME NEW t, Going(t), Publish, ~Attended(t)'
    PROVE  cur' # t /\ Consistent(t)'
  <1> USE DEF At
  <1>1. cur' # t
    BY GoingOn DEF Publish, BecomeIdle
  <1>2. pc = "publish" /\ Put(t, copy[t])
    BY DEF Publish, Requeue, Attended, Going
  <1>3. store'[t] = copy[t] /\ store[t] = copy[t]
    BY <1>2, GoingOn DEF Put, Going, TypeOK, ApiTypeOK
  <1>4. Consistent(t)
    BY <1>2, <1>3, InReport DEF Consistent, Reported, Going, Progress
  <1> QED BY <1>1, <1>4, StaysConsistent DEF Going

-----------------------------------------------------------------------------
(* The invariant *)

\* The worker's own steps for t.
LEMMA GoWorking ==
    ASSUME NEW t, Going(t), ~Swallowed, Working, ~Publish
    PROVE  cur' = t /\ (GivenUp(t)' \/ Progress(t)')
  <1>1. cur' = t
    BY WorkingOn DEF Going
  <1>2. ReadError => GivenUp(t)'
    BY FailGivesUp DEF ReadError
  <1>3. \A r \in Owned : MarkConflict(r) \/ Adopt(r) \/ Disown(r) => Progress(t)'
    BY GoConflict, GoUnchanged
  <1> QED
    BY <1>1, <1>2, <1>3, GoLogSources, GoList, GoReferencing, GoFinishOutputs, GoValidation, GoPick,
       GoOutput, GoUpdateSubscription, GoCheck, GoBridgeLists, GoBridges
    DEF Working, WorkerStep, Failure

\* Other steps leave the worker and its copies of what t is about alone.
LEMMA GoOthers ==
    ASSUME NEW t, Going(t), [Next]_vars, ~Working, ~Attended(t)'
    PROVE  cur' = t /\ Progress(t)'
  <1> USE DEF At
  <1>1. ~Restart /\ \A u \in Tenants : ~StartReconcile(u)
    <2>1. cur # None
      BY GoingOn DEF Going
    <2> QED BY <2>1 DEF Restart, InitialSync, Attended, StartReconcile, Going, TypeOK, WorkerTypeOK
  <1>2. UNCHANGED workerVars
    BY <1>1, NotWorking DEF Going
  <1>3. UNCHANGED <<pc, cur, kind, mine, outs, todo, sub, valid, copy>>
    BY <1>2 DEF workerVars, loopVars
  <1>4. \A x \in Owned : x \in fresh => x \in fresh'
    <2>1. CASE UNCHANGED fresh
      BY <2>1
    <2>2. ASSUME NEW y \in Objects, NEW v, Edit(y, v)
          PROVE  \A x \in Owned : x \in fresh => x \in fresh'
      <3>1. fresh' = fresh \ {y} /\ store'[y] # store[y]
        BY <2>2 DEF Edit, Put, Going, TypeOK, ApiTypeOK
      <3> QED BY <3>1, GoingOn
    <2> QED BY <1>1, <2>1, <2>2, UserWrite DEF Next, Working, Failure, DeliverEvent, vars, Going
  <1>5. ASSUME NEW rs \in SUBSET Owned, TrueCopies(rs) PROVE TrueCopies(rs)'
    BY <1>3, <1>4, <1>5, GoingOn DEF TrueCopies
  <1>6. mine \subseteq Owned /\ outs \subseteq Owned /\ (pc \in {"claim", "release"} => todo \subseteq Owned)
    BY GoingOn DEF Going, TypeOK, WorkerTypeOK, Owned
  <1>7. /\ TrueCopies(outs) => TrueCopies(outs)'
        /\ TrueCopies(mine) => TrueCopies(mine)'
        /\ pc \in {"claim", "release"} /\ TrueCopies(mine \cup todo) => TrueCopies(mine \cup todo)'
    BY <1>3, <1>5, <1>6 DEF TrueCopies
  <1>8. PICK k \in {"output", "subscription"} : k = kind
    BY GoingOn
  <1>9. Claiming(t) => Claiming(t)'
    BY <1>3, <1>8, StillSame, GoingOn DEF Claiming, Going
  <1>10. Releasing(t) => Releasing(t)'
    BY <1>3, <1>8, StillSame DEF Releasing, Going
  <1>11. pc \in {"validate", "outputs"} => Validating(t)'
    <2>1. ASSUME pc \in {"validate", "outputs"} PROVE Validating(t)'
      <3>1. pc = "outputs" => \A o \in valid : store'[o].state = "ready"
        BY <2>1, InValidation, GoingOn DEF Validating, Going, HoldsOwn
      <3> QED BY <1>3, <2>1, <3>1, InValidation DEF Validating
    <2> QED BY <2>1
  <1>12. Reported(t) => Reported(t)'
    <2>1. copy[t].subs \subseteq Subscriptions
      BY GoingOn DEF TenantObj
    <2> QED BY <1>3, <2>1, StillSame DEF Going, Reported
  <1>13. /\ copy'[t].spec = store'[t].spec
         /\ ~At("logsources") => copy'[t].logNs = NamespacesFor(store[t].spec.log)'
    BY <1>3, GoingOn, StillSame DEF Going, Progress
  <1>14. kind = "subscription" => Sorted(t, "output")' /\ outs' = OwnOf(t, "output")'
    BY <1>3, StillSame DEF Going, Progress
  <1>15. /\ BridgesAt(t, "source")' = BridgesAt(t, "source")
         /\ BridgesAt(t, "target")' = BridgesAt(t, "target")
    BY StillSame DEF Going, Sides
  <1>16. Progress(t)
    BY DEF Going
  <1>17. cur' = t
    BY <1>3 DEF Going
  <1> QED BY <1>3, <1>7, <1>9, <1>10, <1>11, <1>12, <1>13, <1>14, <1>15, <1>16, <1>17 DEF Progress

LEMMA GivenUpStays ==
    ASSUME TypeOK, [Next]_vars, NEW t \in Tenants, cur = t, GivenUp(t), ~Attended(t)'
    PROVE  cur' = t /\ GivenUp(t)'
  <1> USE DEF At
  <1>1. pc = "publish" /\ copy[t].state = "failed" /\ cur # None
    BY KindOf DEF GivenUp
  <1>2. ~Publish
    BY <1>1 DEF Publish, Requeue, Attended
  <1>3. ~Working
    BY <1>1, <1>2 DEF Working, WorkerStep, Failure, HandleLogSourceNamespaces, ListOwned, ListReferencing,
       FinishOutputs, BeginValidation, MarkConflict, Adopt, Disown, PickSubscription, CheckOutput,
       UpdateSubscription, CheckSubscriptions, ListSourceBridges, ListTargetBridges, RejectBridge,
       AcceptBridge, NextBridge, FinishBridges, ReadError, SecretError, BridgeQueryError
  <1>4. ~Restart /\ \A u \in Tenants : ~StartReconcile(u)
    BY <1>1 DEF Restart, InitialSync, Attended, StartReconcile
  <1>5. UNCHANGED workerVars
    BY <1>3, <1>4, NotWorking
  <1> QED BY <1>1, <1>5 DEF GivenUp, workerVars

\* A reconciliation that starts with what is stored.
LEMMA StartsWell ==
    ASSUME TypeOK, HoldsOwn, NEW t \in Tenants, StartReconcile(t), cache[t].exists, UNCHANGED apiVars,
           cache[t] = store[t]
    PROVE  cur' = t /\ Progress(t)'
  <1>1. pc' = "logsources" /\ cur' = t /\ kind' = "output" /\ copy'[t] = store'[t]
    BY KindOf DEF StartReconcile, Read, loopVars, HoldsOwn, At, apiVars
  <1> QED BY <1>1 DEF Progress, At

LEMMA ProgressStep ==
    TypeOK /\ TypeOK' /\ OwnershipInv /\ HoldsOwn /\ ProgressInv /\ [Next]_vars /\ [~Swallowed]_vars
      => ProgressInv'
  <1> SUFFICES ASSUME TypeOK, TypeOK', OwnershipInv, HoldsOwn, ProgressInv, [Next]_vars,
                      [~Swallowed]_vars, NEW t \in Tenants, ~Attended(t)'
               PROVE  IF cur' = t THEN GivenUp(t)' \/ Progress(t)' ELSE Consistent(t)'
    BY DEF ProgressInv
  <1>0. ~Swallowed
    BY DEF Swallowed, vars
  <1>1. CASE /\ StartReconcile(t) /\ cache[t].exists /\ UNCHANGED <<apiVars, nsLabel>>
             /\ \A x \in Watched(t) : CacheCurrent(x) /\ cache[x] = store[x]
    BY <1>1, StartsWell DEF Watched
  <1>2. CASE Still(t) /\ ~StartReconcile(t)
    <2>1. IF cur = t THEN GivenUp(t) \/ Progress(t) ELSE Consistent(t)
      BY <1>2 DEF ProgressInv, Still
    <2>2. CASE cur # t
      <3>1. cur' # t
        <4>1. cur' = cur \/ cur' = None \/ \E u \in Tenants : StartReconcile(u) /\ cur' = u
          BY WorkingOn, NotWorking DEF Publish, BecomeIdle, workerVars, Restart, StartReconcile
        <4> QED BY <1>2, <2>2, <4>1, KindOf
      <3> QED BY <1>2, <2>1, <2>2, <3>1, StaysConsistent
    <2>3. CASE cur = t /\ GivenUp(t)
      BY <2>3, GivenUpStays
    <2>4. CASE cur = t /\ Progress(t)
      <3>1. Going(t)
        BY <1>2, <2>4 DEF Going
      <3> QED BY <1>0, <3>1, GoPublish, GoWorking, GoOthers
    <2> QED BY <2>1, <2>2, <2>3, <2>4
  <1> QED BY <1>1, <1>2, StillOrStarted DEF OwnershipInv

LEMMA ProgressInitial == Init => ProgressInv
  <1> SUFFICES ASSUME Init, NEW t \in Tenants PROVE Attended(t)
    BY DEF ProgressInv
  <1>1. t \notin Deployed => ~store[t].exists
    BY AbsentType, KindOf DEF Init, InitialObject
  <1>2. t \in Deployed => t \in queue
    BY DEF Init
  <1> QED BY <1>1, <1>2 DEF Attended

\* The inductive invariant behind SettledConsistent: a tenant that nothing
\* queues is consistent, or its reconciliation has made sure of what it has
\* been through. Reconcile reads from the cache, and every write it makes is
\* heard of through the watches of SetupWithManager.
THEOREM ProgressInvariant == Spec /\ NothingSwallowed => []ProgressInv
  <1>1. TypeOK /\ [Next]_vars => TypeOK'
    BY NextType
  <1> QED BY TypeCorrect, OwnershipInvariant, HoldsOwnInvariant, ProgressInitial, ProgressStep, <1>1, PTL
    DEF Spec, NothingSwallowed

\* A tenant that exists, is neither queued nor at hand and of which all
\* events are in is ready, owns what it should own, lists its subscriptions,
\* bridges and namespaces, and its subscriptions have all their outputs ready,
\* however stale the reads were, whatever conflicted, was retried or restarted:
\* only a request that fails for another reason and is no more than logged in
\* UpdateResourcesForTenant, DisownResources or the validation of the
\* outputs can keep it from that.
THEOREM AlwaysSettledConsistent == Spec /\ NothingSwallowed => []SettledConsistent
  <1>1. ProgressInv => SettledConsistent
    BY KindOf DEF ProgressInv, SettledConsistent, LeftAlone, Attended, Watched
  <1> QED BY <1>1, ProgressInvariant, PTL
=============================================================================
