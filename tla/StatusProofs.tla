---------------------------- MODULE StatusProofs ----------------------------
(***************************************************************************)
(* What the tenant controller knows and reports of ownership, for every    *)
(* instance: how far a stale cache may be off, what a reconciliation holds *)
(* as its tenant's own, what it reports of it, and that failures are       *)
(* retried. The argument builds on OwnershipInv: while a tenant is being   *)
(* reconciled nobody else takes resources.                                 *)
(***************************************************************************)
EXTENDS OwnershipProofs

-----------------------------------------------------------------------------
(* A stale cache shows no other owner *)

LEMMA PutVersions ==
    ASSUME ApiTypeOK, NEW x \in Objects, NEW v \in Values(x), Put(x, v)
    PROVE  /\ \A y \in Objects \ {x} : Versions(y)' = Versions(y)
           /\ Versions(x)' \subseteq Versions(x) \cup {v}
  <1>1. \A y \in Objects \ {x} : pending'[y] = pending[y] /\ cache'[y] = cache[y]
    BY DEF Put, ApiTypeOK
  <1>2. cache'[x] = cache[x] /\ (pending'[x] = pending[x] \/ pending'[x] = Append(pending[x], v))
    BY DEF Put, ApiTypeOK
  <1>3. \A i \in DOMAIN Append(pending[x], v) :
          \/ i \in DOMAIN pending[x] /\ Append(pending[x], v)[i] = pending[x][i]
          \/ Append(pending[x], v)[i] = v
    <2>1. pending[x] \in Seq(Values(x))
      BY DEF ApiTypeOK
    <2> QED BY <2>1
  <1>4. Versions(x)' \subseteq Versions(x) \cup {v}
    BY <1>2, <1>3 DEF Versions
  <1> QED BY <1>1, <1>4 DEF Versions

LEMMA DeliverVersions ==
    ASSUME ApiTypeOK, NEW x \in Objects, Deliver(x)
    PROVE  \A y \in Objects : Versions(y)' \subseteq Versions(y)
  <1>1. \A y \in Objects \ {x} : pending'[y] = pending[y] /\ cache'[y] = cache[y]
    BY DEF Deliver, ApiTypeOK
  <1>2. pending[x] \in Seq(Values(x)) /\ pending[x] # <<>>
    BY DEF Deliver, ApiTypeOK
  <1>3. cache'[x] = Head(pending[x]) /\ pending'[x] = Tail(pending[x])
    BY DEF Deliver, ApiTypeOK
  <1>4. Head(pending[x]) = pending[x][1] /\ 1 \in DOMAIN pending[x]
    BY <1>2, EmptySeq
  <1>5. \A i \in DOMAIN Tail(pending[x]) : i + 1 \in DOMAIN pending[x] /\ Tail(pending[x])[i] = pending[x][i + 1]
    BY <1>2, HeadTailProperties
  <1>6. Versions(x)' \subseteq Versions(x)
    BY <1>3, <1>4, <1>5 DEF Versions
  <1> QED BY <1>1, <1>6 DEF Versions

\* The stored version is the last one on its way.
LEMMA StoredVersion ==
    ASSUME ApiTypeOK, CacheCoherent, NEW x \in Objects
    PROVE  store[x] \in Versions(x)
  <1>1. CASE pending[x] = <<>>
    BY <1>1 DEF CacheCoherent, Latest, Versions
  <1>2. CASE pending[x] # <<>>
    <2>1. pending[x] \in Seq(Values(x))
      BY DEF ApiTypeOK
    <2>2. Len(pending[x]) \in DOMAIN pending[x]
      BY <1>2, <2>1, EmptySeq
    <2> QED BY <1>2, <2>2 DEF CacheCoherent, Latest, Versions
  <1> QED BY <1>1, <1>2

LEMMA FewerVersions ==
    ASSUME OneOwner, \A r \in Owned : Versions(r)' \subseteq Versions(r)
    PROVE  OneOwner'
  BY DEF OneOwner

\* A write that keeps the tenant of the stored object, or empties it.
LEMMA QuietVersion ==
    ASSUME TypeOK, CacheCoherent, OneOwner, NEW x \in Objects, NEW v \in Values(x), Put(x, v),
           x \in Owned => v.tenant \in {store[x].tenant, None}
    PROVE  OneOwner'
  <1> SUFFICES ASSUME NEW r \in Owned
               PROVE  \E t \in Tenants \cup {None} : \A w \in Versions(r)' : w.tenant \in {t, None}
    BY DEF OneOwner
  <1>1. r \in Objects
    BY KindOf
  <1>2. PICK t \in Tenants \cup {None} : \A w \in Versions(r) : w.tenant \in {t, None}
    BY DEF OneOwner
  <1>3. r = x => v.tenant \in {t, None}
    BY <1>1, <1>2, StoredVersion DEF TypeOK
  <1>4. \A w \in Versions(r)' : w \in Versions(r) \/ (r = x /\ w = v)
    BY <1>1, PutVersions DEF TypeOK
  <1> QED BY <1>2, <1>3, <1>4

\* The worker writes at most one object, and no other version moves.
LEMMA QuietVersionWrite ==
    ASSUME TypeOK, CacheCoherent, OneOwner, NEW x \in Objects, NEW v \in Values(x),
           UpdateOk(x, v) \/ UpdateErr(x, v) \/ (x \in fresh /\ Put(x, v)) \/ UNCHANGED apiVars,
           x \in fresh \cap Owned => v.tenant \in {store[x].tenant, None}
    PROVE  OneOwner'
  <1>1. CASE UNCHANGED apiVars
    BY <1>1, FewerVersions DEF Versions, apiVars
  <1>2. CASE x \in fresh /\ Put(x, v)
    BY <1>2, QuietVersion
  <1> QED BY <1>1, <1>2 DEF UpdateOk, UpdateErr

LEMMA StreamLocal ==
    ASSUME StreamInv, UNCHANGED apiVars,
           \/ pc' # "claim"
           \/ pc = "claim" /\ todo' \subseteq todo /\ fresh' \subseteq fresh
           \/ \A r \in todo' \cap fresh' : CacheCurrent(r)
    PROVE  StreamInv'
  <1>1. OneOwner'
    BY FewerVersions DEF StreamInv, Versions, apiVars
  <1>2. ClaimsCurrent'
    BY DEF StreamInv, ClaimsCurrent, CacheCurrent, At, apiVars
  <1> QED BY <1>1, <1>2 DEF StreamInv

LEMMA StreamReadSteps ==
    ASSUME TypeOK, StreamInv,
           \/ \E t \in Tenants : StartReconcile(t)
           \/ HandleLogSourceNamespaces \/ ReadError \/ ListOwned \/ ListReferencing
           \/ ListSourceBridges \/ ListTargetBridges
           \/ FinishOutputs \/ BeginValidation \/ CheckSubscriptions \/ FinishBridges
           \/ \E s \in Subscriptions : PickSubscription(s)
    PROVE  StreamInv'
  <1> USE DEF At
  <1>1. UNCHANGED apiVars
    BY DEF StartReconcile, HandleLogSourceNamespaces, ReadError, ListOwned, ListReferencing,
       ListSourceBridges, ListTargetBridges, FinishOutputs, BeginValidation, CheckSubscriptions,
       FinishBridges, PickSubscription
  <1>2. CASE ListOwned /\ ~ \E step : Fail(step)
    <2>1. Read(Selected(cur, kind)) /\ todo' \subseteq Selected(cur, kind)
      BY <1>2 DEF ListOwned
    <2>2. \A r \in todo' \cap fresh' : CacheCurrent(r)
      BY <2>1 DEF Read
    <2> QED BY <1>1, <2>2, StreamLocal
  <1>3. CASE ~ListOwned \/ \E step : Fail(step)
    <2>1. pc' # "claim"
      BY <1>3 DEF StartReconcile, HandleLogSourceNamespaces, ReadError, ListReferencing,
         ListSourceBridges, ListTargetBridges, FinishOutputs, BeginValidation, CheckSubscriptions,
         FinishBridges, PickSubscription, Fail, workerVars
    <2> QED BY <1>1, <2>1, StreamLocal
  <1> QED BY <1>2, <1>3

\* What is not claimed any more need not be current.
LEMMA ClaimsFewer ==
    ASSUME ClaimsCurrent, NEW x,
           \A y \in Objects \ {x} : pending'[y] = pending[y],
           pc = "claim", fresh' \subseteq fresh, todo' \subseteq todo,
           todo \subseteq Objects, x \notin todo' \cap fresh'
    PROVE  ClaimsCurrent'
  BY DEF ClaimsCurrent, CacheCurrent, At

LEMMA StreamResourceSteps ==
    ASSUME TypeOK, OwnershipInv, StreamInv, NEW r \in Owned,
           MarkConflict(r) \/ Adopt(r) \/ Disown(r)
    PROVE  StreamInv'
  <1> USE DEF At
  <1>1. /\ r \in Objects /\ Values(r) = Resource /\ copy[r] \in Resource
        /\ cur \in Tenants /\ todo \subseteq Objects
    BY CopyTypes, KindOf DEF MarkConflict, Adopt, Disown, TypeOK, WorkerTypeOK, OfKind, Owned
  <1>2. \A u \in Tenants \cup {None} : AsTaken(copy[r], u) \in Values(r) /\ AsTaken(copy[r], u).tenant = u
    BY <1>1, WrittenResource DEF AsTaken, Resource
  <1>3. AsConflict(copy[r]) \in Values(r) /\ AsConflict(copy[r]).tenant = copy[r].tenant
    BY <1>1, WrittenResource DEF AsConflict, Resource
  <1>4. PICK v \in Values(r) :
          /\ UpdateOk(r, v) \/ UpdateErr(r, v)
          /\ \/ v.tenant \in {copy[r].tenant, None}
             \/ At("claim") /\ r \in todo /\ copy[r].tenant = None /\ v.tenant = cur
    BY <1>1, <1>2, <1>3 DEF MarkConflict, Adopt, Disown, Conflicting
  <1>5. OneOwner'
    <2>1. CASE UNCHANGED apiVars
      BY <2>1, FewerVersions DEF StreamInv, Versions, apiVars
    <2>2. CASE r \in fresh /\ Put(r, v) /\ v.tenant \in {copy[r].tenant, None}
      BY <1>1, <2>2, QuietVersion DEF StreamInv, OwnershipInv, FreshTrue
    <2>3. CASE r \in fresh /\ Put(r, v) /\ At("claim") /\ r \in todo /\ copy[r].tenant = None /\ v.tenant = cur
      \* The tenant takes what the cache shows as free, and nothing is on its way.
      <3>1. pending[r] = <<>>
        BY <2>3 DEF StreamInv, ClaimsCurrent, CacheCurrent
      <3>2. cache[r] = store[r] /\ store[r].tenant = None
        BY <1>1, <2>3, <3>1 DEF OwnershipInv, CacheCoherent, Latest, FreshTrue
      <3>3. Versions(r) = {cache[r]}
        BY <3>1 DEF Versions
      <3>4. Versions(r)' \subseteq {cache[r], v} /\ \A q \in Owned \ {r} : Versions(q)' = Versions(q)
        BY <1>1, <2>3, <3>3, PutVersions, KindOf DEF TypeOK
      <3>5. \A w \in Versions(r)' : w.tenant \in {cur, None}
        BY <2>3, <3>2, <3>4
      <3> QED BY <1>1, <3>4, <3>5 DEF StreamInv, OneOwner
    <2> QED BY <1>4, <2>1, <2>2, <2>3 DEF UpdateOk, UpdateErr
  <1>6. \A y \in Objects \ {r} : pending'[y] = pending[y]
    BY <1>1, <1>4 DEF UpdateOk, UpdateErr, Put, apiVars, TypeOK, ApiTypeOK
  <1>7. ClaimsCurrent'
    <2>1. todo' = todo \ {r} /\ fresh' \subseteq fresh /\ pc' = pc
      BY DEF MarkConflict, Adopt, Disown, Drop
    <2>2. CASE pc = "claim"
      BY <1>1, <1>6, <2>1, <2>2, ClaimsFewer DEF StreamInv
    <2>3. CASE pc # "claim"
      BY <2>1, <2>3 DEF ClaimsCurrent
    <2> QED BY <2>2, <2>3
  <1> QED BY <1>5, <1>7 DEF StreamInv

LEMMA StreamStatusSteps ==
    ASSUME TypeOK, OwnershipInv, StreamInv,
           \/ \E o \in Outputs : CheckOutput(o) \/ SecretError(o)
           \/ UpdateSubscription
           \/ \E b \in Bridges, side \in Sides :
                RejectBridge(b, side) \/ AcceptBridge(b, side) \/ BridgeQueryError(b, side)
           \/ Publish
    PROVE  StreamInv'
  <1> USE DEF At
  <1>1. ASSUME NEW o \in Outputs, CheckOutput(o) \/ SecretError(o) PROVE StreamInv'
    <2>1. o \in Objects /\ o \in Owned
      BY KindOf DEF Owned
    <2>2. PICK v \in Values(o) :
            /\ v.tenant = copy[o].tenant
            /\ UpdateOk(o, v) \/ UpdateErr(o, v) \/ (o \in fresh /\ Put(o, v)) \/ UNCHANGED apiVars
      BY <1>1, OutputWrite
    <2>3. OneOwner'
      BY <2>1, <2>2, QuietVersionWrite DEF StreamInv, OwnershipInv, FreshTrue
    <2>4. pc' # "claim"
      BY <1>1 DEF CheckOutput, SecretError
    <2> QED BY <2>3, <2>4 DEF StreamInv, ClaimsCurrent
  <1>2. ASSUME UpdateSubscription PROVE StreamInv'
    <2>1. /\ sub \in Subscriptions /\ sub \in Owned /\ sub \in Objects
          /\ Values(sub) = Resource /\ copy[sub] \in Resource
      BY <1>2, CopyTypes, KindOf DEF UpdateSubscription, TypeOK, WorkerTypeOK, Owned
    <2>2. Validated(sub) \in Values(sub) /\ Validated(sub).tenant = copy[sub].tenant
      BY <2>1, WrittenSubscription DEF TypeOK, WorkerTypeOK, Validated, Resource
    <2>3. OneOwner'
      BY <1>2, <2>1, <2>2, QuietVersionWrite
      DEF UpdateSubscription, StreamInv, OwnershipInv, FreshTrue
    <2>4. pc' # "claim"
      BY <1>2 DEF UpdateSubscription, Fail
    <2> QED BY <2>3, <2>4 DEF StreamInv, ClaimsCurrent
  <1>3. ASSUME NEW b \in Bridges, NEW side \in Sides,
               RejectBridge(b, side) \/ AcceptBridge(b, side) \/ BridgeQueryError(b, side)
        PROVE  StreamInv'
    <2>1. b \in Objects /\ b \notin Owned /\ copy[b] \in BridgeObj /\ Values(b) = BridgeObj
      BY CopyTypes, KindOf
    <2>2. /\ BridgeReady(b) \in Values(b) /\ BridgeFailed(b, "dangling") \in Values(b)
          /\ BridgeFailed(b, "query") \in Values(b)
      BY <2>1, WrittenBridge
    <2>3. PICK v \in Values(b) :
            UpdateOk(b, v) \/ UpdateErr(b, v) \/ (b \in fresh /\ Put(b, v)) \/ UNCHANGED apiVars
      BY <1>3, <2>2 DEF RejectBridge, AcceptBridge, BridgeQueryError
    <2>4. OneOwner'
      BY <2>1, <2>3, QuietVersionWrite DEF StreamInv, OwnershipInv
    <2>5. pc' # "claim"
      BY <1>3 DEF RejectBridge, AcceptBridge, BridgeQueryError, NextBridge, Fail
    <2> QED BY <2>4, <2>5 DEF StreamInv, ClaimsCurrent
  <1>4. ASSUME Publish PROVE StreamInv'
    <2>1. /\ cur \in Objects /\ cur \notin Owned /\ copy[cur] \in Values(cur)
      BY <1>4, CopyTypes, KindOf DEF Publish, TypeOK, WorkerTypeOK
    <2>2. (cur \in fresh /\ Put(cur, copy[cur])) \/ UNCHANGED apiVars
      BY <1>4 DEF Publish
    <2>3. OneOwner'
      BY <2>1, <2>2, QuietVersionWrite DEF StreamInv, OwnershipInv
    <2>4. pc' # "claim"
      BY <1>4 DEF Publish, BecomeIdle
    <2> QED BY <2>3, <2>4 DEF StreamInv, ClaimsCurrent
  <1> QED BY <1>1, <1>2, <1>3, <1>4

LEMMA StreamEventSteps ==
    ASSUME TypeOK, OwnershipInv, StreamInv, (\E x \in Objects : DeliverEvent(x)) \/ Restart
    PROVE  StreamInv'
  <1>1. ASSUME NEW x \in Objects, DeliverEvent(x) PROVE StreamInv'
    <2>1. OneOwner'
      BY <1>1, DeliverVersions, FewerVersions, KindOf DEF DeliverEvent, TypeOK, StreamInv
    <2>2. \A y \in Objects : pending[y] = <<>> => pending'[y] = <<>>
      BY <1>1 DEF DeliverEvent, Deliver, TypeOK, ApiTypeOK
    <2>3. ClaimsCurrent'
      BY <1>1, <2>2
      DEF DeliverEvent, workerVars, loopVars, StreamInv, ClaimsCurrent, CacheCurrent, At, TypeOK, EnvTypeOK
    <2> QED BY <2>1, <2>3 DEF StreamInv
  <1>2. CASE Restart
    <2>1. \A r \in Owned : Versions(r)' = {store[r]}
      BY <1>2, KindOf DEF Restart, InitialSync, Versions
    <2>2. OneOwner'
      BY <2>1, StoredVersion, FewerVersions, KindOf DEF TypeOK, OwnershipInv, StreamInv
    <2> QED BY <1>2, <2>2 DEF Restart, BecomeIdle, StreamInv, ClaimsCurrent, At
  <1> QED BY <1>1, <1>2

\* A deleted resource has no tenant, and so has a new one.
LEMMA StreamUserSteps ==
    ASSUME TypeOK, OwnershipInv, StreamInv, UserStep
    PROVE  StreamInv'
  <1>1. CASE UNCHANGED <<apiVars, workerVars, fresh>>
    BY <1>1, StreamLocal DEF workerVars, loopVars
  <1>2. ASSUME NEW x \in Objects, NEW v \in Values(x), Edit(x, v),
               LeavesStatus(x, v)
        PROVE  StreamInv'
    <2>1. x \in Owned => v.tenant \in {store[x].tenant, None}
      BY <1>2 DEF Absent, LeavesStatus
    <2>2. OneOwner'
      BY <1>2, <2>1, QuietVersion DEF Edit, OwnershipInv, StreamInv
    <2>3. /\ \A y \in Objects \ {x} : pending'[y] = pending[y]
          /\ fresh' = fresh \ {x} /\ todo' = todo /\ pc' = pc /\ fresh \subseteq Objects
      BY <1>2 DEF Edit, Put, TypeOK, ApiTypeOK, EnvTypeOK, workerVars, loopVars
    <2>4. ClaimsCurrent'
      BY <2>3 DEF StreamInv, ClaimsCurrent, CacheCurrent, At
    <2> QED BY <2>2, <2>4 DEF StreamInv
  <1> QED BY <1>1, <1>2, UserWrite

LEMMA StreamNextStep == TypeOK /\ OwnershipInv /\ StreamInv /\ [Next]_vars => StreamInv'
  <1>1. ASSUME StreamInv, UNCHANGED vars PROVE StreamInv'
    BY <1>1, StreamLocal DEF vars, workerVars, loopVars
  <1> QED BY <1>1, StreamReadSteps, StreamResourceSteps, StreamStatusSteps, StreamEventSteps,
             StreamUserSteps
    DEF Next, WorkerStep, Failure

LEMMA StreamInitial == Init => StreamInv
  <1> SUFFICES ASSUME Init PROVE StreamInv
    OBVIOUS
  <1>1. TypeOK /\ OwnershipInv
    BY InitType, OwnInitial
  <1>2. \A r \in Owned : Versions(r) = {cache[r]}
    <2>1. \A r \in Owned : pending[r] = <<>>
      BY KindOf DEF Init
    <2> QED BY <2>1 DEF Versions
  <1>3. \A r \in Owned : cache[r].tenant \in Tenants \cup {None}
    <2>1. \A r \in Owned : cache[r] \in Resource
      BY <1>1, KindOf DEF TypeOK, ApiTypeOK
    <2> QED BY <2>1 DEF Resource
  <1> QED BY <1>2, <1>3 DEF StreamInv, OneOwner, ClaimsCurrent, At, Init

\* All versions of a resource the informer cache shows or has yet to show
\* name one tenant or none: UpdateResourcesForTenant claims through the same
\* cache that has to show the resource as free, and a claim on a resource of
\* which newer versions are on their way meets a conflict.
THEOREM StreamInvariant == Spec => []StreamInv
  BY TypeCorrect, OwnershipInvariant, StreamInitial, StreamNextStep, PTL DEF Spec

LEMMA NotForeign == TypeOK /\ OwnershipInv /\ StreamInv => StaleNotForeign
  <1> SUFFICES ASSUME TypeOK, OwnershipInv, StreamInv, NEW r \in Owned, store[r].tenant # None
               PROVE  cache[r].tenant \in {store[r].tenant, None}
    BY DEF StaleNotForeign
  <1>1. store[r] \in Versions(r) /\ cache[r] \in Versions(r)
    BY StoredVersion, KindOf DEF TypeOK, OwnershipInv, Versions
  <1> QED BY <1>1 DEF StreamInv, OneOwner

\* GetResourceOwnedByTenant compares status.tenant of a cached resource: it
\* may be out of date, but it never names a tenant while the store names
\* another one, whatever users, failed requests and restarts do.
THEOREM CacheNotForeign == Spec => []StaleNotForeign
  BY TypeCorrect, OwnershipInvariant, StreamInvariant, NotForeign, PTL

-----------------------------------------------------------------------------
(* What a reconciliation holds is its tenant's *)

LEMMA HoldsNothing ==
    ASSUME ClearLoop, pc' \notin {"validate", "outputs"}
    PROVE  HoldsOwn'
  BY DEF ClearLoop, HoldsOwn, At

\* What is in the tenant's lists, and what the loop of a pass is still to meet.
LEMMA HeldApart ==
    ASSUME TypeOK, HoldsOwn
    PROVE  /\ mine \cup outs \subseteq Owned /\ OfKind(kind) \subseteq Owned
           /\ OfKind(kind) \cap outs = {}
           /\ pc # "idle" => cur \in Tenants /\ cur \notin mine \cup outs
  <1>1. mine \cup outs \subseteq Owned /\ OfKind(kind) \subseteq Owned
    BY DEF TypeOK, WorkerTypeOK, OfKind, Owned
  <1>2. OfKind(kind) \cap outs = {}
    BY KindsAssumption DEF TypeOK, WorkerTypeOK, OfKind, HoldsOwn
  <1>3. pc # "idle" => cur \in Tenants /\ cur \notin mine \cup outs
    BY <1>1, KindOf DEF TypeOK, WorkerTypeOK
  <1> QED BY <1>1, <1>2, <1>3

LEMMA HoldsListSteps ==
    ASSUME TypeOK, HoldsOwn,
           \/ \E t \in Tenants : StartReconcile(t)
           \/ HandleLogSourceNamespaces \/ ReadError \/ ListOwned \/ ListReferencing
    PROVE  HoldsOwn'
  <1> USE DEF At
  <1>1. CASE \E step : Fail(step)
    BY <1>1, HoldsNothing DEF Fail
  <1>2. ASSUME NEW t \in Tenants, StartReconcile(t) PROVE HoldsOwn'
    <2>1. mine = {} /\ outs = {} /\ valid = {} /\ kind = "output" /\ pc = "idle"
      BY <1>2 DEF StartReconcile, HoldsOwn
    <2>2. UNCHANGED loopVars /\ pc' \in {"idle", "logsources"}
      BY <1>2, <2>1 DEF StartReconcile, workerVars
    <2> QED BY <2>1, <2>2 DEF HoldsOwn, loopVars
  <1>3. ASSUME HandleLogSourceNamespaces, ~ \E step : Fail(step) PROVE HoldsOwn'
    <2>1. mine = {} /\ outs = {} /\ valid = {} /\ kind = "output"
      BY <1>3 DEF HandleLogSourceNamespaces, HoldsOwn
    <2>2. UNCHANGED loopVars /\ pc' = "list"
      BY <1>3 DEF HandleLogSourceNamespaces
    <2> QED BY <2>1, <2>2 DEF HoldsOwn, loopVars
  <1>4. ASSUME ListOwned, ~ \E step : Fail(step) PROVE HoldsOwn'
    <2>1. /\ Read(Selected(cur, kind)) /\ mine' = {r \in Selected(cur, kind) : OwnedBy(r, cur)}
          /\ todo' = {r \in Selected(cur, kind) : ~OwnedBy(r, cur)}
          /\ pc' = "claim" /\ UNCHANGED <<cur, kind, outs, sub, refs, valid>>
      BY <1>4 DEF ListOwned
    <2>2. Selected(cur, kind) \subseteq OfKind(kind) /\ Selected(cur, kind) \subseteq Objects
      BY HeldApart, KindOf DEF Selected
    <2>3. \A r \in mine' : copy'[r].tenant = cur
      BY <2>1, <2>2 DEF Read, OwnedBy
    <2>4. \A r \in outs : copy'[r] = copy[r]
      BY <2>1, <2>2, HeldApart, KindOf DEF Read
    <2> QED BY <2>1, <2>3, <2>4 DEF HoldsOwn
  <1>5. CASE ListReferencing
    <2>1. /\ Read(Unselected(cur, kind)) /\ todo' = Unselected(cur, kind) /\ pc' = "release"
          /\ UNCHANGED <<cur, kind, mine, outs, sub, refs, valid>>
      BY <1>5 DEF ListReferencing
    <2>2. Unselected(cur, kind) \cap mine = {} /\ Unselected(cur, kind) \subseteq OfKind(kind)
      BY DEF Unselected
    <2>3. \A r \in mine \cup outs : copy'[r] = copy[r]
      BY <2>1, <2>2, HeldApart, KindOf DEF Read
    <2> QED BY <2>1, <2>2, <2>3 DEF HoldsOwn
  <1> QED BY <1>1, <1>2, <1>3, <1>4, <1>5 DEF ReadError

LEMMA HoldsResourceSteps ==
    ASSUME TypeOK, HoldsOwn, NEW r \in Owned, MarkConflict(r) \/ Adopt(r) \/ Disown(r)
    PROVE  HoldsOwn'
  <1> USE DEF At
  <1>1. /\ pc \in {"claim", "release"} /\ r \in todo /\ todo' = todo \ {r}
        /\ UNCHANGED <<pc, cur, kind, outs, valid>>
    BY DEF MarkConflict, Adopt, Disown
  <1>2. r \in OfKind(kind) /\ r \notin mine /\ r \notin outs /\ r \in Objects
    BY <1>1, HeldApart, KindOf DEF TypeOK, WorkerTypeOK, HoldsOwn
  <1>3. copy[r] \in Resource /\ AsTaken(copy[r], cur).tenant = cur
    BY CopyTypes DEF AsTaken, Resource
  <1>4. \A q \in mine \cup outs : copy'[q] = copy[q]
    BY <1>2, HeldApart, KindOf DEF MarkConflict, Adopt, Disown, Drop, SetCopy, TypeOK, WorkerTypeOK
  <1>5. mine' = mine \/ (mine' = mine \cup {r} /\ copy'[r].tenant = cur)
    BY <1>2, <1>3 DEF MarkConflict, Adopt, Disown, SetCopy, TypeOK, WorkerTypeOK
  <1> QED BY <1>1, <1>4, <1>5 DEF HoldsOwn

LEMMA HoldsPassSteps ==
    ASSUME TypeOK, HoldsOwn,
           \/ FinishOutputs \/ BeginValidation \/ CheckSubscriptions
           \/ \E s \in Subscriptions : PickSubscription(s)
    PROVE  HoldsOwn'
  <1> USE DEF At
  <1>1. CASE FinishOutputs
    BY <1>1, HoldsNothing DEF FinishOutputs, Fail, HoldsOwn
  <1>2. CASE BeginValidation
    <2>1. \A q \in mine \cup outs : copy'[q] = copy[q]
      BY <1>2, HeldApart, KindOf DEF BeginValidation, SetCopy, TypeOK, WorkerTypeOK
    <2> QED BY <1>2, <2>1 DEF BeginValidation, HoldsOwn
  <1>3. CASE CheckSubscriptions
    BY <1>3, HoldsNothing DEF CheckSubscriptions, Fail
  <1>4. ASSUME NEW s \in Subscriptions, PickSubscription(s) PROVE HoldsOwn'
    BY <1>4 DEF PickSubscription, HoldsOwn
  <1> QED BY <1>1, <1>2, <1>3, <1>4

LEMMA HoldsStatusSteps ==
    ASSUME TypeOK, HoldsOwn, UpdateSubscription \/ \E o \in Outputs : CheckOutput(o) \/ SecretError(o)
    PROVE  HoldsOwn'
  <1> USE DEF At
  <1>1. ASSUME NEW o \in Outputs, CheckOutput(o) \/ SecretError(o) PROVE HoldsOwn'
    <2>1. PICK w \in Values(o) : w.tenant = copy[o].tenant /\ (SetCopy(o, w) \/ UNCHANGED copy)
      BY <1>1, OutputWrite
    <2>2. \A q \in Owned : copy'[q].tenant = copy[q].tenant
      BY <2>1, KindOf DEF SetCopy, TypeOK, WorkerTypeOK
    <2>3. UNCHANGED <<pc, cur, kind, mine, outs, todo, sub>> /\ valid' \subseteq valid \cup outs
      BY <1>1 DEF CheckOutput, SecretError, RejectUnknown, RejectInvalid, Accept
    <2> QED BY <1>1, <2>2, <2>3, HeldApart DEF HoldsOwn
  <1>2. CASE UpdateSubscription /\ Fail("owned")
    BY <1>2, HoldsNothing DEF Fail
  <1>3. CASE UpdateSubscription /\ ~Fail("owned")
    <2>1. /\ SetCopy(sub, Validated(sub)) /\ pc' = "validate" /\ valid' = {}
          /\ UNCHANGED <<cur, kind, mine, outs, todo>>
      BY <1>3 DEF UpdateSubscription
    <2>2. sub \in Owned /\ copy[sub] \in Resource /\ pc = "outputs"
      BY <1>3, CopyTypes DEF UpdateSubscription, TypeOK, WorkerTypeOK, Owned
    <2>3. Validated(sub).tenant = copy[sub].tenant
      BY <2>2 DEF Validated, Resource
    <2>4. \A q \in Owned : copy'[q].tenant = copy[q].tenant
      BY <2>1, <2>2, <2>3, KindOf DEF SetCopy, TypeOK, WorkerTypeOK
    <2> QED BY <2>1, <2>2, <2>4, HeldApart DEF HoldsOwn
  <1> QED BY <1>1, <1>2, <1>3

\* The bridges leave the lists of the passes alone.
LEMMA HoldsBridgeSteps ==
    ASSUME TypeOK, HoldsOwn,
           \/ ListSourceBridges \/ ListTargetBridges \/ FinishBridges \/ Publish
           \/ \E b \in Bridges, side \in Sides :
                RejectBridge(b, side) \/ AcceptBridge(b, side) \/ BridgeQueryError(b, side)
    PROVE  HoldsOwn'
  <1> USE DEF At
  <1>1. CASE ClearLoop /\ pc' \in {"idle", "publish"}
    BY <1>1, HoldsNothing
  <1>2. ASSUME \A r \in Owned : copy'[r] = copy[r], pc' \in {"target", "bridges"},
               UNCHANGED <<cur, kind, mine, outs, valid>>
        PROVE  HoldsOwn'
    BY <1>2, HeldApart DEF HoldsOwn
  <1>3. CASE ListSourceBridges
    <2>1. \A r \in Owned : copy'[r] = copy[r]
      BY <1>3, KindOf DEF ListSourceBridges, Listed, Read
    <2> QED BY <1>2, <1>3, <2>1 DEF ListSourceBridges
  <1>4. CASE ListTargetBridges
    <2>1. cur \notin Owned
      BY <1>4, KindOf DEF ListTargetBridges, TypeOK, WorkerTypeOK
    <2>2. \A r \in Owned : copy'[r] = copy[r]
      BY <1>4, <2>1, KindOf DEF ListTargetBridges, Listed, ReadBridges
    <2> QED BY <1>2, <1>4, <2>2 DEF ListTargetBridges
  <1>5. ASSUME NEW b \in Bridges, NEW side \in Sides,
               RejectBridge(b, side) \/ AcceptBridge(b, side) \/ BridgeQueryError(b, side)
        PROVE  HoldsOwn'
    <2>1. CASE UNCHANGED copy /\ pc = "bridges" /\ UNCHANGED <<pc, cur, kind, mine, outs, valid>>
      BY <1>2, <2>1
    <2> QED BY <1>1, <1>5, <2>1 DEF RejectBridge, AcceptBridge, BridgeQueryError, NextBridge, Fail
  <1> QED BY <1>1, <1>3, <1>4, <1>5 DEF FinishBridges, Publish, BecomeIdle

LEMMA HoldsNextStep == TypeOK /\ HoldsOwn /\ [Next]_vars => HoldsOwn'
  <1>1. ASSUME HoldsOwn, UNCHANGED workerVars PROVE HoldsOwn'
    BY <1>1 DEF HoldsOwn, workerVars, loopVars, At
  <1>2. ASSUME TypeOK, HoldsOwn, UserStep PROVE HoldsOwn'
    BY <1>1, <1>2, UserWrite DEF Edit
  <1>3. ASSUME Restart PROVE HoldsOwn'
    BY <1>3, HoldsNothing DEF Restart, BecomeIdle
  <1>4. ASSUME HoldsOwn, NEW x \in Objects, DeliverEvent(x) PROVE HoldsOwn'
    BY <1>1, <1>4 DEF DeliverEvent
  <1> QED BY <1>1, <1>2, <1>3, <1>4, HoldsListSteps, HoldsResourceSteps, HoldsPassSteps,
             HoldsStatusSteps, HoldsBridgeSteps
    DEF Next, WorkerStep, Failure, vars

LEMMA HoldsInitial == Init => HoldsOwn
  BY DEF Init, HoldsOwn, At

\* The lists handleOwnedResources works with hold copies that name the tenant
\* being reconciled, and no loop touches what another one holds.
THEOREM HoldsOwnInvariant == Spec => []HoldsOwn
  BY TypeCorrect, HoldsInitial, HoldsNextStep, PTL DEF Spec

\* ValidateSubscriptionReferencedOutputsWithCache never finds an output of the
\* tenant that carries another tenant than the subscription does: that branch
\* of the validation is dead.
THEOREM NeverMismatched == Spec => []NoTenantMismatch
  <1>1. HoldsOwn => NoTenantMismatch
    BY DEF HoldsOwn, NoTenantMismatch, Mismatch, At
  <1> QED BY <1>1, HoldsOwnInvariant, PTL

-----------------------------------------------------------------------------
(* What a reconciliation reports belongs to nobody else *)

\* While a tenant is being reconciled nobody else takes resources.
LEMMA KeptStep ==
    ASSUME Refined, cur' = cur, cur \in Tenants, NEW r \in Owned, Kept(r)
    PROVE  Kept(r)'
  <1> DEFINE owner == [q \in Owned |-> store[q].tenant]
  <1>1. owner[r] \in {cur, None} /\ (owner'[r] \in {cur, None} => Kept(r)')
    BY DEF Kept
  <1>2. DOMAIN owner = Owned
    OBVIOUS
  <1>3. owner' = owner \/ \E q \in Owned, u \in {cur, None} : owner' = [owner EXCEPT ![q] = u]
    BY DEF Refined, Ownership!OwnNext, Ownership!ownVars, Ownership!End, Ownership!Begin,
       Ownership!Take, Ownership!GiveUp, Ownership!Appear, Ownership!Vanish
  <1> HIDE DEF owner
  <1> QED BY <1>1, <1>2, <1>3

\* What the worker is at when it takes a step of its own.
Working == (WorkerStep \/ Failure) /\ ~Restart
LEMMA WorkingOn ==
    ASSUME TypeOK, Working
    PROVE  /\ pc # "idle" /\ cur \in Tenants
           /\ cur' = cur \/ Publish
           /\ \/ ClearLoop
              \/ UNCHANGED <<mine, outs>>
              \/ ListOwned \/ FinishOutputs \/ \E r \in Owned : Adopt(r)
  <1> USE DEF At
  <1>1. /\ pc # "idle"
        /\ cur' = cur \/ Publish
        /\ \/ ClearLoop
           \/ UNCHANGED <<mine, outs>>
           \/ ListOwned \/ FinishOutputs \/ \E r \in Owned : Adopt(r)
    <2>1. CASE HandleLogSourceNamespaces \/ ListOwned \/ ListReferencing \/ ReadError
      BY <2>1 DEF HandleLogSourceNamespaces, ListOwned, ListReferencing, ReadError, Fail, loopVars
    <2>2. CASE \E r \in Owned : MarkConflict(r) \/ Adopt(r) \/ Disown(r)
      BY <2>2 DEF MarkConflict, Adopt, Disown
    <2>3. CASE \/ FinishOutputs \/ BeginValidation \/ CheckSubscriptions \/ UpdateSubscription
               \/ \E s \in Subscriptions : PickSubscription(s)
      BY <2>3 DEF FinishOutputs, BeginValidation, CheckSubscriptions, UpdateSubscription,
         PickSubscription, Fail
    <2>4. CASE \E o \in Outputs : CheckOutput(o) \/ SecretError(o)
      BY <2>4 DEF CheckOutput, SecretError
    <2>5. CASE ListSourceBridges \/ ListTargetBridges \/ FinishBridges \/ Publish
      BY <2>5 DEF ListSourceBridges, ListTargetBridges, FinishBridges, Publish, BecomeIdle
    <2>6. CASE \E b \in Bridges, side \in Sides :
                 RejectBridge(b, side) \/ AcceptBridge(b, side) \/ BridgeQueryError(b, side)
      BY <2>6 DEF RejectBridge, AcceptBridge, BridgeQueryError, NextBridge, Fail
    <2> QED BY <2>1, <2>2, <2>3, <2>4, <2>5, <2>6 DEF Working, WorkerStep, Failure
  <1> QED BY <1>1 DEF TypeOK, WorkerTypeOK

\* Everything else leaves the worker where it is, or starts or ends its work.
LEMMA NotWorking ==
    ASSUME TypeOK, [Next]_vars, ~Working
    PROVE  \/ UNCHANGED workerVars
           \/ \E t \in Tenants : StartReconcile(t)
           \/ Restart
  BY UserWrite DEF Next, Working, vars, DeliverEvent, Edit

\* Where what a reconciliation holds comes from.
LEMMA HeldFrom ==
    ASSUME TypeOK, OwnershipInv, HoldsOwn, [Next]_vars, NEW r \in mine' \cup outs'
    PROVE  /\ cur' = cur /\ cur \in Tenants /\ r \in Owned
           /\ \/ r \in mine \cup outs
              \/ cache[r].tenant = cur /\ UNCHANGED store
              \/ store'[r].tenant = cur
  <1> USE DEF At
  <1>1. ~ClearLoop /\ ~Restart /\ ~Publish
    BY DEF ClearLoop, Restart, Publish, BecomeIdle
  <1>2. CASE ~Working
    <2>1. UNCHANGED loopVars
      BY <1>1, <1>2, NotWorking DEF workerVars, StartReconcile
    <2>2. r \in mine \cup outs /\ pc # "idle"
      BY <2>1 DEF loopVars, HoldsOwn
    <2>3. UNCHANGED workerVars
      BY <1>1, <1>2, <2>2, NotWorking DEF StartReconcile
    <2> QED BY <2>2, <2>3, HeldApart DEF workerVars
  <1>3. CASE Working
    <2>1. cur' = cur /\ cur \in Tenants
      BY <1>1, <1>3, WorkingOn
    <2>2. CASE UNCHANGED <<mine, outs>>
      BY <2>1, <2>2, HeldApart
    <2>3. CASE ListOwned
      <3>1. /\ mine' = {q \in Selected(cur, kind) : OwnedBy(q, cur)}
            /\ UNCHANGED <<outs, apiVars>>
        BY <1>1, <2>3 DEF ListOwned, Fail
      <3> QED BY <2>1, <3>1, HeldApart DEF OwnedBy, Selected, apiVars
    <2>4. CASE FinishOutputs
      BY <1>1, <2>1, <2>4, HeldApart DEF FinishOutputs, Fail
    <2>5. ASSUME NEW q \in Owned, Adopt(q) PROVE r \in mine \cup outs \/ (r \in Owned /\ store'[r].tenant = cur)
      <3>1. CASE mine' = mine
        BY <2>5, <3>1 DEF Adopt
      <3>2. CASE UpdateOk(q, AsTaken(copy[q], cur)) /\ mine' = mine \cup {q}
        <4>1. store'[q].tenant = cur
          BY <2>1, <3>2, OwnerWrite DEF UpdateOk
        <4> QED BY <2>5, <3>2, <4>1 DEF Adopt
      <3> QED BY <2>5, <3>1, <3>2 DEF Adopt
    <2> QED BY <1>1, <1>3, <2>1, <2>2, <2>3, <2>4, <2>5, WorkingOn, HeldApart
  <1> QED BY <1>2, <1>3

\* Where the subscriptions a tenant is about to report come from.
LEMMA ReportFrom ==
    ASSUME TypeOK, [Next]_vars, Reporting'
    PROVE  /\ cur' = cur /\ cur \in Tenants
           /\ copy'[cur].subs = mine \/ (Reporting /\ copy'[cur].subs = copy[cur].subs)
  <1> USE DEF At
  <1>0. ASSUME NEW step, Fail(step), cur \in Tenants PROVE FALSE
    <2>1. pc' = "publish" /\ cur' = cur /\ copy'[cur].state = "failed"
      <3>1. cur \in Objects /\ copy[cur] \in TenantObj
        BY <1>0, CopyTypes, KindOf
      <3>2. copy'[cur] = [copy[cur] EXCEPT !.problems = @ \cup {step}, !.state = "failed"]
        BY <1>0, <3>1 DEF Fail, KeepTenant
      <3> QED BY <1>0, <3>1, <3>2 DEF Fail, TenantObj
    <2> QED BY <2>1 DEF Reporting
  <1>1. CASE ~Working
    <2>1. UNCHANGED workerVars
      BY <1>1, NotWorking DEF StartReconcile, Restart, BecomeIdle, Reporting, workerVars
    <2>2. pc # "idle"
      BY <2>1 DEF workerVars, Reporting
    <2> QED BY <2>1, <2>2 DEF workerVars, Reporting, TypeOK, WorkerTypeOK
  <1>2. CASE Working
    <2>1. cur' = cur /\ cur \in Tenants /\ cur \in Objects /\ cur \notin Owned /\ copy[cur] \in TenantObj
      BY <1>2, WorkingOn, CopyTypes, KindOf DEF Publish, BecomeIdle, Reporting
    <2>2. \A step : ~Fail(step)
      BY <1>0, <2>1
    <2>3. ASSUME pc \in {"validate", "outputs", "source", "target", "bridges"},
                 copy'[cur].subs = copy[cur].subs
          PROVE  Reporting /\ copy'[cur].subs = copy[cur].subs
      BY <2>3 DEF Reporting
    <2>4. CASE \/ HandleLogSourceNamespaces \/ ListOwned \/ ListReferencing \/ FinishOutputs
               \/ \E q \in Owned : MarkConflict(q) \/ Adopt(q) \/ Disown(q)
      BY <2>2, <2>4 DEF HandleLogSourceNamespaces, ListOwned, ListReferencing, FinishOutputs,
         MarkConflict, Adopt, Disown, Reporting
    <2>5. CASE BeginValidation
      BY <2>1, <2>5 DEF BeginValidation, SetCopy, TenantObj, TypeOK, WorkerTypeOK
    <2>6. CASE \/ CheckSubscriptions \/ \E s \in Subscriptions : PickSubscription(s)
      <3>1. copy'[cur] = copy[cur]
        BY <2>1, <2>2, <2>6 DEF CheckSubscriptions, PickSubscription, KeepTenant
      <3> QED BY <2>1, <2>3, <2>6, <3>1 DEF CheckSubscriptions, PickSubscription
    <2>7. CASE UpdateSubscription
      <3>1. sub \in Owned
        BY <2>7 DEF UpdateSubscription, TypeOK, WorkerTypeOK, Owned
      <3>2. copy'[cur] = copy[cur]
        BY <2>1, <2>2, <2>7, <3>1 DEF UpdateSubscription, SetCopy, TypeOK, WorkerTypeOK
      <3> QED BY <2>1, <2>3, <2>7, <3>2 DEF UpdateSubscription
    <2>8. CASE \E o \in Outputs : CheckOutput(o) \/ SecretError(o)
      <3>1. copy'[cur] = copy[cur]
        BY <2>1, <2>8, OutputWrite DEF SetCopy, TypeOK, WorkerTypeOK, Owned
      <3> QED BY <2>1, <2>3, <2>8, <3>1 DEF CheckOutput, SecretError
    <2>9. CASE ListSourceBridges \/ ListTargetBridges
      <3>0. cur \notin Bridges
        BY <2>1, KindsAssumption
      <3>1. \E bs : copy'[cur] \in {copy[cur], [copy[cur] EXCEPT !.bridges = bs]}
        BY <2>1, <2>9, <3>0 DEF ListSourceBridges, ListTargetBridges, Read, ReadBridges, Listed
      <3>2. copy'[cur].subs = copy[cur].subs
        BY <2>1, <3>1 DEF TenantObj
      <3> QED BY <2>1, <2>3, <2>9, <3>2 DEF ListSourceBridges, ListTargetBridges
    <2>10. CASE \E b \in Bridges, side \in Sides :
                  RejectBridge(b, side) \/ AcceptBridge(b, side) \/ BridgeQueryError(b, side)
      BY <2>1, <2>2, <2>3, <2>10 DEF RejectBridge, AcceptBridge, BridgeQueryError, NextBridge
    <2>11. CASE FinishBridges
      <3>1. copy'[cur].subs = copy[cur].subs
        BY <2>1, <2>11 DEF FinishBridges, KeepTenant, AsReady, TenantObj
      <3> QED BY <2>1, <2>3, <2>11, <3>1 DEF FinishBridges
    <2>12. CASE Publish \/ ReadError
      BY <2>2, <2>12 DEF Publish, BecomeIdle, ReadError, Reporting
    <2> QED BY <1>2, <2>1, <2>4, <2>5, <2>6, <2>7, <2>8, <2>9, <2>10, <2>11, <2>12
      DEF Working, WorkerStep, Failure
  <1> QED BY <1>1, <1>2

LEMMA KeptNextStep ==
    TypeOK /\ OwnershipInv /\ StreamInv /\ HoldsOwn /\ HoldsKept /\ [Next]_vars => HoldsKept'
  <1> SUFFICES ASSUME TypeOK, OwnershipInv, StreamInv, HoldsOwn, HoldsKept, [Next]_vars
               PROVE  HoldsKept'
    OBVIOUS
  <1>1. Refined /\ StaleNotForeign
    BY OwnNextStep, NotForeign
  <1>2. ASSUME NEW r \in mine' \cup outs' PROVE Kept(r)'
    <2>1. cur' = cur /\ cur \in Tenants /\ r \in Owned
      BY HeldFrom
    <2>2. CASE r \in mine \cup outs
      BY <1>1, <2>1, <2>2, KeptStep DEF HoldsKept
    <2>3. CASE cache[r].tenant = cur
      <3>1. Kept(r)
        BY <1>1, <2>1, <2>3, KindOf DEF Kept, StaleNotForeign
      <3> QED BY <1>1, <2>1, <3>1, KeptStep
    <2>4. CASE store'[r].tenant = cur
      BY <2>1, <2>4 DEF Kept
    <2> QED BY <2>2, <2>3, <2>4, HeldFrom
  <1>3. ASSUME Reporting', NEW s \in copy'[cur'].subs PROVE Kept(s)'
    <2>1. /\ cur' = cur /\ cur \in Tenants
          /\ s \in mine \/ (Reporting /\ s \in copy[cur].subs)
      BY <1>3, ReportFrom
    <2>2. Kept(s)
      BY <2>1 DEF HoldsKept
    <2>3. s \in Owned
      BY <2>1, CopyTypes, HeldApart DEF TenantObj, Owned
    <2> QED BY <1>1, <2>1, <2>2, <2>3, KeptStep
  <1> QED BY <1>2, <1>3 DEF HoldsKept

LEMMA KeptInitial == Init => HoldsKept
  BY DEF Init, HoldsKept, Reporting, At

\* What a reconciliation found to be its tenant's, and what it is about to
\* report as such, no other tenant has taken since.
THEOREM HoldsKeptInvariant == Spec => []HoldsKept
  BY TypeCorrect, OwnershipInvariant, StreamInvariant, HoldsOwnInvariant, KeptInitial, KeptNextStep,
     PTL DEF Spec

\* The outputs validateSubscriptionOutputs puts into status.outputs, and the
\* subscriptions of a tenant that Reconcile is about to report as ready, are
\* not somebody else's, although every list was read from a cache that may
\* be late.
THEOREM ReportsOnlyOwn == Spec => []ReportsOwn
  <1>1. HoldsOwn /\ HoldsKept => ReportsOwn
    BY DEF HoldsOwn, HoldsKept, ReportsOwn, Reporting, Kept, At
  <1> QED BY <1>1, HoldsOwnInvariant, HoldsKeptInvariant, PTL

-----------------------------------------------------------------------------
(* A failed tenant is looked at again *)

\* A request for something else leaves a tenant and its stream alone.
LEMMA OtherWrite ==
    ASSUME ApiTypeOK, NEW t \in Tenants, NEW x \in Objects \ {t}, NEW v,
           UpdateOk(x, v) \/ UpdateErr(x, v) \/ Put(x, v) \/ UNCHANGED apiVars
    PROVE  store'[t] = store[t] /\ pending'[t] = pending[t]
  BY KindOf DEF UpdateOk, UpdateErr, Put, apiVars, ApiTypeOK

\* Until the status is written a reconciliation leaves its tenant, all others
\* and the queue alone.
LEMMA WorkingFrame ==
    ASSUME TypeOK, Working, ~Publish
    PROVE  /\ queue' = queue /\ copy'[cur].exists = copy[cur].exists
           /\ \A t \in Tenants : store'[t] = store[t] /\ pending'[t] = pending[t]
  <1> USE DEF At
  <1>1. /\ cur \in Tenants /\ cur \in Objects /\ cur \notin Owned /\ cur \notin Bridges
        /\ copy[cur] \in TenantObj
    BY WorkingOn, CopyTypes, KindOf, KindsAssumption
  <1>2. ASSUME NEW step, Fail(step) PROVE copy'[cur].exists = copy[cur].exists
    <2>1. copy'[cur] = [copy[cur] EXCEPT !.problems = @ \cup {step}, !.state = "failed"]
      BY <1>1, <1>2 DEF Fail, KeepTenant
    <2> QED BY <1>1, <2>1 DEF TenantObj
  <1>3. ASSUME NEW x \in Owned \cup Bridges, NEW v,
               UpdateOk(x, v) \/ UpdateErr(x, v) \/ Put(x, v) \/ UNCHANGED apiVars
        PROVE  \A t \in Tenants : store'[t] = store[t] /\ pending'[t] = pending[t]
    <2>1. \A t \in Tenants : x \in Objects \ {t}
      BY KindOf, KindsAssumption
    <2> QED BY <1>3, <2>1, OtherWrite DEF TypeOK
  <1>4. ASSUME UNCHANGED apiVars
        PROVE  \A t \in Tenants : store'[t] = store[t] /\ pending'[t] = pending[t]
    BY <1>4 DEF apiVars
  <1>5. CASE HandleLogSourceNamespaces \/ BeginValidation
    <2>1. \/ \E step : Fail(step)
          \/ \E ns : copy'[cur] \in {[copy[cur] EXCEPT !.logNs = ns], [copy[cur] EXCEPT !.subs = ns]}
      BY <1>1, <1>5 DEF HandleLogSourceNamespaces, BeginValidation, SetCopy, TypeOK, WorkerTypeOK
    <2>2. copy'[cur].exists = copy[cur].exists
      BY <1>1, <1>2, <2>1 DEF TenantObj
    <2> QED BY <1>4, <1>5, <2>2 DEF HandleLogSourceNamespaces, BeginValidation
  <1>6. CASE ListOwned \/ ListReferencing \/ FinishOutputs \/ ReadError
    <2>1. (\E step : Fail(step)) \/ copy'[cur] = copy[cur]
      BY <1>1, <1>6
      DEF ListOwned, ListReferencing, FinishOutputs, ReadError, Read, Selected, Unselected, OfKind, Owned
    <2> QED BY <1>2, <1>4, <1>6, <2>1 DEF ListOwned, ListReferencing, FinishOutputs, ReadError
  <1>7. ASSUME NEW r \in Owned, MarkConflict(r) \/ Adopt(r) \/ Disown(r)
        PROVE  /\ queue' = queue /\ copy'[cur].exists = copy[cur].exists
               /\ \A t \in Tenants : store'[t] = store[t] /\ pending'[t] = pending[t]
    <2>1. copy'[cur] = copy[cur]
      BY <1>1, <1>7 DEF MarkConflict, Adopt, Disown, Drop, SetCopy, TypeOK, WorkerTypeOK
    <2>2. \E v : UpdateOk(r, v) \/ UpdateErr(r, v)
      BY <1>7 DEF MarkConflict, Adopt, Disown
    <2> QED BY <1>3, <1>7, <2>1, <2>2 DEF MarkConflict, Adopt, Disown
  <1>8. CASE CheckSubscriptions \/ FinishBridges \/ \E s \in Subscriptions : PickSubscription(s)
    <2>1. (\E step : Fail(step)) \/ copy'[cur] \in {copy[cur], AsReady(copy[cur])}
      BY <1>1, <1>8 DEF CheckSubscriptions, FinishBridges, PickSubscription, KeepTenant
    <2>2. copy'[cur].exists = copy[cur].exists
      BY <1>1, <1>2, <2>1 DEF AsReady, TenantObj
    <2> QED BY <1>4, <1>8, <2>2 DEF CheckSubscriptions, FinishBridges, PickSubscription
  <1>9. ASSUME NEW o \in Outputs, CheckOutput(o) \/ SecretError(o)
        PROVE  /\ queue' = queue /\ copy'[cur].exists = copy[cur].exists
               /\ \A t \in Tenants : store'[t] = store[t] /\ pending'[t] = pending[t]
    <2>0. o \in Owned
      BY DEF Owned
    <2>1. copy'[cur] = copy[cur]
      BY <1>1, <1>9, <2>0, OutputWrite DEF SetCopy, TypeOK, WorkerTypeOK
    <2>2. \E v : UpdateOk(o, v) \/ UpdateErr(o, v) \/ Put(o, v) \/ UNCHANGED apiVars
      BY <1>9, OutputWrite
    <2> QED BY <1>3, <1>9, <2>0, <2>1, <2>2 DEF CheckOutput, SecretError
  <1>10. CASE UpdateSubscription
    <2>0. sub \in Owned
      BY <1>10 DEF UpdateSubscription, TypeOK, WorkerTypeOK, Owned
    <2>1. (\E step : Fail(step)) \/ copy'[cur] = copy[cur]
      BY <1>1, <1>10, <2>0 DEF UpdateSubscription, SetCopy, TypeOK, WorkerTypeOK
    <2> QED BY <1>2, <1>3, <1>10, <2>0, <2>1 DEF UpdateSubscription
  <1>11. CASE ListSourceBridges \/ ListTargetBridges
    <2>1. \E bs : copy'[cur] \in {copy[cur], [copy[cur] EXCEPT !.bridges = bs]}
      BY <1>1, <1>11 DEF ListSourceBridges, ListTargetBridges, Read, ReadBridges, Listed
    <2>2. copy'[cur].exists = copy[cur].exists
      BY <1>1, <2>1 DEF TenantObj
    <2> QED BY <1>4, <1>11, <2>2 DEF ListSourceBridges, ListTargetBridges
  <1>12. ASSUME NEW b \in Bridges, NEW side \in Sides,
                RejectBridge(b, side) \/ AcceptBridge(b, side) \/ BridgeQueryError(b, side)
         PROVE  /\ queue' = queue /\ copy'[cur].exists = copy[cur].exists
                /\ \A t \in Tenants : store'[t] = store[t] /\ pending'[t] = pending[t]
    <2>1. (\E step : Fail(step)) \/ copy'[cur] = copy[cur]
      BY <1>12 DEF RejectBridge, AcceptBridge, BridgeQueryError
    <2>2. \E v : UpdateOk(b, v) \/ UpdateErr(b, v) \/ Put(b, v) \/ UNCHANGED apiVars
      BY <1>12 DEF RejectBridge, AcceptBridge, BridgeQueryError
    <2> QED BY <1>2, <1>3, <1>12, <2>1, <2>2 DEF RejectBridge, AcceptBridge, BridgeQueryError
  <1> QED BY <1>5, <1>6, <1>7, <1>8, <1>9, <1>10, <1>11, <1>12 DEF Working, WorkerStep, Failure

\* A write leaves an undelivered version, or the object as it was.
LEMMA PutPending ==
    ASSUME ApiTypeOK, NEW x \in Objects, NEW v \in Values(x), Put(x, v)
    PROVE  /\ store'[x] = v /\ (v = store[x] \/ ~CacheCurrent(x)')
           /\ \A y \in Objects \ {x} : store'[y] = store[y] /\ pending'[y] = pending[y]
  <1>1. /\ store'[x] = v /\ (v = store[x] \/ pending'[x] = Append(pending[x], v))
        /\ \A y \in Objects \ {x} : store'[y] = store[y] /\ pending'[y] = pending[y]
    BY DEF Put, ApiTypeOK
  <1>2. Append(pending[x], v) # <<>>
    BY DEF ApiTypeOK
  <1> QED BY <1>1, <1>2 DEF CacheCurrent

RetryInv == TenantsThere /\ FailureRetried

LEMMA RetryPublish ==
    ASSUME TypeOK, RetryInv, Publish
    PROVE  RetryInv'
  <1> USE DEF At
  <1>1. cur \in Tenants /\ cur \in Objects /\ copy[cur] \in Values(cur) /\ copy[cur].exists
    BY CopyTypes, KindOf DEF Publish, TypeOK, WorkerTypeOK, RetryInv, TenantsThere
  <1>2. (cur \in fresh /\ Put(cur, copy[cur])) \/ UNCHANGED apiVars
    BY DEF Publish
  <1>3. \A t \in Tenants \ {cur} : store'[t] = store[t] /\ pending'[t] = pending[t]
    BY <1>1, <1>2, PutPending, KindOf DEF TypeOK, apiVars
  <1>4. store'[cur] = store[cur] \/ store'[cur] = copy[cur]
    BY <1>1, <1>2, PutPending DEF TypeOK, apiVars
  <1>5. TenantsThere'
    <2>1. cur' = None
      BY DEF Publish, BecomeIdle
    <2> QED BY <1>1, <1>3, <1>4, <2>1 DEF RetryInv, TenantsThere
  <1>6. queue \subseteq queue'
    BY DEF Publish, Requeue
  <1>7. \A t \in Tenants \ {cur} : store'[t].state = "failed" => t \in queue' \/ ~CacheCurrent(t)'
    BY <1>3, <1>6 DEF RetryInv, FailureRetried, CacheCurrent
  <1>8. store'[cur].state = "failed" => cur \in queue'
    <2>1. CASE cur \in queue'
      BY <2>1
    <2>2. CASE cur \notin queue'
      <3>1. copy[cur].state = "ready" /\ Put(cur, copy[cur])
        BY <2>2 DEF Publish, Requeue
      <3>2. store'[cur] = copy[cur]
        BY <1>1, <3>1, PutPending DEF TypeOK
      <3> QED BY <3>1, <3>2
    <2> QED BY <2>1, <2>2
  <1> QED BY <1>5, <1>7, <1>8 DEF RetryInv, FailureRetried

LEMMA RetryWorking ==
    ASSUME TypeOK, RetryInv, Working, ~Publish
    PROVE  RetryInv'
  <1>1. cur' = cur /\ cur \in Tenants
    BY WorkingOn
  <1>2. TenantsThere'
    BY <1>1, WorkingFrame DEF RetryInv, TenantsThere
  <1>3. FailureRetried'
    BY <1>1, WorkingFrame DEF RetryInv, FailureRetried, CacheCurrent
  <1> QED BY <1>2, <1>3 DEF RetryInv

LEMMA AbsentTenant == \A t \in Tenants : Absent(t).state = "none"
  BY KindOf DEF Absent

LEMMA RetryStart ==
    ASSUME TypeOK, CacheCoherent, RetryInv, NEW t \in Tenants, StartReconcile(t)
    PROVE  RetryInv'
  <1> USE DEF At
  <1>1. /\ UNCHANGED apiVars /\ queue' = queue \ {t} /\ cur = None /\ t \in Objects
    BY KindOf DEF StartReconcile, TypeOK, WorkerTypeOK
  <1>2. CASE ~cache[t].exists
    <2>1. CacheCurrent(t) => store[t].state = "none"
      <3>1. CacheCurrent(t) => store[t] = cache[t]
        BY <1>1 DEF CacheCurrent, CacheCoherent, Latest
      <3> QED BY <1>2, <3>1, AbsentTenant DEF RetryInv, TenantsThere
    <2>2. UNCHANGED <<cur, copy>>
      BY <1>2 DEF StartReconcile, workerVars
    <2> QED BY <1>1, <2>1, <2>2 DEF RetryInv, TenantsThere, FailureRetried, CacheCurrent, apiVars
  <1>3. CASE cache[t].exists
    <2>1. cur' = t /\ copy'[t].exists
      BY <1>1, <1>3 DEF StartReconcile, Read
    <2>2. TenantsThere'
      BY <1>1, <2>1 DEF RetryInv, TenantsThere, apiVars
    <2>3. FailureRetried'
      BY <1>1, <2>1, KindOf DEF RetryInv, FailureRetried, CacheCurrent, apiVars
    <2> QED BY <2>2, <2>3 DEF RetryInv
  <1> QED BY <1>2, <1>3

LEMMA RetryEvents ==
    ASSUME TypeOK, RetryInv, (\E x \in Objects : DeliverEvent(x)) \/ Restart
    PROVE  RetryInv'
  <1>1. UNCHANGED store
    BY DEF DeliverEvent, Deliver, Restart, InitialSync
  <1>2. ASSUME NEW x \in Objects, DeliverEvent(x) PROVE RetryInv'
    <2>1. UNCHANGED <<cur, copy>> /\ queue' = queue \cup QueuedBy(x)
      BY <1>2 DEF DeliverEvent, workerVars
    <2>2. TenantsThere'
      BY <1>1, <2>1 DEF RetryInv, TenantsThere
    <2>3. \A t \in Tenants \ {x} : pending'[t] = pending[t]
      BY <1>2, KindOf DEF DeliverEvent, Deliver, TypeOK, ApiTypeOK
    <2>4. FailureRetried'
      BY <1>1, <2>1, <2>3 DEF RetryInv, FailureRetried, CacheCurrent, QueuedBy
    <2> QED BY <2>2, <2>4 DEF RetryInv
  <1>3. CASE Restart
    <2>1. cur' = None /\ queue' = {t \in Tenants : store[t].exists}
      BY <1>3 DEF Restart, BecomeIdle
    <2>2. TenantsThere'
      BY <1>1, <2>1 DEF RetryInv, TenantsThere
    <2>3. FailureRetried'
      BY <1>1, <2>1, AbsentTenant DEF RetryInv, TenantsThere, FailureRetried
    <2> QED BY <2>2, <2>3 DEF RetryInv
  <1> QED BY <1>2, <1>3

LEMMA RetryUsers ==
    ASSUME TypeOK, RetryInv, UserStep
    PROVE  RetryInv'
  <1>0. queue \subseteq queue'
    BY DEF UserStep, ApplyTenant, ApplySubscription, ApplyOther, Delete, Edit, Relabel, ChangeSecret
  <1>1. CASE UNCHANGED <<apiVars, workerVars, fresh>>
    BY <1>0, <1>1 DEF RetryInv, TenantsThere, FailureRetried, CacheCurrent, apiVars, workerVars
  <1>2. ASSUME NEW x \in Objects, NEW v \in Values(x), Edit(x, v), LeavesStatus(x, v)
        PROVE  RetryInv'
    <2>1. /\ Put(x, v) /\ v # store[x] /\ UNCHANGED <<cur, copy>>
          /\ v = Absent(x) \/ v.exists
      BY <1>2 DEF Edit, workerVars, LeavesStatus
    <2>2. /\ store'[x] = v /\ ~CacheCurrent(x)'
          /\ \A y \in Objects \ {x} : store'[y] = store[y] /\ pending'[y] = pending[y]
      BY <1>2, <2>1, PutPending DEF TypeOK
    <2>3. TenantsThere'
      BY <2>1, <2>2, KindOf DEF RetryInv, TenantsThere
    <2>4. FailureRetried'
      BY <1>0, <2>1, <2>2, KindOf DEF RetryInv, FailureRetried, CacheCurrent
    <2> QED BY <2>3, <2>4 DEF RetryInv
  <1> QED BY <1>1, <1>2, UserWrite

LEMMA RetryNextStep == TypeOK /\ OwnershipInv /\ RetryInv /\ [Next]_vars => RetryInv'
  <1>1. ASSUME RetryInv, UNCHANGED vars PROVE RetryInv'
    BY <1>1 DEF RetryInv, TenantsThere, FailureRetried, CacheCurrent, vars, workerVars, apiVars
  <1> QED BY <1>1, RetryPublish, RetryWorking, RetryStart, RetryEvents, RetryUsers
    DEF Next, Working, Failure, OwnershipInv

LEMMA RetryInitial == Init => RetryInv
  <1> SUFFICES ASSUME Init PROVE RetryInv
    OBVIOUS
  <1>1. ASSUME NEW t \in Tenants
        PROVE  store[t].state = "none" /\ (store[t].exists \/ store[t] = Absent(t))
    <2>1. t \in Objects /\ t \notin Subscriptions /\ store[t] = InitialObject(t)
      BY KindOf DEF Init, Owned
    <2>2. Absent(t) \in TenantObj /\ Absent(t).state = "none" /\ Created(t) \in TenantObj
      BY <2>1, AbsentType, CreatedType, AbsentTenant, KindOf
    <2>3. Created(t).state = "none" /\ Created(t).exists
      BY <2>2 DEF Created, TenantObj
    <2>4. /\ [Created(t) EXCEPT !.spec = InitSpec[t]].state = "none"
          /\ [Created(t) EXCEPT !.spec = InitSpec[t]].exists
      BY <2>2, <2>3 DEF TenantObj
    <2> QED BY <2>1, <2>2, <2>4 DEF InitialObject
  <1>2. cur = None
    BY DEF Init
  <1> QED BY <1>1, <1>2 DEF RetryInv, TenantsThere, FailureRetried

\* A tenant whose status says failed is in the work queue, in the worker's
\* hands, or an event that queues it is on its way: handleTenantReconcileError
\* returns an error, a lost or refused update of the status is one, and a
\* restart queues what exists.
THEOREM FailuresRetried == Spec => []FailureRetried
  <1>1. Spec => []RetryInv
    BY TypeCorrect, OwnershipInvariant, RetryInitial, RetryNextStep, PTL DEF Spec
  <1> QED BY <1>1, PTL DEF RetryInv

=============================================================================
