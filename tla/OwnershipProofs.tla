-------------------------- MODULE OwnershipProofs --------------------------
(***************************************************************************)
(* The tenant controller implements TenantOwnership: the argument rests on *)
(* OwnershipInv, which says that a copy with the stored resourceVersion    *)
(* tells the truth, so that a successful update changes the owner the way  *)
(* the worker believes it does.                                            *)
(***************************************************************************)
EXTENDS RouteProofs, SequenceTheorems

-----------------------------------------------------------------------------
(* The watch streams end with the stored object *)

LEMMA PutCoherent ==
    ASSUME ApiTypeOK, CacheCoherent, NEW x \in Objects, NEW v \in Values(x), Put(x, v)
    PROVE  CacheCoherent'
  <1>1. \A y \in Objects \ {x} : store'[y] = store[y] /\ pending'[y] = pending[y]
    BY DEF Put, ApiTypeOK
  <1>2. CASE v = store[x]
    BY <1>1, <1>2 DEF Put, ApiTypeOK, CacheCoherent, Latest
  <1>3. CASE v # store[x]
    <2>1. store'[x] = v /\ pending'[x] = Append(pending[x], v)
      BY <1>3 DEF Put, ApiTypeOK
    <2>2. pending'[x] # <<>> /\ pending'[x][Len(pending'[x])] = v
      BY <2>1 DEF ApiTypeOK
    <2> QED BY <1>1, <2>1, <2>2 DEF Put, CacheCoherent, Latest
  <1> QED BY <1>2, <1>3

\* Taking the first element away does not change the last one.
LEMMA LastOfTail ==
    ASSUME NEW S, NEW s \in Seq(S), s # <<>>
    PROVE  s[Len(s)] = IF Tail(s) = <<>> THEN Head(s) ELSE Tail(s)[Len(Tail(s))]
  <1> DEFINE rest == Tail(s)
             n == Len(s)
  <1>1. /\ n \in Nat \ {0} /\ Len(rest) = n - 1 /\ rest \in Seq(S)
        /\ \A i \in 1 .. Len(rest) : rest[i] = s[i + 1]
    BY EmptySeq, HeadTailProperties
  <1>2. CASE rest = <<>>
    <2>1. Len(rest) = 0
      BY <1>2, Zenon, EmptySeq
    <2>2. n = 1
      <3> HIDE DEF rest, n
      <3> QED BY <1>1, <2>1
    <2> QED BY <1>2, <2>2
  <1>3. CASE rest # <<>>
    <2>1. Len(rest) \in 1 .. Len(rest)
      BY <1>1, <1>3, EmptySeq
    <2> QED BY <1>1, <1>3, <2>1
  <1> QED BY <1>2, <1>3

LEMMA DeliverCoherent ==
    ASSUME ApiTypeOK, CacheCoherent, NEW x \in Objects, Deliver(x)
    PROVE  CacheCoherent'
  <1>1. \A y \in Objects \ {x} : cache'[y] = cache[y] /\ pending'[y] = pending[y]
    BY DEF Deliver, ApiTypeOK
  <1>2. cache'[x] = Head(pending[x]) /\ pending'[x] = Tail(pending[x])
    BY DEF Deliver, ApiTypeOK
  <1>3. pending[x] \in Seq(Values(x)) /\ pending[x] # <<>>
    BY DEF Deliver, ApiTypeOK
  <1>4. Latest(x)' = Latest(x)
    BY <1>2, <1>3, LastOfTail DEF Latest
  <1> QED BY <1>1, <1>4 DEF Deliver, CacheCoherent, Latest

LEMMA SyncCoherent == ASSUME InitialSync PROVE CacheCoherent'
  BY DEF InitialSync, CacheCoherent, Latest

LEMMA StutterCoherent == CacheCoherent /\ UNCHANGED apiVars => CacheCoherent'
  BY DEF CacheCoherent, Latest, apiVars

LEMMA UpdateCoherent ==
    ASSUME ApiTypeOK, CacheCoherent, NEW x \in Objects, NEW v \in Values(x),
           UpdateOk(x, v) \/ UpdateErr(x, v)
    PROVE  CacheCoherent'
  BY PutCoherent, StutterCoherent DEF UpdateOk, UpdateErr

-----------------------------------------------------------------------------
(* Steps, seen through ownership *)

\* The ownership of no resource changes.
Quiet == \A r \in Owned : store'[r].exists = store[r].exists /\ store'[r].tenant = store[r].tenant
Refined == [Ownership!OwnNext]_(Ownership!ownVars)

LEMMA QuietStep ==
    ASSUME Quiet,
           \/ cur' = cur
           \/ cur = None /\ cur' \in Tenants
           \/ cur # None /\ cur' = None
    PROVE  Refined
  <1> DEFINE present == {r \in Owned : store[r].exists}
             owner == [r \in Owned |-> store[r].tenant]
  <1>1. present' = present /\ owner' = owner
    BY DEF Quiet
  <1>2. CASE cur' = cur
    BY <1>1, <1>2 DEF Refined, Ownership!ownVars
  <1>3. CASE cur = None /\ cur' \in Tenants
    <2>1. Ownership!Begin(cur')
      BY <1>1, <1>3 DEF Ownership!Begin
    <2> QED BY <1>3, <2>1 DEF Refined, Ownership!OwnNext
  <1>4. CASE cur # None /\ cur' = None
    <2>1. Ownership!End
      BY <1>1, <1>4 DEF Ownership!End
    <2> QED BY <2>1 DEF Refined, Ownership!OwnNext
  <1> QED BY <1>2, <1>3, <1>4

\* A write that leaves existence and owner of its object alone is quiet.
LEMMA QuietPut ==
    ASSUME ApiTypeOK, NEW x \in Objects, NEW v, Put(x, v),
           x \in Owned => v.exists = store[x].exists /\ v.tenant = store[x].tenant
    PROVE  Quiet
  BY DEF Put, Quiet, ApiTypeOK, Owned

LEMMA QuietUpdate ==
    ASSUME ApiTypeOK, NEW x \in Objects, NEW v, UpdateOk(x, v) \/ UpdateErr(x, v),
           x \in fresh \cap Owned => v.exists = store[x].exists /\ v.tenant = store[x].tenant
    PROVE  Quiet
  <1>1. CASE UNCHANGED store
    BY <1>1 DEF Quiet
  <1>2. CASE x \in fresh /\ Put(x, v)
    BY <1>2, QuietPut
  <1> QED BY <1>1, <1>2 DEF UpdateOk, UpdateErr, apiVars

LEMMA QuietStutter == ASSUME UNCHANGED store PROVE Quiet
  BY DEF Quiet

-----------------------------------------------------------------------------
(* The invariant, and the step each action refines *)

LEMMA LocalStep ==
    ASSUME OwnershipInv, UNCHANGED apiVars, FreshTrue', ReleasesOwn',
           cur' = cur \/ (cur = None /\ cur' \in Tenants) \/ (cur # None /\ cur' = None)
    PROVE  OwnershipInv' /\ Refined
  <1>1. Refined
    BY QuietStutter, QuietStep DEF apiVars
  <1>2. AbsentFree'
    BY DEF OwnershipInv, AbsentFree, apiVars
  <1> QED BY <1>1, <1>2, StutterCoherent DEF OwnershipInv

\* New copies of cached objects: fresh ones equal the stored object.
LEMMA ReadTrue ==
    ASSUME TypeOK, CacheCoherent, FreshTrue, NEW xs \in SUBSET Objects, Read(xs),
           UNCHANGED apiVars, \A x \in xs \cap Owned : cache[x].exists
    PROVE  FreshTrue'
  <1> SUFFICES ASSUME NEW r \in fresh' \cap Owned
               PROVE  copy'[r].exists /\ store[r].exists /\ copy'[r].tenant = store[r].tenant
    BY DEF FreshTrue, apiVars
  <1>1. r \in Objects
    BY KindOf
  <1>2. CASE r \in xs
    <2>1. CacheCurrent(r) /\ copy'[r] = cache[r]
      BY <1>1, <1>2 DEF Read
    <2>2. cache[r] = store[r]
      BY <1>1, <2>1 DEF CacheCurrent, CacheCoherent, Latest
    <2> QED BY <1>2, <2>1, <2>2
  <1>3. CASE r \notin xs
    BY <1>1, <1>3 DEF Read, FreshTrue
  <1> QED BY <1>2, <1>3

LEMMA KeepTrue ==
    ASSUME cur \in Tenants, NEW v, KeepTenant(v)
    PROVE  FreshTrue'
  BY KindOf DEF KeepTenant, FreshTrue

LEMMA FailTrue ==
    ASSUME cur \in Tenants, NEW step, Fail(step)
    PROVE  FreshTrue' /\ ReleasesOwn' /\ cur' = cur
  BY KeepTrue DEF Fail, ReleasesOwn, At

LEMMA OwnListSteps ==
    ASSUME TypeOK, OwnershipInv,
           \/ \E t \in Tenants : StartReconcile(t)
           \/ HandleLogSourceNamespaces \/ ReadError \/ ListOwned \/ ListReferencing
           \/ ListSourceBridges \/ ListTargetBridges
    PROVE  OwnershipInv' /\ Refined
  <1> USE DEF At
  <1>0. UNCHANGED apiVars
    BY DEF StartReconcile, HandleLogSourceNamespaces, ReadError, ListOwned, ListReferencing,
       ListSourceBridges, ListTargetBridges
  <1>1. ASSUME NEW t \in Tenants, StartReconcile(t) PROVE OwnershipInv' /\ Refined
    <2>1. CASE ~cache[t].exists
      BY <1>0, <1>1, <2>1, LocalStep
      DEF StartReconcile, OwnershipInv, FreshTrue, ReleasesOwn, workerVars, loopVars, apiVars
    <2>2. CASE cache[t].exists
      <3>0. {t} \in SUBSET Objects /\ Read({t}) /\ \A x \in {t} \cap Owned : cache[x].exists
        BY <1>1, <2>2, KindOf DEF StartReconcile
      <3>1. FreshTrue'
        BY <1>0, <3>0, ReadTrue DEF OwnershipInv
      <3>2. pc' = "logsources" /\ (cur' = cur \/ (cur = None /\ cur' \in Tenants))
        BY <1>1, <2>2 DEF StartReconcile, TypeOK, WorkerTypeOK
      <3> QED BY <1>0, <3>1, <3>2, LocalStep DEF ReleasesOwn
    <2> QED BY <2>1, <2>2
  <1>2. CASE (\E step : Fail(step)) /\ pc # "idle"
    <2>1. cur \in Tenants
      BY <1>2 DEF TypeOK, WorkerTypeOK
    <2> QED BY <1>0, <1>2, <2>1, FailTrue, LocalStep
  <1>3. ASSUME HandleLogSourceNamespaces, ~ \E step : Fail(step) PROVE OwnershipInv' /\ Refined
    <2>1. cur \in Tenants /\ cur \notin Owned
      BY <1>3, KindOf DEF HandleLogSourceNamespaces, TypeOK, WorkerTypeOK
    <2>2. \A r \in Owned : copy'[r] = copy[r]
      BY <1>3, <2>1, KindOf DEF HandleLogSourceNamespaces, SetCopy, TypeOK, WorkerTypeOK
    <2>3. FreshTrue'
      BY <1>0, <1>3, <2>2 DEF HandleLogSourceNamespaces, OwnershipInv, FreshTrue, apiVars
    <2> QED BY <1>0, <1>3, <2>3, LocalStep DEF HandleLogSourceNamespaces, ReleasesOwn
  <1>4. ASSUME ListOwned, ~ \E step : Fail(step) PROVE OwnershipInv' /\ Refined
    <2>1. Selected(cur, kind) \in SUBSET Objects /\ Read(Selected(cur, kind))
      BY <1>4, KindOf DEF ListOwned, Selected, OfKind, Owned
    <2>2. FreshTrue'
      BY <1>0, <2>1, ReadTrue DEF Selected, OwnershipInv
    <2> QED BY <1>0, <1>4, <2>2, LocalStep DEF ListOwned, ReleasesOwn
  <1>5. CASE ListReferencing
    <2>1. Unselected(cur, kind) \in SUBSET Objects /\ Read(Unselected(cur, kind))
      BY <1>5, KindOf DEF ListReferencing, Unselected, OfKind, Owned
    <2>2. FreshTrue'
      BY <1>0, <2>1, ReadTrue DEF Unselected, OwnershipInv
    <2>3. ReleasesOwn'
      BY <1>5, <2>1 DEF ListReferencing, ReleasesOwn, Unselected, Read
    <2> QED BY <1>0, <1>5, <2>2, <2>3, LocalStep DEF ListReferencing
  <1>6. CASE ListSourceBridges
    <2>1. /\ Listed("source") \in SUBSET Objects /\ Listed("source") \cap Owned = {}
          /\ Read(Listed("source"))
      BY <1>6, KindOf DEF ListSourceBridges, Listed
    <2>2. FreshTrue'
      BY <1>0, <2>1, ReadTrue DEF OwnershipInv
    <2> QED BY <1>0, <1>6, <2>2, LocalStep DEF ListSourceBridges, ReleasesOwn
  <1>7. CASE ListTargetBridges
    <2> DEFINE bs == {b \in Listed("target") : <<b, "source">> \notin todo}
    <2>1. bs \cap Owned = {} /\ cur \notin Owned
      BY <1>7, KindOf DEF ListTargetBridges, Listed, TypeOK, WorkerTypeOK
    <2>2. \A r \in Owned : copy'[r] = copy[r] /\ (r \in fresh' => r \in fresh)
      BY <1>7, <2>1, KindOf DEF ListTargetBridges, ReadBridges
    <2>3. FreshTrue'
      BY <1>0, <2>2 DEF OwnershipInv, FreshTrue, apiVars
    <2> QED BY <1>0, <1>7, <2>3, LocalStep DEF ListTargetBridges, ReleasesOwn
  <1> QED BY <1>1, <1>2, <1>3, <1>4, <1>5, <1>6, <1>7
    DEF HandleLogSourceNamespaces, ReadError, ListOwned

LEMMA OwnPassSteps ==
    ASSUME TypeOK, OwnershipInv,
           \/ FinishOutputs \/ BeginValidation \/ CheckSubscriptions \/ FinishBridges
           \/ \E s \in Subscriptions : PickSubscription(s)
    PROVE  OwnershipInv' /\ Refined
  <1> USE DEF At
  <1>0. cur \in Tenants /\ cur \notin Owned /\ UNCHANGED apiVars /\ cur' = cur
    <2>1. pc # "idle" /\ UNCHANGED apiVars /\ cur' = cur
      BY DEF FinishOutputs, BeginValidation, CheckSubscriptions, FinishBridges, PickSubscription,
         Fail
    <2> QED BY <2>1, KindOf DEF TypeOK, WorkerTypeOK
  <1>1. pc' # "release"
    BY DEF FinishOutputs, BeginValidation, CheckSubscriptions, FinishBridges, PickSubscription, Fail
  <1>2. FreshTrue'
    <2>1. CASE \E v : KeepTenant(v)
      BY <1>0, <2>1, KeepTrue
    <2>2. CASE UNCHANGED fresh /\ \A r \in Owned : copy'[r] = copy[r]
      BY <1>0, <2>2 DEF OwnershipInv, FreshTrue, apiVars
    <2>3. ASSUME BeginValidation PROVE UNCHANGED fresh /\ \A r \in Owned : copy'[r] = copy[r]
      BY <1>0, <2>3, KindOf DEF BeginValidation, SetCopy, TypeOK, WorkerTypeOK
    <2> QED BY <2>1, <2>2, <2>3
      DEF FinishOutputs, CheckSubscriptions, FinishBridges, PickSubscription, Fail
  <1> QED BY <1>0, <1>1, <1>2, LocalStep DEF ReleasesOwn

\* A quiet write to a resource by the worker, and one to anything else.
LEMMA QuietWrite ==
    ASSUME TypeOK, OwnershipInv, NEW x \in Objects, NEW v \in Values(x),
           UpdateOk(x, v) \/ UpdateErr(x, v) \/ (x \in fresh /\ Put(x, v)) \/ UNCHANGED apiVars,
           x \in fresh \cap Owned => v.exists = store[x].exists /\ v.tenant = store[x].tenant
    PROVE  CacheCoherent' /\ AbsentFree' /\ Quiet
  <1>1. CASE UNCHANGED apiVars
    BY <1>1, StutterCoherent, QuietStutter DEF OwnershipInv, AbsentFree, apiVars
  <1>2. CASE x \in fresh /\ Put(x, v)
    <2>1. CacheCoherent' /\ Quiet
      BY <1>2, PutCoherent, QuietPut DEF TypeOK, OwnershipInv
    <2>2. \A r \in Owned : store'[r] = store[r] \/ (r = x /\ store'[r] = v)
      BY <1>2 DEF Put, TypeOK, ApiTypeOK
    <2>3. x \in Owned => v.exists
      BY <1>2 DEF OwnershipInv, FreshTrue
    <2> QED BY <2>1, <2>2, <2>3 DEF OwnershipInv, AbsentFree
  <1> QED BY <1>1, <1>2 DEF UpdateOk, UpdateErr

LEMMA OwnConflictStep ==
    ASSUME TypeOK, OwnershipInv, NEW r \in Owned, MarkConflict(r)
    PROVE  OwnershipInv' /\ Refined
  <1>1. r \in Objects /\ Values(r) = Resource /\ copy[r] \in Resource
    BY CopyTypes, KindOf
  <1>2. /\ AsConflict(copy[r]) \in Values(r)
        /\ AsConflict(copy[r]).exists = copy[r].exists
        /\ AsConflict(copy[r]).tenant = copy[r].tenant
    BY <1>1, WrittenResource DEF AsConflict, Resource
  <1>3. CacheCoherent' /\ AbsentFree' /\ Quiet
    BY <1>1, <1>2, QuietWrite DEF MarkConflict, OwnershipInv, FreshTrue
  <1>4. FreshTrue'
    BY <1>3, KindOf DEF MarkConflict, Drop, OwnershipInv, FreshTrue, Quiet, TypeOK, WorkerTypeOK
  <1>5. ReleasesOwn' /\ cur' = cur
    BY DEF MarkConflict, ReleasesOwn, At
  <1> QED BY <1>3, <1>4, <1>5, QuietStep DEF OwnershipInv

\* The owner of r becomes u by a successful or a lost answer; all else stays.
LEMMA OwnerWrite ==
    ASSUME TypeOK, OwnershipInv, NEW r \in Owned, NEW u \in Tenants \cup {None},
           r \in fresh, Put(r, AsTaken(copy[r], u))
    PROVE  /\ CacheCoherent' /\ AbsentFree'
           /\ store'[r].exists /\ store[r].exists /\ store'[r].tenant = u
           /\ \A q \in Owned \ {r} : store'[q] = store[q]
  <1>1. r \in Objects /\ Values(r) = Resource /\ copy[r] \in Resource
    BY CopyTypes, KindOf
  <1>2. /\ AsTaken(copy[r], u) \in Values(r)
        /\ AsTaken(copy[r], u).exists = copy[r].exists /\ AsTaken(copy[r], u).tenant = u
    BY <1>1, WrittenResource DEF AsTaken, Resource
  <1>3. CacheCoherent'
    BY <1>1, <1>2, PutCoherent DEF TypeOK, OwnershipInv
  <1>4. /\ store'[r] = AsTaken(copy[r], u)
        /\ \A q \in Owned \ {r} : store'[q] = store[q]
    BY <1>1, KindOf DEF Put, TypeOK, ApiTypeOK
  <1>5. copy[r].exists /\ store[r].exists
    BY DEF OwnershipInv, FreshTrue
  <1>6. AbsentFree'
    BY <1>2, <1>4, <1>5 DEF OwnershipInv, AbsentFree
  <1> QED BY <1>2, <1>3, <1>4, <1>5, <1>6

LEMMA OwnAdoptStep ==
    ASSUME TypeOK, OwnershipInv, NEW r \in Owned, Adopt(r)
    PROVE  OwnershipInv' /\ Refined
  <1> USE DEF At
  <1> DEFINE v == AsTaken(copy[r], cur)
             ok == UpdateOk(r, v) /\ SetCopy(r, v) /\ UNCHANGED fresh
             err == UpdateErr(r, v) /\ Drop(r)
  <1>1. /\ r \in Objects /\ copy[r] \in Resource /\ cur \in Tenants /\ cur' = cur
        /\ copy[r].tenant = None /\ pc' = "claim" /\ (ok \/ err)
    BY CopyTypes, KindOf DEF Adopt, Conflicting, TypeOK, WorkerTypeOK
  <1>2. v.exists = copy[r].exists /\ v.tenant = cur
    BY <1>1 DEF AsTaken, Resource
  <1>3. CASE r \in fresh /\ Put(r, v)
    \* The resource was free, and the tenant takes it.
    <2>1. /\ CacheCoherent' /\ AbsentFree' /\ store'[r].exists /\ store[r].exists
          /\ store'[r].tenant = cur /\ \A q \in Owned \ {r} : store'[q] = store[q]
      BY <1>1, <1>3, OwnerWrite
    <2>2. store[r].tenant = None
      BY <1>1, <1>3 DEF OwnershipInv, FreshTrue
    <2>3. Ownership!Take(cur, r)
      BY <1>1, <2>1, <2>2 DEF Ownership!Take
    <2>4. Refined
      BY <1>1, <2>3 DEF Refined, Ownership!OwnNext
    <2>5. \A q \in fresh' \cap Owned : q # r => q \in fresh /\ copy'[q] = copy[q]
      BY <1>1, KindOf DEF SetCopy, Drop, TypeOK, WorkerTypeOK
    <2>6. r \in fresh' => copy'[r] = v
      BY <1>1 DEF SetCopy, Drop, TypeOK, WorkerTypeOK
    <2>7. copy[r].exists
      BY <1>3 DEF OwnershipInv, FreshTrue
    <2>8. FreshTrue'
      BY <1>2, <2>1, <2>5, <2>6, <2>7 DEF OwnershipInv, FreshTrue
    <2> QED BY <1>1, <2>1, <2>4, <2>8 DEF OwnershipInv, ReleasesOwn
  <1>4. CASE UNCHANGED apiVars /\ err
    <2>1. FreshTrue'
      BY <1>1, <1>4, KindOf DEF Drop, OwnershipInv, FreshTrue, apiVars, TypeOK, WorkerTypeOK
    <2> QED BY <1>1, <1>4, <2>1, LocalStep DEF ReleasesOwn
  <1> QED BY <1>1, <1>3, <1>4 DEF UpdateOk, UpdateErr

LEMMA OwnDisownStep ==
    ASSUME TypeOK, OwnershipInv, NEW r \in Owned, Disown(r)
    PROVE  OwnershipInv' /\ Refined
  <1> USE DEF At
  <1>1. /\ r \in Objects /\ cur \in Tenants /\ cur' = cur /\ Drop(r)
        /\ copy[r].tenant = cur /\ todo' = todo \ {r} /\ todo \subseteq Owned
    BY KindOf DEF Disown, OwnershipInv, ReleasesOwn, TypeOK, WorkerTypeOK, OfKind, Owned
  <1>2. \A q \in Owned : q # r => copy'[q] = copy[q]
    BY <1>1, KindOf DEF Drop, TypeOK, WorkerTypeOK
  <1>3. ReleasesOwn'
    BY <1>1, <1>2 DEF Disown, OwnershipInv, ReleasesOwn
  <1>4. CASE r \in fresh /\ Put(r, AsTaken(copy[r], None))
    \* The resource was the tenant's, and the tenant gives it up.
    <2>1. /\ CacheCoherent' /\ AbsentFree' /\ store'[r].exists /\ store[r].exists
          /\ store'[r].tenant = None /\ \A q \in Owned \ {r} : store'[q] = store[q]
      BY <1>1, <1>4, OwnerWrite
    <2>2. store[r].tenant = cur
      BY <1>1, <1>4 DEF OwnershipInv, FreshTrue
    <2>3. Ownership!GiveUp(cur, r)
      BY <1>1, <2>1, <2>2 DEF Ownership!GiveUp
    <2>4. Refined
      BY <1>1, <2>3 DEF Refined, Ownership!OwnNext
    <2>5. FreshTrue'
      BY <1>1, <1>2, <2>1 DEF Drop, OwnershipInv, FreshTrue
    <2> QED BY <1>3, <2>1, <2>4, <2>5 DEF OwnershipInv
  <1>5. CASE UNCHANGED apiVars
    <2>1. FreshTrue'
      BY <1>1, <1>2, <1>5 DEF Drop, OwnershipInv, FreshTrue, apiVars
    <2> QED BY <1>1, <1>3, <1>5, <2>1, LocalStep
  <1> QED BY <1>4, <1>5 DEF Disown, UpdateOk, UpdateErr

\* What the validation of an output writes, to the store and to the copy, has
\* the existence and the tenant of the copy.
LEMMA OutputWrite ==
    ASSUME TypeOK, NEW o \in Outputs, CheckOutput(o) \/ SecretError(o)
    PROVE  \E v \in Values(o), w \in Values(o) :
             /\ v.exists = copy[o].exists /\ v.tenant = copy[o].tenant
             /\ w.exists = copy[o].exists /\ w.tenant = copy[o].tenant
             /\ UpdateOk(o, v) \/ UpdateErr(o, v) \/ (o \in fresh /\ Put(o, v)) \/ UNCHANGED apiVars
             /\ SetCopy(o, w) \/ UNCHANGED copy
             /\ fresh' \subseteq fresh
  <1>0. o \in Objects /\ o \in Owned /\ copy[o] \in Resource /\ Values(o) = Resource
    BY CopyTypes, KindOf DEF Owned
  <1>1. /\ Wrong(o) \in SUBSET {"tenantMismatch", "secret"}
        /\ Wrong(o) \cup {"secret"} \in SUBSET {"tenantMismatch", "secret"}
    BY DEF Wrong
  <1>2. \A ps \in SUBSET {"tenantMismatch", "secret"} :
          /\ AsInvalid(copy[o], ps) \in Values(o)
          /\ AsInvalid(copy[o], ps).exists = copy[o].exists
          /\ AsInvalid(copy[o], ps).tenant = copy[o].tenant
    BY <1>0, WrittenResource DEF AsInvalid, Resource
  <1>3. /\ AsReady(copy[o]) \in Values(o)
        /\ AsReady(copy[o]).exists = copy[o].exists
        /\ AsReady(copy[o]).tenant = copy[o].tenant
    BY <1>0, WrittenResource DEF AsReady, Resource
  <1>4. /\ [AsReady(copy[o]) EXCEPT !.state = "failed"] \in Values(o)
        /\ [AsReady(copy[o]) EXCEPT !.state = "failed"].exists = copy[o].exists
        /\ [AsReady(copy[o]) EXCEPT !.state = "failed"].tenant = copy[o].tenant
    BY <1>0, WrittenResource DEF AsReady, Resource
  <1>5. CASE RejectUnknown(o)
    BY <1>0, <1>3, <1>5 DEF RejectUnknown
  <1>6. CASE RejectInvalid(o, Wrong(o))
    BY <1>1, <1>2, <1>6 DEF RejectInvalid, StaleIfChanged
  <1>7. CASE Accept(o)
    BY <1>3, <1>4, <1>7 DEF Accept, StaleIfChanged
  <1>8. CASE SecretError(o)
    BY <1>1, <1>2, <1>8 DEF SecretError
  <1> QED BY <1>5, <1>6, <1>7, <1>8 DEF CheckOutput

LEMMA OwnOutputSteps ==
    ASSUME TypeOK, OwnershipInv, NEW o \in Outputs, CheckOutput(o) \/ SecretError(o)
    PROVE  OwnershipInv' /\ Refined
  <1> USE DEF At
  <1>1. o \in Objects /\ o \in Owned /\ copy[o] \in Resource /\ Values(o) = Resource
    BY CopyTypes, KindOf DEF Owned
  <1>2. PICK v \in Values(o), w \in Values(o) :
          /\ v.exists = copy[o].exists /\ v.tenant = copy[o].tenant
          /\ w.exists = copy[o].exists /\ w.tenant = copy[o].tenant
          /\ UpdateOk(o, v) \/ UpdateErr(o, v) \/ (o \in fresh /\ Put(o, v)) \/ UNCHANGED apiVars
          /\ SetCopy(o, w) \/ UNCHANGED copy
          /\ fresh' \subseteq fresh
    BY OutputWrite
  <1>3. CacheCoherent' /\ AbsentFree' /\ Quiet
    BY <1>1, <1>2, QuietWrite DEF OwnershipInv, FreshTrue
  <1>4. \A q \in Owned : copy'[q].exists = copy[q].exists /\ copy'[q].tenant = copy[q].tenant
    BY <1>1, <1>2, KindOf DEF SetCopy, TypeOK, WorkerTypeOK
  <1>5. FreshTrue'
    BY <1>2, <1>3, <1>4 DEF OwnershipInv, FreshTrue, Quiet
  <1>6. ReleasesOwn' /\ cur' = cur
    BY DEF CheckOutput, SecretError, ReleasesOwn
  <1> QED BY <1>3, <1>5, <1>6, QuietStep DEF OwnershipInv

LEMMA OwnSubscriptionStep ==
    ASSUME TypeOK, OwnershipInv, UpdateSubscription
    PROVE  OwnershipInv' /\ Refined
  <1> USE DEF At
  <1> DEFINE v == Validated(sub)
  <1>1. /\ cur \in Tenants /\ sub \in Subscriptions /\ sub \in Owned
        /\ sub \in Objects /\ Values(sub) = Resource /\ copy[sub] \in Resource
    BY CopyTypes, KindOf DEF UpdateSubscription, TypeOK, WorkerTypeOK, Owned
  <1>2. v \in Values(sub) /\ v.exists = copy[sub].exists /\ v.tenant = copy[sub].tenant
    BY <1>1, WrittenSubscription DEF TypeOK, WorkerTypeOK, Validated, Resource
  <1>3. UpdateOk(sub, v) \/ UpdateErr(sub, v)
    BY DEF UpdateSubscription
  <1>4. CacheCoherent' /\ AbsentFree' /\ Quiet
    BY <1>1, <1>2, <1>3, QuietWrite DEF OwnershipInv, FreshTrue
  <1>5. FreshTrue' /\ ReleasesOwn' /\ cur' = cur
    <2>1. CASE Fail("owned")
      BY <1>1, <2>1, FailTrue
    <2>2. CASE ~Fail("owned")
      <3>1. SetCopy(sub, v) /\ UNCHANGED <<fresh, cur>> /\ pc' = "validate"
        BY <2>2 DEF UpdateSubscription
      <3>2. \A q \in Owned : copy'[q].exists = copy[q].exists /\ copy'[q].tenant = copy[q].tenant
        BY <1>1, <1>2, <3>1, KindOf DEF SetCopy, TypeOK, WorkerTypeOK
      <3>3. FreshTrue'
        BY <1>4, <3>1, <3>2 DEF OwnershipInv, FreshTrue, Quiet
      <3> QED BY <3>1, <3>3 DEF ReleasesOwn
    <2> QED BY <2>1, <2>2
  <1> QED BY <1>4, <1>5, QuietStep DEF OwnershipInv

LEMMA OwnBridgeSteps ==
    ASSUME TypeOK, OwnershipInv, NEW b \in Bridges, NEW side \in Sides,
           RejectBridge(b, side) \/ AcceptBridge(b, side) \/ BridgeQueryError(b, side)
    PROVE  OwnershipInv' /\ Refined
  <1> USE DEF At
  <1>1. b \in Objects /\ b \notin Owned /\ copy[b] \in BridgeObj /\ Values(b) = BridgeObj
    BY CopyTypes, KindOf
  <1>2. cur \in Tenants /\ pc = "bridges"
    BY DEF RejectBridge, AcceptBridge, BridgeQueryError, NextBridge, TypeOK, WorkerTypeOK
  <1>3. /\ BridgeReady(b) \in Values(b) /\ BridgeFailed(b, "dangling") \in Values(b)
        /\ BridgeFailed(b, "query") \in Values(b)
    BY <1>1, WrittenBridge
  <1>4. PICK v \in Values(b) :
          UpdateOk(b, v) \/ UpdateErr(b, v) \/ (b \in fresh /\ Put(b, v)) \/ UNCHANGED apiVars
    BY <1>3 DEF RejectBridge, AcceptBridge, BridgeQueryError
  <1>5. CacheCoherent' /\ AbsentFree' /\ Quiet
    BY <1>1, <1>4, QuietWrite
  <1>6. FreshTrue' /\ ReleasesOwn' /\ cur' = cur
    <2>1. CASE Fail("bridges")
      BY <1>2, <2>1, FailTrue
    <2>2. CASE ~Fail("bridges")
      <3>1. UNCHANGED <<copy, cur, pc>> /\ fresh' \subseteq fresh
        BY <2>2 DEF RejectBridge, AcceptBridge, BridgeQueryError, StaleIfChanged
      <3>2. FreshTrue'
        BY <1>5, <3>1 DEF OwnershipInv, FreshTrue, Quiet
      <3> QED BY <1>2, <3>1, <3>2 DEF ReleasesOwn
    <2> QED BY <2>1, <2>2
  <1> QED BY <1>5, <1>6, QuietStep DEF OwnershipInv

LEMMA IdleTrue == ASSUME BecomeIdle PROVE FreshTrue' /\ ReleasesOwn' /\ cur' = None
  BY DEF BecomeIdle, FreshTrue, ReleasesOwn, At

LEMMA OwnPublishStep ==
    ASSUME TypeOK, OwnershipInv, Publish
    PROVE  OwnershipInv' /\ Refined
  <1>1. /\ cur \in Tenants /\ cur \in Objects /\ cur \notin Owned /\ cur # None
        /\ copy[cur] \in Values(cur)
    BY CopyTypes, KindOf DEF Publish, At, TypeOK, WorkerTypeOK
  <1>2. (cur \in fresh /\ Put(cur, copy[cur])) \/ UNCHANGED apiVars
    BY DEF Publish
  <1>3. CacheCoherent' /\ AbsentFree' /\ Quiet
    BY <1>1, <1>2, QuietWrite
  <1>4. FreshTrue' /\ ReleasesOwn' /\ cur' = None
    BY IdleTrue DEF Publish
  <1> QED BY <1>1, <1>3, <1>4, QuietStep DEF OwnershipInv

LEMMA OwnEventSteps ==
    ASSUME TypeOK, OwnershipInv, (\E x \in Objects : DeliverEvent(x)) \/ Restart
    PROVE  OwnershipInv' /\ Refined
  <1>1. UNCHANGED store
    BY DEF DeliverEvent, Deliver, Restart, InitialSync
  <1>2. AbsentFree' /\ Quiet
    BY <1>1, QuietStutter DEF OwnershipInv, AbsentFree
  <1>3. ASSUME NEW x \in Objects, DeliverEvent(x) PROVE OwnershipInv' /\ Refined
    <2>1. CacheCoherent'
      BY <1>3, DeliverCoherent DEF DeliverEvent, TypeOK, OwnershipInv
    <2>2. FreshTrue' /\ ReleasesOwn' /\ cur' = cur
      BY <1>1, <1>3
      DEF DeliverEvent, workerVars, loopVars, OwnershipInv, FreshTrue, ReleasesOwn, At
    <2> QED BY <1>2, <2>1, <2>2, QuietStep DEF OwnershipInv
  <1>4. CASE Restart
    <2>1. CacheCoherent' /\ FreshTrue' /\ ReleasesOwn' /\ cur' = None
      BY <1>4, SyncCoherent, IdleTrue DEF Restart
    <2> QED BY <1>2, <2>1, QuietStep DEF OwnershipInv
  <1> QED BY <1>3, <1>4

\* A user creates, changes or deletes x and leaves its status alone.
LeavesStatus(x, v) ==
    /\ v = Absent(x) \/ v.exists
    /\ x \in Owned => \/ v = Absent(x)
                      \/ v.exists /\ store[x].exists /\ v.tenant = store[x].tenant
                      \/ v.exists /\ ~store[x].exists /\ v.tenant = None

LEMMA OwnEditStep ==
    ASSUME TypeOK, OwnershipInv, NEW x \in Objects, NEW v \in Values(x), Edit(x, v),
           LeavesStatus(x, v)
    PROVE  OwnershipInv' /\ Refined
  <1> USE DEF LeavesStatus
  <1>1. Put(x, v) /\ fresh' = fresh \ {x} /\ UNCHANGED <<pc, cur, todo, copy>>
    BY DEF Edit, workerVars, loopVars
  <1>2. store'[x] = v /\ \A q \in Objects \ {x} : store'[q] = store[q]
    BY <1>1 DEF Put, TypeOK, ApiTypeOK
  <1>3. CacheCoherent'
    BY <1>1, PutCoherent DEF TypeOK, OwnershipInv
  <1>4. FreshTrue'
    BY <1>1, <1>2, KindOf DEF OwnershipInv, FreshTrue
  <1>5. ReleasesOwn'
    BY <1>1 DEF OwnershipInv, ReleasesOwn, At
  <1>6. AbsentFree'
    BY <1>2, KindOf DEF OwnershipInv, AbsentFree
  <1>7. Refined
    <2>0. ASSUME x \in Owned PROVE Absent(x).exists = FALSE /\ Absent(x).tenant = None
      BY <2>0 DEF Absent
    <2>1. CASE x \notin Owned
      <3>1. Quiet
        BY <1>2, <2>1, KindOf DEF Quiet
      <3> QED BY <1>1, <3>1, QuietStep
    <2>2. CASE x \in Owned /\ v.exists /\ store[x].exists
      <3>1. v.tenant = store[x].tenant
        BY <2>0, <2>2
      <3>2. Quiet
        BY <1>1, <2>2, <3>1, QuietPut DEF TypeOK, ApiTypeOK, Values, Resource
      <3> QED BY <1>1, <3>2, QuietStep
    <2>3. CASE x \in Owned /\ v.exists /\ ~store[x].exists
      \* The resource is new, and free as it was before.
      <3>1. v.tenant = None /\ store[x].tenant = None
        BY <2>0, <2>3 DEF OwnershipInv, AbsentFree
      <3>2. Ownership!Appear(x)
        BY <1>1, <1>2, <2>3, <3>1, KindOf DEF Ownership!Appear
      <3> QED BY <2>3, <3>2 DEF Refined, Ownership!OwnNext
    <2>4. CASE x \in Owned /\ v = Absent(x)
      <3>1. store[x].exists
        BY <2>4 DEF Edit, OwnershipInv, AbsentFree
      <3>2. Ownership!Vanish(x)
        BY <1>1, <1>2, <2>0, <2>4, <3>1, KindOf DEF Ownership!Vanish
      <3> QED BY <2>4, <3>2 DEF Refined, Ownership!OwnNext
    <2> QED BY <2>1, <2>2, <2>3, <2>4
  <1> QED BY <1>3, <1>4, <1>5, <1>6, <1>7 DEF OwnershipInv

\* Users create, change and delete objects and leave the status alone, or
\* touch what is no object of the model.
LEMMA UserWrite ==
    ASSUME TypeOK, UserStep
    PROVE  \/ UNCHANGED <<apiVars, workerVars, fresh>>
           \/ \E x \in Objects : \E v \in Values(x) : Edit(x, v) /\ LeavesStatus(x, v)
  <1> USE DEF LeavesStatus
  <1> DEFINE Goal == \E x \in Objects : \E v \in Values(x) : Edit(x, v) /\ LeavesStatus(x, v)
  <1>1. /\ \A x \in Objects : OrCreated(x) \in Values(x) /\ OrCreated(x).exists
        /\ \A r \in Owned : /\ store[r].exists => OrCreated(r).tenant = store[r].tenant
                            /\ ~store[r].exists => OrCreated(r).tenant = None
    <2>1. \A x \in Objects : OrCreated(x) \in Values(x) /\ OrCreated(x).exists
      BY CreatedType DEF OrCreated, TypeOK, ApiTypeOK
    <2>2. \A r \in Owned : Created(r).tenant = None
      BY DEF Created, Absent
    <2> QED BY <2>1, <2>2 DEF OrCreated
  <1>2. ASSUME NEW t \in Tenants, NEW spec \in TenantSpecs, ApplyTenant(t, spec)
        PROVE  Goal
    <2> DEFINE v == [OrCreated(t) EXCEPT !.spec = spec]
    <2>1. t \in Objects /\ t \notin Owned /\ Values(t) = TenantObj /\ OrCreated(t) \in TenantObj
      BY <1>1, KindOf
    <2>2. v \in Values(t) /\ v.exists = OrCreated(t).exists
      BY <2>1, SettingAssumption DEF TenantObj
    <2>3. Edit(t, v)
      BY <1>2 DEF ApplyTenant
    <2> HIDE DEF v
    <2> QED BY <1>1, <2>1, <2>2, <2>3
  <1>3. ASSUME NEW s \in Subscriptions, NEW rs \in RefChoices, ApplySubscription(s, rs)
        PROVE  Goal
    <2> DEFINE v == [OrCreated(s) EXCEPT !.refs = rs]
    <2>1. s \in Objects /\ s \in Owned /\ Values(s) = Resource /\ OrCreated(s) \in Resource
      BY <1>1, KindOf DEF Owned
    <2>2. v \in Values(s) /\ v.exists = OrCreated(s).exists /\ v.tenant = OrCreated(s).tenant
      BY <2>1, SettingAssumption DEF Resource
    <2>3. Edit(s, v)
      BY <1>3 DEF ApplySubscription
    <2> HIDE DEF v
    <2> QED BY <1>1, <2>1, <2>2, <2>3
  <1>4. ASSUME NEW x \in Outputs \cup Bridges, ApplyOther(x) PROVE Goal
    <2>1. x \in Objects
      BY KindOf DEF Owned
    <2> QED BY <1>1, <1>4, <2>1 DEF ApplyOther
  <1>5. ASSUME NEW x \in Objects, Delete(x) PROVE Goal
    BY <1>5, AbsentType DEF Delete
  <1> QED BY <1>2, <1>3, <1>4, <1>5 DEF UserStep, Relabel, ChangeSecret

LEMMA OwnUserSteps ==
    ASSUME TypeOK, OwnershipInv, UserStep
    PROVE  OwnershipInv' /\ Refined
  <1>1. ASSUME UNCHANGED <<apiVars, workerVars, fresh>> PROVE OwnershipInv' /\ Refined
    BY <1>1, LocalStep
    DEF apiVars, workerVars, loopVars, OwnershipInv, FreshTrue, ReleasesOwn, At
  <1> QED BY <1>1, UserWrite, OwnEditStep

-----------------------------------------------------------------------------
(* The theorems *)

LEMMA OwnNextStep == TypeOK /\ OwnershipInv /\ [Next]_vars => OwnershipInv' /\ Refined
  <1>1. ASSUME OwnershipInv, UNCHANGED vars PROVE OwnershipInv' /\ Refined
    BY <1>1, LocalStep
    DEF vars, apiVars, workerVars, loopVars, OwnershipInv, FreshTrue, ReleasesOwn, At
  <1> QED BY <1>1, OwnListSteps, OwnPassSteps, OwnConflictStep, OwnAdoptStep, OwnDisownStep,
             OwnOutputSteps, OwnSubscriptionStep, OwnBridgeSteps, OwnPublishStep, OwnEventSteps,
             OwnUserSteps
    DEF Next, WorkerStep, Failure

LEMMA OwnInitial == Init => OwnershipInv /\ Ownership!OwnInit
  <1> SUFFICES ASSUME Init PROVE OwnershipInv /\ Ownership!OwnInit
    OBVIOUS
  <1>1. CacheCoherent
    BY DEF Init, CacheCoherent, Latest
  <1>2. FreshTrue /\ ReleasesOwn
    BY DEF Init, FreshTrue, ReleasesOwn, At
  <1>3. \A r \in Owned : /\ store[r].tenant = None
                         /\ store[r].exists \/ store[r] = Absent(r)
    <2>1. \A r \in Owned : store[r] = InitialObject(r) /\ r \notin Tenants
      BY KindOf DEF Init
    <2>2. \A r \in Owned : /\ Absent(r).tenant = None
                           /\ Created(r).tenant = None /\ Created(r).exists = TRUE
                           /\ [Created(r) EXCEPT !.refs = InitRefs[r]].tenant = None
                           /\ [Created(r) EXCEPT !.refs = InitRefs[r]].exists = TRUE
      BY DEF Created, Absent
    <2> QED BY <2>1, <2>2 DEF InitialObject
  <1>4. AbsentFree
    BY <1>3 DEF AbsentFree
  <1>5. Ownership!OwnInit
    BY <1>3 DEF Ownership!OwnInit, Init
  <1> QED BY <1>1, <1>2, <1>4, <1>5 DEF OwnershipInv

\* Optimistic concurrency does its work: a copy that carries the stored
\* resourceVersion tells the truth about the owner, and what the worker is
\* about to disown was read as a resource of the tenant being reconciled.
THEOREM OwnershipInvariant == Spec => []OwnershipInv
  BY TypeCorrect, OwnInitial, OwnNextStep, PTL DEF Spec

\* The tenant controller implements TenantOwnership: adoption only of free
\* resources and giving up only by the owner, for any number of tenants,
\* resources, stale caches, failed requests, restarts and user edits.
THEOREM OwnershipRefinement == Spec => OwnershipSpec
  <1>1. TypeOK /\ OwnershipInv /\ [Next]_vars => Refined
    BY OwnNextStep
  <1> QED
    BY <1>1, TypeCorrect, OwnershipInvariant, OwnInitial, PTL
    DEF Spec, OwnershipSpec, Ownership!OwnSpec, Refined
=============================================================================
