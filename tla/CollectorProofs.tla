-------------------------- MODULE CollectorProofs --------------------------
(***************************************************************************)
(* What the collector controller reads, assembles and writes, for any      *)
(* number of tenants, subscriptions, outputs and bridges, any edits by     *)
(* others, any failures and restarts and any lag of the cache.             *)
(***************************************************************************)
EXTENDS CollectorReconciler, ConfigGenProofs

-----------------------------------------------------------------------------
(* What a write, a watch event and a restart do to the store, the cache and *)
(* the versions that are on their way, whatever the objects are             *)

\* Taking the first element away does not change the last one.
LEMMA LastOfTail ==
    ASSUME NEW S, NEW s \in Seq(S), s # <<>>
    PROVE  s[Len(s)] = IF Tail(s) = <<>> THEN Head(s) ELSE Tail(s)[Len(Tail(s))]
  <1> DEFINE rest == Tail(s)
             n == Len(s)
  <1>1. /\ n \in Nat \ {0} /\ Len(rest) = n - 1 /\ rest \in Seq(S)
        /\ \A i \in 1 .. Len(rest) : rest[i] = s[i + 1]
    BY EmptySeq, HeadTailProperties
  <1>2. CASE rest = <<>>
    <2>1. Len(rest) = 0
      BY <1>2, Zenon, EmptySeq
    <2>2. n = 1
      <3> HIDE DEF rest, n
      <3> QED BY <1>1, <2>1
    <2> QED BY <1>2, <2>2
  <1>3. CASE rest # <<>>
    <2>1. Len(rest) \in 1 .. Len(rest)
      BY <1>1, <1>3, EmptySeq
    <2> QED BY <1>1, <1>3, <2>1
  <1> QED BY <1>2, <1>3

\* A sequence over any set is one over the set of its elements.
LEMMA OverItsElements ==
    ASSUME NEW S, NEW s \in Seq(S), NEW T, \A i \in DOMAIN s : s[i] \in T
    PROVE  s \in Seq(T)
  <1>1. Len(s) \in Nat /\ DOMAIN s = 1 .. Len(s) /\ s \in [1 .. Len(s) -> S]
    BY LenProperties
  <1>2. s \in [1 .. Len(s) -> T]
    BY <1>1
  <1> QED BY <1>1, <1>2

-----------------------------------------------------------------------------
LEMMA PutStreams ==
    ASSUME Streams, NEW x \in Objects, NEW v, Put(x, v)
    PROVE  /\ Streams'
           /\ store'[x] = v /\ Versions(x)' \subseteq Versions(x) \cup {v}
           /\ v = store[x] \/ ~CacheCurrent(x)'
           /\ \A y \in Objects \ {x} :
                store'[y] = store[y] /\ pending'[y] = pending[y] /\ Versions(y)' = Versions(y)
           /\ cache' = cache
  <1>1. /\ store'[x] = v /\ (v = store[x] \/ pending'[x] = Append(pending[x], v))
        /\ pending'[x] = pending[x] \/ pending'[x] = Append(pending[x], v)
        /\ \A y \in Objects \ {x} : store'[y] = store[y] /\ pending'[y] = pending[y]
        /\ cache' = cache
        /\ DOMAIN store' = Objects /\ DOMAIN pending' = Objects
    BY DEF Put, Streams
  <1>2. pending[x] \in Seq(Versions(x) \cup {v})
    BY OverItsElements DEF Streams, Versions
  <1>3. /\ Append(pending[x], v) \in Seq(Versions(x) \cup {v}) /\ Append(pending[x], v) # <<>>
        /\ \A i \in DOMAIN Append(pending[x], v) :
             \/ i \in DOMAIN pending[x] /\ Append(pending[x], v)[i] = pending[x][i]
             \/ Append(pending[x], v)[i] = v
    BY <1>2
  <1>4. Versions(x)' \subseteq Versions(x) \cup {v}
    BY <1>1, <1>3 DEF Versions
  <1>5. \A y \in Objects \ {x} : Versions(y)' = Versions(y)
    BY <1>1 DEF Versions
  <1>6. pending'[x] \in Seq(Versions(x)')
    <2>1. pending'[x] \in Seq(Versions(x) \cup {v})
      BY <1>1, <1>2, <1>3
    <2>2. \A i \in DOMAIN pending'[x] : pending'[x][i] \in Versions(x)'
      BY DEF Versions
    <2> QED BY <2>1, <2>2, OverItsElements
  <1>7. Streams'
    BY <1>1, <1>5, <1>6 DEF Streams
  <1>8. v = store[x] \/ ~CacheCurrent(x)'
    BY <1>1, <1>3 DEF CacheCurrent
  <1> QED BY <1>1, <1>4, <1>5, <1>7, <1>8

LEMMA DeliverStreams ==
    ASSUME Streams, NEW x \in Objects, Deliver(x)
    PROVE  /\ Streams' /\ store' = store
           /\ \A y \in Objects : Versions(y)' \subseteq Versions(y)
           /\ \A y \in Objects \ {x} : pending'[y] = pending[y] /\ cache'[y] = cache[y]
           /\ Latest(x)' = Latest(x)
  <1>1. /\ \A y \in Objects \ {x} : pending'[y] = pending[y] /\ cache'[y] = cache[y]
        /\ cache'[x] = Head(pending[x]) /\ pending'[x] = Tail(pending[x]) /\ store' = store
        /\ DOMAIN cache' = Objects /\ DOMAIN pending' = Objects
    BY DEF Deliver, Streams
  <1>2. pending[x] \in Seq(Versions(x)) /\ pending[x] # <<>>
    BY DEF Deliver, Streams
  <1>3. Head(pending[x]) = pending[x][1] /\ 1 \in DOMAIN pending[x]
    BY <1>2, EmptySeq
  <1>4. /\ Tail(pending[x]) \in Seq(Versions(x))
        /\ \A i \in DOMAIN Tail(pending[x]) :
             i + 1 \in DOMAIN pending[x] /\ Tail(pending[x])[i] = pending[x][i + 1]
    BY <1>2, HeadTailProperties
  <1>5. Versions(x)' \subseteq Versions(x)
    BY <1>1, <1>3, <1>4 DEF Versions
  <1>6. \A y \in Objects \ {x} : Versions(y)' = Versions(y)
    BY <1>1 DEF Versions
  <1>7. pending'[x] \in Seq(Versions(x)')
    <2>1. \A i \in DOMAIN pending'[x] : pending'[x][i] \in Versions(x)'
      BY DEF Versions
    <2>2. pending'[x] \in Seq(Versions(x))
      BY <1>1, <1>4
    <2> QED BY <2>1, <2>2, OverItsElements
  <1>8. Latest(x)' = Latest(x)
    BY <1>1, <1>2, LastOfTail DEF Latest
  <1> QED BY <1>1, <1>5, <1>6, <1>7, <1>8 DEF Streams

LEMMA SyncStreams ==
    ASSUME Streams, InitialSync
    PROVE  /\ Streams' /\ CacheCoherent' /\ store' = store
           /\ \A x \in Objects : Versions(x)' = {store[x]} /\ CacheCurrent(x)'
  <1>1. \A x \in Objects : cache'[x] = store[x] /\ pending'[x] = <<>>
    BY DEF InitialSync
  <1>2. \A x \in Objects : Versions(x)' = {store[x]}
    BY <1>1 DEF Versions
  <1>3. DOMAIN store' = Objects /\ DOMAIN cache' = Objects /\ DOMAIN pending' = Objects
    BY DEF InitialSync, Streams
  <1>4. \A x \in Objects : pending'[x] \in Seq(Versions(x)')
    BY <1>1, EmptySeq
  <1>5. Streams'
    BY <1>3, <1>4 DEF Streams
  <1> QED BY <1>1, <1>2, <1>5 DEF InitialSync, CacheCoherent, Latest, CacheCurrent

LEMMA StutterStreams ==
    ASSUME UNCHANGED apiVars
    PROVE  /\ Streams' = Streams /\ CacheCoherent' = CacheCoherent
           /\ \A x : Versions(x)' = Versions(x) /\ CacheCurrent(x)' = CacheCurrent(x)
  BY DEF Streams, CacheCoherent, Latest, Versions, CacheCurrent, apiVars

-----------------------------------------------------------------------------
(* The watch streams end with the stored object *)

LEMMA PutCoherence ==
    ASSUME Streams, CacheCoherent, NEW x \in Objects, NEW v, Put(x, v)
    PROVE  CacheCoherent'
  <1>1. \A y \in Objects \ {x} : store'[y] = store[y] /\ pending'[y] = pending[y] /\ cache' = cache
    BY PutStreams
  <1>2. CASE v = store[x]
    BY <1>1, <1>2 DEF Put, Streams, CacheCoherent, Latest
  <1>3. CASE v # store[x]
    <2>1. store'[x] = v /\ pending'[x] = Append(pending[x], v)
      BY <1>3 DEF Put, Streams
    <2>0. pending[x] \in Seq(Versions(x) \cup {v})
      BY OverItsElements DEF Streams, Versions
    <2>2. pending'[x] # <<>> /\ pending'[x][Len(pending'[x])] = v
      <3>1. Len(Append(pending[x], v)) = Len(pending[x]) + 1 /\ Append(pending[x], v)[Len(pending[x]) + 1] = v
        BY <2>0, AppendProperties
      <3>2. Append(pending[x], v) # <<>>
        BY <2>0
      <3> QED BY <2>1, <3>1, <3>2
    <2> QED BY <1>1, <2>1, <2>2 DEF Put, CacheCoherent, Latest
  <1> QED BY <1>2, <1>3

LEMMA DeliverCoherence ==
    ASSUME Streams, CacheCoherent, NEW x \in Objects, Deliver(x)
    PROVE  CacheCoherent'
  BY DeliverStreams DEF CacheCoherent, Latest

\* The stored version is the last one on its way, and the cached one if none is.
LEMMA StoredVersion ==
    ASSUME Streams, CacheCoherent, NEW x \in Objects
    PROVE  store[x] \in Versions(x) /\ (CacheCurrent(x) => cache[x] = store[x])
  <1>1. CASE pending[x] = <<>>
    BY <1>1 DEF CacheCoherent, Latest, Versions
  <1>2. CASE pending[x] # <<>>
    <2>1. Len(pending[x]) \in DOMAIN pending[x]
      BY <1>2, EmptySeq DEF Streams
    <2> QED BY <1>2, <2>1 DEF CacheCoherent, Latest, Versions, CacheCurrent
  <1> QED BY <1>1, <1>2

-----------------------------------------------------------------------------
(* The objects of the collector controller *)

WorkerInv == TypeOK /\ InputInv /\ ReadInv

LEMMA Kinds ==
    /\ \A x \in Sources \cup Children \cup {Collector} : x \in Objects
    /\ \A x \in Tenants \cup Subscriptions \cup Outputs \cup Bridges \cup Secrets : x \in Sources
    /\ \A x \in Sources : x # Collector /\ x \notin Children
    /\ Collector \notin Children
  BY KindsAssumption DEF Sources

-----------------------------------------------------------------------------
(* The store, the cache and what is on its way *)

LEMMA ApiPut ==
    ASSUME ApiInv, NEW x \in Objects, NEW v, Put(x, v), WellFormed(x, v), x \in Sources => v \in Proposed(x)
    PROVE  ApiInv'
  <1>1. Streams' /\ CacheCoherent'
    BY PutStreams, PutCoherence DEF ApiInv
  <1>2. /\ Versions(x)' \subseteq Versions(x) \cup {v}
        /\ \A y \in Objects \ {x} : Versions(y)' = Versions(y)
    BY PutStreams DEF ApiInv
  <1>3. \A y \in Objects : \A w \in Versions(y)' : WellFormed(y, w) /\ (y \in Sources => w \in Proposed(y))
    BY <1>2 DEF ApiInv
  <1> QED BY <1>1, <1>3 DEF ApiInv

LEMMA ApiDeliver == ASSUME ApiInv, NEW x \in Objects, Deliver(x) PROVE ApiInv'
  <1>1. Streams' /\ CacheCoherent'
    BY DeliverStreams, DeliverCoherence DEF ApiInv
  <1>2. \A y \in Objects : Versions(y)' \subseteq Versions(y)
    BY DeliverStreams DEF ApiInv
  <1>3. \A y \in Objects : \A w \in Versions(y)' : WellFormed(y, w) /\ (y \in Sources => w \in Proposed(y))
    BY <1>2 DEF ApiInv
  <1> QED BY <1>1, <1>3 DEF ApiInv

\* The cached and the stored object are among the versions.
LEMMA Read ==
    ASSUME ApiInv, NEW x \in Objects
    PROVE  /\ WellFormed(x, cache[x]) /\ WellFormed(x, store[x])
           /\ x \in Sources => cache[x] \in Proposed(x)
           /\ cache[x].exists \in BOOLEAN /\ store[x].exists \in BOOLEAN
           /\ cache[x].exists => cache[x] # Absent
           /\ store[x].exists => store[x] # Absent
  <1>1. cache[x] \in Versions(x) /\ store[x] \in Versions(x)
    BY StoredVersion DEF ApiInv, Versions
  <1>2. /\ WellFormed(x, cache[x]) /\ WellFormed(x, store[x])
        /\ x \in Sources => cache[x] \in Proposed(x)
    BY <1>1 DEF ApiInv
  <1>3. \A v : WellFormed(x, v) => v = Absent \/ v.exists = TRUE
    BY DEF WellFormed
  <1>4. Absent.exists = FALSE
    BY DEF Absent
  <1> QED BY <1>2, <1>3, <1>4

LEMMA ApiSync == ASSUME ApiInv, InitialSync PROVE ApiInv'
  <1>1. Streams' /\ CacheCoherent' /\ \A x \in Objects : Versions(x)' = {store[x]}
    BY SyncStreams DEF ApiInv
  <1>2. \A x \in Objects : store[x] \in Versions(x)
    BY StoredVersion DEF ApiInv
  <1>3. \A y \in Objects : \A w \in Versions(y)' : WellFormed(y, w) /\ (y \in Sources => w \in Proposed(y))
    BY <1>1, <1>2 DEF ApiInv
  <1> QED BY <1>1, <1>3 DEF ApiInv

LEMMA ApiStutter == ASSUME ApiInv, UNCHANGED apiVars PROVE ApiInv'
  <1>1. Streams' /\ CacheCoherent' /\ \A x : Versions(x)' = Versions(x)
    BY StutterStreams DEF ApiInv
  <1> QED BY <1>1 DEF ApiInv

LEMMA ApiReconcile ==
    ASSUME ApiInv, NEW child \in Children, NEW content, NEW outcome, ReconcileResource(child, content, outcome)
    PROVE  ApiInv'
  <1>1. child \in Objects /\ child \notin Sources /\ child # Collector
    BY Kinds
  <1>2. WellFormed(child, Desired(child, content))
    <2>1. /\ Desired(child, content).exists = TRUE
          /\ DOMAIN Desired(child, content) = {"exists", "content", "finalizers"}
      BY DEF Desired, Child
    <2> QED BY <1>1, <2>1, Kinds DEF WellFormed
  <1>3. UNCHANGED apiVars \/ Put(child, Desired(child, content))
    BY DEF ReconcileResource
  <1> QED BY <1>1, <1>2, <1>3, ApiPut, ApiStutter

-----------------------------------------------------------------------------
(* The worker *)

\* What the worker holds does not depend on what happens to the objects.
LEMMA WorkerStutter ==
    ASSUME WorkerInv, UNCHANGED <<pc, own, listed, todo, need, in, config, errs>>,
           fresh' \in BOOLEAN, fresh' => fresh, queued' \in BOOLEAN
    PROVE  WorkerInv'
  BY DEF WorkerInv, TypeOK, InputInv, ReadInv, Followed

\* The worker lets go of what it has read.
LEMMA Forgotten ==
    ASSUME Forget, fresh' \in BOOLEAN, queued' \in BOOLEAN,
           \/ pc' = "idle" /\ own' = Absent /\ fresh' = FALSE
           \/ pc' = "publish" /\ own'.exists = TRUE /\ DOMAIN own' = CollectorFields
    PROVE  WorkerInv'
  <1>1. /\ in'.tenants = <<>> /\ in'.subs = <<>> /\ in'.bridges = <<>> /\ in'.outputs = <<>>
        /\ DOMAIN in' = {"tenants", "subs", "bridges", "outputs"}
        /\ listed' = <<>> /\ todo' = {} /\ need' = {} /\ errs' = {}
    BY DEF Forget, NoInput
  <1>2. DOMAIN <<>> = {} /\ \A S : <<>> \in Seq(S)
    BY EmptySeq
  <1>3. Outs(in)' = {}
    BY <1>1, <1>2 DEF Outs
  <1>4. TypeOK'
    BY <1>1, <1>2 DEF TypeOK, Absent
  <1>5. InputInv'
    BY <1>1, <1>2, <1>3 DEF InputInv
  <1>6. ReadInv'
    BY <1>1 DEF ReadInv
  <1> QED BY <1>4, <1>5, <1>6 DEF WorkerInv

LEMMA ErrorHandled ==
    ASSUME WorkerInv, pc # "idle", NEW kind, HandleError(kind)
    PROVE  WorkerInv'
  <1>1. CASE BecomeIdle /\ queued' = TRUE
    BY <1>1, Forgotten DEF BecomeIdle
  <1>2. CASE /\ pc' = "publish" /\ Forget /\ UNCHANGED <<fresh, queued>>
             /\ own' = [own EXCEPT !.state = "failed", !.problems = @ \cup {kind}]
    <2>1. own'.exists = TRUE /\ DOMAIN own' = CollectorFields
      BY <1>2 DEF WorkerInv, InputInv, CollectorFields
    <2> QED BY <1>2, <2>1, Forgotten DEF WorkerInv, TypeOK
  <1> QED BY <1>1, <1>2 DEF HandleError

LEMMA WorkerStart == ASSUME ApiInv, WorkerInv, StartReconcile PROVE WorkerInv'
  <1>1. CASE UNCHANGED workerVars
    BY <1>1, WorkerStutter DEF StartReconcile, workerVars, WorkerInv, TypeOK
  <1>2. CASE Exists(Collector) /\ pc' = "list" /\ own' = cache[Collector] /\ UNCHANGED <<listed, todo, need, in, config, errs>>
    <2>1. own'.exists = TRUE /\ DOMAIN own' = CollectorFields
      BY <1>2, Read, Kinds DEF Exists, WellFormed
    <2>2. fresh' \in BOOLEAN /\ queued' = FALSE
      BY DEF StartReconcile, workerVars, WorkerInv, TypeOK, CacheCurrent
    <2>3. pc = "idle"
      BY DEF StartReconcile, At
    <2>4. InputInv'
      BY <1>2, <2>1, <2>3 DEF WorkerInv, InputInv, Outs
    <2>5. TypeOK' /\ ReadInv'
      BY <1>2, <2>1, <2>2, <2>3 DEF WorkerInv, TypeOK, ReadInv
    <2> QED BY <2>4, <2>5 DEF WorkerInv
  <1> QED BY <1>1, <1>2 DEF StartReconcile

LEMMA WorkerList == ASSUME ApiInv, WorkerInv, ListTenants PROVE WorkerInv'
  <1>1. /\ DOMAIN listed' = SelectedTenants /\ todo' = SelectedTenants /\ need' = {}
        /\ \A t \in SelectedTenants : listed'[t] = Cached(t)
        /\ pc' = "tenants" /\ pc = "list" /\ UNCHANGED <<own, fresh, errs, queued>>
    BY DEF ListTenants, WorkerInv, ReadInv, At
  <1>2. /\ DOMAIN in'.tenants = SelectedTenants /\ in'.subs = <<>> /\ in'.bridges = <<>> /\ in'.outputs = <<>>
        /\ \A t \in SelectedTenants : in'.tenants[t].subs = Cached(t).subs
        /\ {"tenants", "subs", "bridges", "outputs"} \subseteq DOMAIN in'
    BY DEF ListTenants, OtelColConfigInput, TenantInput
  <1>3. DOMAIN <<>> = {} /\ \A S : <<>> \in Seq(S)
    BY EmptySeq
  <1>4. Outs(in)' = {}
    BY <1>2, <1>3 DEF Outs
  <1>5. \A t \in SelectedTenants : Cached(t).subs \subseteq Subscriptions /\ Cached(t).bridges \subseteq Bridges
    BY Read, Kinds DEF SelectedTenants, Exists, Cached, WellFormed
  <1>6. TypeOK'
    BY <1>1, <1>2, <1>3 DEF WorkerInv, TypeOK, SelectedTenants
  <1>7. InputInv'
    BY <1>1, <1>2, <1>3, <1>4, <1>5 DEF WorkerInv, InputInv
  <1>8. ReadInv'
    BY <1>1, <1>2, <1>3 DEF ReadInv
  <1> QED BY <1>6, <1>7, <1>8 DEF WorkerInv

LEMMA UnionOfMore ==
    ASSUME NEW f, NEW R, NEW t
    PROVE  UNION {f[u].subs : u \in R \cup {t}} = (UNION {f[u].subs : u \in R}) \cup f[t].subs
  <1>1. ASSUME NEW x \in UNION {f[u].subs : u \in R \cup {t}}
        PROVE  x \in (UNION {f[u].subs : u \in R}) \cup f[t].subs
    <2>1. PICK u \in R \cup {t} : x \in f[u].subs
      OBVIOUS
    <2> QED BY <2>1
  <1>2. ASSUME NEW x \in (UNION {f[u].subs : u \in R}) \cup f[t].subs
        PROVE  x \in UNION {f[u].subs : u \in R \cup {t}}
    OBVIOUS
  <1> QED BY <1>1, <1>2

LEMMA WorkerTenant == ASSUME WorkerInv, NEW t \in Tenants, VisitTenant(t) PROVE WorkerInv'
  <1>1. CASE HandleError("tenantFailed")
    BY <1>1, ErrorHandled DEF VisitTenant, At
  <1>2. CASE /\ todo' = todo \ {t} /\ need' = listed[t].subs \cup listed[t].bridges
             /\ UNCHANGED <<pc, own, fresh, listed, in, config, errs, queued>>
    <2>1. pc = "tenants" /\ need = {} /\ t \in DOMAIN listed /\ t \in todo
      BY DEF VisitTenant, At, WorkerInv, TypeOK
    <2>2. /\ listed[t].subs \subseteq Subscriptions /\ listed[t].bridges \subseteq Bridges
          /\ need' \cap Subscriptions = listed[t].subs
      BY <1>2, <2>1, KindsAssumption DEF WorkerInv, InputInv
    <2>3. TypeOK' /\ InputInv'
      BY <1>2, <2>1, <2>2 DEF WorkerInv, TypeOK, InputInv
    <2>4. UNION {listed[u].subs : u \in DOMAIN listed \ todo'} = DOMAIN in.subs \cup (need' \cap Subscriptions)
      <3>1. DOMAIN listed \ todo' = (DOMAIN listed \ todo) \cup {t}
        BY <1>2, <2>1
      <3>2. UNION {listed[u].subs : u \in DOMAIN listed \ todo'}
              = (UNION {listed[u].subs : u \in DOMAIN listed \ todo}) \cup listed[t].subs
        BY <3>1, UnionOfMore
      <3> QED BY <3>2, <2>1, <2>2 DEF WorkerInv, ReadInv
    <2>5. ReadInv'
      BY <1>2, <2>1, <2>4 DEF ReadInv
    <2> QED BY <2>3, <2>5 DEF WorkerInv
  <1> QED BY <1>1, <1>2 DEF VisitTenant

\* Only the subscriptions of the input change.
LEMMA WorkerSubscription == ASSUME ApiInv, WorkerInv, NEW s \in Subscriptions, GetSubscription(s) PROVE WorkerInv'
  <1>1. CASE HandleError("subscription")
    BY <1>1, ErrorHandled DEF GetSubscription, At
  <1>2. CASE /\ Exists(s)
             /\ in' = [in EXCEPT !.subs = Entry(@, s, SubscriptionInput(Cached(s)))]
             /\ need' = need \ {s}
             /\ UNCHANGED <<pc, own, fresh, listed, todo, config, errs, queued>>
    <2>1. pc = "tenants" /\ s \in need
      BY DEF GetSubscription, At
    <2>2. /\ in'.tenants = in.tenants /\ in'.bridges = in.bridges /\ in'.outputs = in.outputs
          /\ DOMAIN in' = DOMAIN in /\ in'.subs = Entry(in.subs, s, SubscriptionInput(Cached(s)))
      BY <1>2 DEF WorkerInv, InputInv
    <2>3. /\ DOMAIN in'.subs = DOMAIN in.subs \cup {s}
          /\ \A r \in DOMAIN in.subs \ {s} : in'.subs[r] = in.subs[r]
          /\ in'.subs[s].outputs = Cached(s).outputs
      BY <2>2 DEF Entry, SubscriptionInput
    <2>4. Cached(s).outputs \subseteq Outputs
      BY <1>2, Read, Kinds DEF Exists, Cached, WellFormed
    <2>5. Outs(in)' = Outs(in)
      BY <2>2 DEF Outs
    <2>6. TypeOK'
      BY <1>2, <2>1, <2>2, <2>3 DEF WorkerInv, TypeOK
    <2>7. InputInv'
      <3>1. \A r \in DOMAIN in'.subs : in'.subs[r].outputs \subseteq Outputs
        BY <2>3, <2>4 DEF WorkerInv, InputInv
      <3> QED BY <1>2, <2>2, <2>5, <3>1 DEF WorkerInv, InputInv
    <2>8. DOMAIN in'.subs \cup (need' \cap Subscriptions) = DOMAIN in.subs \cup (need \cap Subscriptions)
      BY <1>2, <2>1, <2>3
    <2>9. ReadInv'
      BY <1>2, <2>1, <2>8 DEF WorkerInv, ReadInv
    <2> QED BY <2>6, <2>7, <2>9 DEF WorkerInv
  <1> QED BY <1>1, <1>2 DEF GetSubscription

\* A sequence that is longer by one element.
LEMMA Longer ==
    ASSUME NEW s, NEW S, S = {s[i] : i \in DOMAIN s}, s \in Seq(S), NEW v,
           NEW r, NEW T, T = {r[i] : i \in DOMAIN r}, r = Append(s, v)
    PROVE  /\ r \in Seq(T) /\ r # <<>> /\ T = S \cup {v}
           /\ \A i \in DOMAIN r : r[i] = v \/ (i \in DOMAIN s /\ r[i] = s[i])
  <1>1. s \in Seq(S \cup {v})
    BY OverItsElements
  <1>2. /\ r \in Seq(S \cup {v}) /\ Len(r) = Len(s) + 1
        /\ DOMAIN s = 1 .. Len(s) /\ DOMAIN r = 1 .. (Len(s) + 1) /\ Len(s) \in Nat
        /\ \A i \in 1 .. Len(s) : r[i] = s[i]
        /\ r[Len(s) + 1] = v
    BY <1>1, AppendProperties, LenProperties
  <1>3. ASSUME NEW i \in DOMAIN r PROVE r[i] = v \/ (i \in DOMAIN s /\ r[i] = s[i])
    <2> DEFINE n == Len(s)
    <2>1. n \in Nat /\ i \in 1 .. (n + 1)
      BY <1>2
    <2>2. i \in 1 .. n \/ i = n + 1
      <3> HIDE DEF n
      <3> QED BY <2>1
    <2>3. /\ \A j \in 1 .. n : r[j] = s[j]
          /\ r[n + 1] = v /\ DOMAIN s = 1 .. n
      BY <1>2
    <2> HIDE DEF n
    <2> QED BY <2>2, <2>3
  <1>4. T = S \cup {v}
    <2>1. Len(s) + 1 \in DOMAIN r /\ \A i \in DOMAIN s : i \in DOMAIN r /\ r[i] = s[i]
      BY <1>2
    <2>2. r[Len(s) + 1] = v
      BY <1>2
    <2> QED BY <1>3, <2>1, <2>2
  <1>5. r \in Seq(T)
    BY <1>2, <1>4
  <1>6. r # <<>>
    BY <1>2, EmptySeq
  <1> QED BY <1>3, <1>4, <1>5, <1>6

LEMMA WorkerBridge == ASSUME ApiInv, WorkerInv, NEW b \in Bridges, GetBridge(b) PROVE WorkerInv'
  <1>1. CASE HandleError("bridge")
    BY <1>1, ErrorHandled DEF GetBridge, At
  <1>2. CASE /\ Exists(b)
             /\ in' = [in EXCEPT !.bridges = Append(@, BridgeInput(b, Cached(b)))]
             /\ need' = need \ {b}
             /\ UNCHANGED <<pc, own, fresh, listed, todo, config, errs, queued>>
    <2>1. pc = "tenants" /\ b \in need /\ need \cap Subscriptions = {}
      BY DEF GetBridge, At
    <2>2. /\ in'.tenants = in.tenants /\ in'.subs = in.subs /\ in'.outputs = in.outputs
          /\ DOMAIN in' = DOMAIN in /\ in'.bridges = Append(in.bridges, BridgeInput(b, Cached(b)))
      BY <1>2 DEF WorkerInv, InputInv
    <2>3. /\ in'.bridges \in Seq({in'.bridges[i] : i \in DOMAIN in'.bridges})
          /\ \A i \in DOMAIN in'.bridges :
                \/ in'.bridges[i] = BridgeInput(b, Cached(b))
                \/ i \in DOMAIN in.bridges /\ in'.bridges[i] = in.bridges[i]
      <3> DEFINE S == {in.bridges[i] : i \in DOMAIN in.bridges}
                 T == {in'.bridges[i] : i \in DOMAIN in'.bridges}
                 new == BridgeInput(b, Cached(b))
      <3>1. in.bridges \in Seq(S)
        BY DEF WorkerInv, InputInv
      <3>2. in'.bridges = Append(in.bridges, new)
        BY <2>2
      <3>3. S = {in.bridges[i] : i \in DOMAIN in.bridges} /\ T = {in'.bridges[i] : i \in DOMAIN in'.bridges}
        OBVIOUS
      <3>4. /\ in'.bridges \in Seq(T)
            /\ \A i \in DOMAIN in'.bridges : in'.bridges[i] = new \/ (i \in DOMAIN in.bridges /\ in'.bridges[i] = in.bridges[i])
        <4> HIDE DEF S, T, new
        <4> QED BY <3>1, <3>2, <3>3, Longer, SMTT(30)
      <3> QED BY <3>4
    <2>4. cache[b] \in Proposed(b) /\ cache[b] # Absent
      BY <1>2, Read, Kinds DEF Exists
    <2>5. Outs(in)' = Outs(in)
      BY <2>2 DEF Outs
    <2>6. TypeOK'
      BY <1>2, <2>1, <2>2 DEF WorkerInv, TypeOK
    <2>7. InputInv'
      <3>1. \A i \in DOMAIN in'.bridges : \E c \in Bridges : \E v \in Proposed(c) :
              v # Absent /\ in'.bridges[i] = BridgeInput(c, Full(c, v))
        BY <2>3, <2>4 DEF Cached, WorkerInv, InputInv
      <3> QED BY <1>2, <2>2, <2>3, <2>5, <3>1 DEF WorkerInv, InputInv
    <2>8. ReadInv'
      BY <1>2, <2>1, <2>2 DEF WorkerInv, ReadInv
    <2> QED BY <2>6, <2>7, <2>8 DEF WorkerInv
  <1> QED BY <1>1, <1>2 DEF GetBridge

LEMMA WorkerTenantsRead == ASSUME WorkerInv, TenantsRead PROVE WorkerInv'
  <1>1. /\ pc = "tenants" /\ todo = {} /\ need = {} /\ pc' = "subscriptions" /\ todo' = DOMAIN in.subs
        /\ UNCHANGED <<own, fresh, listed, need, in, config, errs, queued>>
    BY DEF TenantsRead, At
  <1>2. UNION {listed[t].subs : t \in DOMAIN listed} = DOMAIN in.subs
    BY <1>1 DEF WorkerInv, ReadInv
  <1>3. DOMAIN listed = DOMAIN in.tenants /\ \A t \in DOMAIN listed : SubscriptionsOf(in, t) = listed[t].subs
    BY DEF WorkerInv, TypeOK, InputInv, SubscriptionsOf
  <1>4. UNION {SubscriptionsOf(in, t) : t \in DOMAIN in.tenants} = UNION {listed[t].subs : t \in DOMAIN listed}
    BY <1>3
  <1>5. TypeOK' /\ InputInv'
    BY <1>1 DEF WorkerInv, TypeOK, InputInv
  <1>6. ReadInv'
    BY <1>1, <1>2, <1>4 DEF ReadInv
  <1> QED BY <1>5, <1>6 DEF WorkerInv

LEMMA WorkerVisit == ASSUME WorkerInv, NEW s \in Subscriptions, VisitSubscription(s) PROVE WorkerInv'
  <1>1. /\ pc = "subscriptions" /\ need = {} /\ s \in todo /\ todo' = todo \ {s} /\ need' = in.subs[s].outputs
        /\ UNCHANGED <<pc, own, fresh, listed, in, config, errs, queued>>
    BY DEF VisitSubscription, At
  <1>2. s \in DOMAIN in.subs /\ need' \subseteq Outputs
    BY <1>1 DEF WorkerInv, TypeOK, InputInv
  <1>3. TypeOK' /\ InputInv'
    BY <1>1, <1>2 DEF WorkerInv, TypeOK, InputInv
  <1>4. \A r \in DOMAIN in.subs \ todo' : Followed(r)'
    BY <1>1, <1>2 DEF WorkerInv, ReadInv, Followed
  <1>5. ReadInv'
    BY <1>1, <1>4 DEF WorkerInv, ReadInv
  <1> QED BY <1>3, <1>5 DEF WorkerInv

LEMMA WorkerOutput == ASSUME ApiInv, WorkerInv, NEW o \in Outputs, GetOutput(o) PROVE WorkerInv'
  <1>1. CASE HandleError("output")
    BY <1>1, ErrorHandled DEF GetOutput, At
  <1>2. CASE /\ Exists(o)
             /\ in' = [in EXCEPT !.outputs = Append(@, OutputInput(o, Cached(o), NoData))]
             /\ need' = need \ {o}
             /\ pc' = IF Cached(o).auth # None THEN "secret" ELSE pc
             /\ UNCHANGED <<own, fresh, listed, todo, config, errs, queued>>
    <2> DEFINE new == OutputInput(o, Cached(o), NoData)
    <2>1. pc = "subscriptions" /\ o \in need /\ pc' \in {"subscriptions", "secret"}
      BY <1>2 DEF GetOutput, At
    <2>2. /\ in'.tenants = in.tenants /\ in'.subs = in.subs /\ in'.bridges = in.bridges
          /\ DOMAIN in' = DOMAIN in /\ in'.outputs = Append(in.outputs, new)
      BY <1>2 DEF WorkerInv, InputInv
    <2>3. DOMAIN new = OutputFields /\ new.name = o /\ new.kind \in OutputKinds \cup {None}
      <3>1. Cached(o).kind \in OutputKinds \cup {None}
        BY <1>2, Read, Kinds DEF Exists, Cached, WellFormed
      <3> QED BY <3>1 DEF OutputInput, OutputFields
    <2>4. /\ in'.outputs \in Seq(Outs(in)') /\ in'.outputs # <<>>
          /\ Outs(in)' = Outs(in) \cup {new}
      <3>1. in.outputs \in Seq(Outs(in))
        BY DEF WorkerInv, InputInv
      <3>2. in'.outputs = Append(in.outputs, new)
        BY <2>2
      <3>3. Outs(in) = {in.outputs[i] : i \in DOMAIN in.outputs} /\ Outs(in)' = {in'.outputs[i] : i \in DOMAIN in'.outputs}
        BY DEF Outs
      <3> HIDE DEF new
      <3> QED BY <3>1, <3>2, <3>3, Longer, SMTT(30)
    <2>5. TypeOK'
      BY <1>2, <2>1, <2>2 DEF WorkerInv, TypeOK
    <2>6. InputInv'
      <3>1. \A c \in Outs(in)' : DOMAIN c = OutputFields /\ c.name \in Outputs /\ c.kind \in OutputKinds \cup {None}
        BY <2>3, <2>4 DEF WorkerInv, InputInv
      <3>2. /\ pc' # "idle" => own'.exists = TRUE /\ DOMAIN own' = CollectorFields
            /\ {"tenants", "subs", "bridges", "outputs"} \subseteq DOMAIN in'
            /\ \A t \in DOMAIN listed' : /\ listed'[t].subs \subseteq Subscriptions /\ listed'[t].bridges \subseteq Bridges
                                        /\ in'.tenants[t].subs = listed'[t].subs
            /\ \A s \in DOMAIN in'.subs : in'.subs[s].outputs \subseteq Outputs
        BY <1>2, <2>1, <2>2 DEF WorkerInv, InputInv
      <3>3. /\ in'.bridges \in Seq({in'.bridges[i] : i \in DOMAIN in'.bridges})
            /\ \A i \in DOMAIN in'.bridges : \E b \in Bridges : \E v \in Proposed(b) :
                 v # Absent /\ in'.bridges[i] = BridgeInput(b, Full(b, v))
        BY <2>2 DEF WorkerInv, InputInv
      <3> QED BY <2>4, <3>1, <3>2, <3>3 DEF InputInv
    <2>7. \A s \in DOMAIN in'.subs \ todo' : Followed(s)'
      BY <1>2, <2>1, <2>2, <2>3, <2>4 DEF WorkerInv, ReadInv, Followed
    <2>8. ReadInv'
      BY <1>2, <2>1, <2>2, <2>4, <2>7 DEF WorkerInv, ReadInv, SubscriptionsOf
    <2> QED BY <2>5, <2>6, <2>8 DEF WorkerInv
  <1> QED BY <1>1, <1>2 DEF GetOutput

\* A function on the indices of a sequence is a sequence.
LEMMA SameLength ==
    ASSUME NEW S, NEW s \in Seq(S), NEW T, NEW r \in [DOMAIN s -> T]
    PROVE  r \in Seq(T)
  <1>1. DOMAIN s = 1 .. Len(s) /\ Len(s) \in Nat
    BY LenProperties
  <1>2. r \in [1 .. Len(s) -> T]
    BY <1>1
  <1> QED BY <1>1, <1>2

LEMMA WorkerSecret == ASSUME WorkerInv, GetSecret PROVE WorkerInv'
  <1> DEFINE last == Len(in.outputs)
             data == cache[SecretOf[in.outputs[last].name]].data
             new == [in.outputs[last] EXCEPT !.cred = data]
  <1>1. CASE HandleError("secret")
    BY <1>1, ErrorHandled DEF GetSecret, At
  <1>2. CASE /\ in' = [in EXCEPT !.outputs[last].cred = data]
             /\ pc' = "subscriptions"
             /\ UNCHANGED <<own, fresh, listed, todo, need, config, errs, queued>>
    <2>1. pc = "secret" /\ in.outputs # <<>> /\ in.outputs \in Seq(Outs(in))
      BY DEF GetSecret, At, WorkerInv, ReadInv, InputInv
    <2>2. last \in DOMAIN in.outputs
      BY <2>1, EmptySeq, LenProperties
    <2>3. /\ in'.tenants = in.tenants /\ in'.subs = in.subs /\ in'.bridges = in.bridges
          /\ DOMAIN in' = DOMAIN in /\ in'.outputs = [in.outputs EXCEPT ![last] = new]
      BY <1>2 DEF WorkerInv, InputInv
    <2>4. /\ DOMAIN new = OutputFields /\ new.name = in.outputs[last].name /\ new.name \in Outputs
          /\ new.kind \in OutputKinds \cup {None}
      BY <2>2 DEF WorkerInv, InputInv, Outs, OutputFields
    <2>5. Outs(in) = {in.outputs[i] : i \in DOMAIN in.outputs} /\ Outs(in)' = {in'.outputs[i] : i \in DOMAIN in'.outputs}
      BY DEF Outs
    <2> HIDE DEF last, data, new
    <2>6. /\ in'.outputs \in Seq(Outs(in)') /\ DOMAIN in'.outputs = DOMAIN in.outputs
          /\ in'.outputs[last] = new /\ \A i \in DOMAIN in.outputs \ {last} : in'.outputs[i] = in.outputs[i]
      <3>1. /\ DOMAIN in'.outputs = DOMAIN in.outputs /\ in'.outputs[last] = new
            /\ \A i \in DOMAIN in.outputs \ {last} : in'.outputs[i] = in.outputs[i]
            /\ in'.outputs = [i \in DOMAIN in'.outputs |-> in'.outputs[i]]
        BY <2>2, <2>3
      <3>2. in'.outputs \in [DOMAIN in.outputs -> Outs(in)']
        BY <2>5, <3>1
      <3> QED BY <2>1, <3>1, <3>2, SameLength
    <2>7. \A i \in DOMAIN in.outputs : in'.outputs[i].name = in.outputs[i].name
      BY <2>4, <2>6
    <2>8. \A c \in Outs(in) : \E d \in Outs(in)' : d.name = c.name
      BY <2>5, <2>6, <2>7
    <2>9. TypeOK'
      BY <1>2, <2>1, <2>3 DEF WorkerInv, TypeOK
    <2>10. InputInv'
      <3>1. \A c \in Outs(in)' : DOMAIN c = OutputFields /\ c.name \in Outputs /\ c.kind \in OutputKinds \cup {None}
        BY <2>4, <2>5, <2>6 DEF WorkerInv, InputInv
      <3>2. /\ pc' # "idle" => own'.exists = TRUE /\ DOMAIN own' = CollectorFields
            /\ {"tenants", "subs", "bridges", "outputs"} \subseteq DOMAIN in'
            /\ \A t \in DOMAIN listed' : /\ listed'[t].subs \subseteq Subscriptions /\ listed'[t].bridges \subseteq Bridges
                                        /\ in'.tenants[t].subs = listed'[t].subs
            /\ \A s \in DOMAIN in'.subs : in'.subs[s].outputs \subseteq Outputs
        BY <1>2, <2>1, <2>3 DEF WorkerInv, InputInv
      <3>3. /\ in'.bridges \in Seq({in'.bridges[i] : i \in DOMAIN in'.bridges})
            /\ \A i \in DOMAIN in'.bridges : \E b \in Bridges : \E v \in Proposed(b) :
                 v # Absent /\ in'.bridges[i] = BridgeInput(b, Full(b, v))
        BY <2>3 DEF WorkerInv, InputInv
      <3> QED BY <2>6, <3>1, <3>2, <3>3 DEF InputInv
    <2>11. \A s \in DOMAIN in'.subs \ todo' : Followed(s)'
      BY <1>2, <2>1, <2>3, <2>8 DEF WorkerInv, ReadInv, Followed
    <2>12. ReadInv'
      BY <1>2, <2>1, <2>3, <2>11 DEF WorkerInv, ReadInv, SubscriptionsOf
    <2> QED BY <2>9, <2>10, <2>12 DEF WorkerInv
  <1> QED BY <1>1, <1>2 DEF GetSecret

\* What was read is kept while the worker goes on.
LEMMA WorkerGoesOn ==
    ASSUME WorkerInv, pc \in {"subscriptions", "assembled"} \cup Children,
           pc' \in {"assembled"} \cup Children, pc' = "assembled" => Complete(in),
           UNCHANGED <<own, fresh, listed, todo, need, in, queued>>, errs' \subseteq {"conflict", "error"}
    PROVE  WorkerInv'
  BY DEF WorkerInv, TypeOK, InputInv, ReadInv, Followed, Children

LEMMA WorkerAssemble == ASSUME WorkerInv, Assemble PROVE WorkerInv'
  <1>1. CASE HandleError("input")
    BY <1>1, ErrorHandled DEF Assemble, At
  <1>2. CASE pc' = "assembled" /\ UNCHANGED <<own, fresh, listed, todo, need, in, errs, queued>>
    <2>1. pc = "subscriptions" /\ todo = {} /\ need = {}
      BY DEF Assemble, At
    <2>2. Complete(in)
      BY <2>1 DEF WorkerInv, ReadInv, Followed, Complete, OutputsOf
    <2> QED BY <1>2, <2>1, <2>2, WorkerGoesOn DEF WorkerInv, TypeOK
  <1> QED BY <1>1, <1>2 DEF Assemble

LEMMA WorkerCheck == ASSUME WorkerInv, CheckConfig PROVE WorkerInv'
  <1>1. CASE HandleError("config")
    BY <1>1, ErrorHandled DEF CheckConfig, At
  <1>2. CASE pc' = "role" /\ UNCHANGED <<own, fresh, listed, todo, need, in, errs, queued>>
    BY <1>2, WorkerGoesOn DEF CheckConfig, At, WorkerInv, TypeOK, Children
  <1> QED BY <1>1, <1>2 DEF CheckConfig

LEMMA WorkerRBAC ==
    ASSUME WorkerInv, NEW part \in {"role", "sa", "binding"}, NEW outcome \in Outcomes, ReconcileRBAC(part, outcome)
    PROVE  WorkerInv'
  <1> DEFINE failures == errs \cup ({outcome} \ {"ok"})
  <1>1. failures \subseteq {"conflict", "error"}
    BY DEF WorkerInv, TypeOK, Outcomes
  <1>2. CASE \E kind \in failures : HandleError(kind)
    BY <1>2, ErrorHandled DEF ReconcileRBAC, At
  <1>3. CASE errs' = failures /\ pc' = AfterRbac(part) /\ UNCHANGED <<own, fresh, listed, todo, need, in, config, queued>>
    <2>1. pc' \in {"sa", "binding", "auth"}
      BY <1>3 DEF AfterRbac
    <2> QED BY <1>1, <1>3, <2>1, WorkerGoesOn DEF ReconcileRBAC, At, Children
  <1> QED BY <1>2, <1>3 DEF ReconcileRBAC

LEMMA WorkerAuth == ASSUME WorkerInv, NEW outcome, ReconcileAuthSecret(outcome) PROVE WorkerInv'
  <1>1. CASE HandleError(outcome)
    BY <1>1, ErrorHandled DEF ReconcileAuthSecret, At
  <1>2. CASE pc' = "otel" /\ UNCHANGED <<own, fresh, listed, todo, need, in, config, errs, queued>>
    BY <1>2, WorkerGoesOn DEF ReconcileAuthSecret, At, WorkerInv, TypeOK, Children
  <1> QED BY <1>1, <1>2 DEF ReconcileAuthSecret

LEMMA WorkerOtel == ASSUME WorkerInv, NEW outcome, ReconcileOtelCollector(outcome) PROVE WorkerInv'
  <1>1. CASE HandleError(outcome)
    BY <1>1, ErrorHandled DEF ReconcileOtelCollector, At
  <1>2. CASE /\ own' = [own EXCEPT !.tenants = DOMAIN in.tenants, !.state = "ready", !.problems = {}]
             /\ pc' = "publish" /\ Forget /\ UNCHANGED <<fresh, queued>>
    <2>1. own'.exists = TRUE /\ DOMAIN own' = CollectorFields
      BY <1>2 DEF ReconcileOtelCollector, At, WorkerInv, InputInv, CollectorFields
    <2> QED BY <1>2, <2>1, Forgotten DEF WorkerInv, TypeOK
  <1> QED BY <1>1, <1>2 DEF ReconcileOtelCollector

LEMMA WorkerDone == ASSUME BecomeIdle, queued' \in BOOLEAN PROVE WorkerInv'
  BY Forgotten DEF BecomeIdle

-----------------------------------------------------------------------------
(* Every step *)

\* What others make of an object is well formed.
LEMMA Edited ==
    /\ \A x \in DOMAIN EditValues : x \in Objects /\ \A v \in EditValues[x] : v \in Proposed(x) /\ WellFormed(x, v)
    /\ \A v : WellFormed(Collector, v) <=> v = Absent \/ (v.exists = TRUE /\ DOMAIN v = CollectorFields)
    /\ \A v : WellFormed("otel", v) <=> v = Absent \/ (v.exists = TRUE /\ DOMAIN v = {"exists", "content", "finalizers"})
  <1>1. \A x \in DOMAIN EditValues : x \in Objects /\ \A v \in EditValues[x] : v \in Proposed(x) /\ WellFormed(x, v)
    BY ObjectsAssumption DEF Proposed
  <1>2. /\ Collector \notin Tenants \cup Subscriptions \cup Outputs /\ Collector \notin Children
        /\ "otel" \notin Tenants \cup Subscriptions \cup Outputs /\ "otel" # Collector /\ "otel" \in Children
    BY Kinds DEF Children
  <1> QED BY <1>1, <1>2 DEF WellFormed

LEMMA EditStep ==
    ASSUME CollectorInv, NEW x \in Objects, NEW v, Edit(x, v), WellFormed(x, v), x \in Sources => v \in Proposed(x)
    PROVE  CollectorInv'
  <1>1. ApiInv'
    BY ApiPut DEF CollectorInv, Edit
  <1>2. WorkerInv'
    <2>1. UNCHANGED <<pc, own, listed, todo, need, in, config, errs, queued>> /\ fresh' = (fresh /\ x # Collector)
      BY DEF Edit
    <2>2. WorkerInv /\ fresh \in BOOLEAN /\ queued \in BOOLEAN
      BY DEF CollectorInv, WorkerInv, TypeOK
    <2> QED BY <2>1, <2>2, WorkerStutter
  <1> QED BY <1>1, <1>2 DEF CollectorInv, WorkerInv

LEMMA EnvironmentStep == ASSUME CollectorInv, Environment PROVE CollectorInv'
  <1>1. ASSUME NEW x \in DOMAIN EditValues \ {Collector}, NEW v \in EditValues[x], Edit(x, v)
        PROVE  CollectorInv'
    BY <1>1, Edited, EditStep
  <1>2. ASSUME NEW spec \in EditValues[Collector], EditCollector(spec)
        PROVE  CollectorInv'
    <2>1. WellFormed(Collector, spec)
      BY Edited, ObjectsAssumption
    <2>2. WellFormed(Collector, Applied(spec))
      <3>1. CASE ~spec.exists \/ ~store[Collector].exists
        BY <2>1, <3>1 DEF Applied
      <3>2. CASE spec.exists /\ store[Collector].exists
        <4>1. spec.exists = TRUE /\ DOMAIN spec = CollectorFields
          BY <2>1, <3>2, Edited DEF Absent
        <4>2. Applied(spec).exists = TRUE /\ DOMAIN Applied(spec) = CollectorFields
          BY <3>2, <4>1 DEF Applied, CollectorFields
        <4> QED BY <4>2, Edited
      <3> QED BY <3>1, <3>2
    <2> QED BY <1>2, <2>2, EditStep, Kinds DEF EditCollector
  <1>3. CASE NamespaceEvent
    <2>1. ApiInv'
      BY <1>3, ApiStutter DEF NamespaceEvent, CollectorInv
    <2>2. WorkerInv'
      BY <1>3, WorkerStutter DEF NamespaceEvent, QueuedByNamespace, workerVars, CollectorInv, WorkerInv, TypeOK
    <2> QED BY <2>1, <2>2 DEF CollectorInv, WorkerInv
  <1>4. CASE AddFinalizer
    <2> DEFINE v == [store["otel"] EXCEPT !.finalizers = TRUE]
    <2>1. "otel" \in Objects /\ "otel" \notin Sources
      BY Kinds DEF Children
    <2>2. WellFormed("otel", store["otel"]) /\ store["otel"] # Absent
      BY <1>4, <2>1, Read DEF AddFinalizer, CollectorInv
    <2>3. WellFormed("otel", v)
      BY <2>2, Edited
    <2>4. Edit("otel", v)
      BY <1>4 DEF AddFinalizer
    <2> HIDE DEF v
    <2> QED BY <2>1, <2>3, <2>4, EditStep
  <1> QED BY <1>1, <1>2, <1>3, <1>4 DEF Environment

LEMMA WorkerStepInv == ASSUME CollectorInv, WorkerStep PROVE CollectorInv'
  <1> SUFFICES ApiInv' /\ WorkerInv'
    BY DEF CollectorInv, WorkerInv
  <1> USE DEF CollectorInv
  <1>0. WorkerInv
    BY DEF WorkerInv
  <1>1. CASE ListTenants
    BY <1>0, <1>1, ApiStutter, WorkerList DEF ListTenants
  <1>2. CASE TenantsRead
    BY <1>0, <1>2, ApiStutter, WorkerTenantsRead DEF TenantsRead
  <1>3. CASE GetSecret
    BY <1>0, <1>3, ApiStutter, WorkerSecret DEF GetSecret
  <1>4. CASE Assemble
    BY <1>0, <1>4, ApiStutter, WorkerAssemble DEF Assemble
  <1>5. CASE CheckConfig
    BY <1>0, <1>5, ApiStutter, WorkerCheck DEF CheckConfig
  <1>6. CASE Publish
    <2>1. UNCHANGED apiVars \/ Put(Collector, own)
      BY <1>6 DEF Publish
    <2>2. WellFormed(Collector, own)
      BY <1>6, Edited DEF Publish, At, InputInv
    <2>3. ApiInv'
      BY <2>1, <2>2, Kinds, ApiPut, ApiStutter
    <2>4. BecomeIdle /\ queued' \in BOOLEAN
      BY <1>6 DEF Publish, Requeue
    <2> QED BY <2>3, <2>4, WorkerDone
  <1>7. ASSUME NEW t \in Tenants, VisitTenant(t) PROVE ApiInv' /\ WorkerInv'
    BY <1>0, <1>7, ApiStutter, WorkerTenant DEF VisitTenant
  <1>8. ASSUME NEW s \in Subscriptions, GetSubscription(s) PROVE ApiInv' /\ WorkerInv'
    BY <1>0, <1>8, ApiStutter, WorkerSubscription DEF GetSubscription
  <1>9. ASSUME NEW s \in Subscriptions, VisitSubscription(s) PROVE ApiInv' /\ WorkerInv'
    BY <1>0, <1>9, ApiStutter, WorkerVisit DEF VisitSubscription
  <1>10. ASSUME NEW b \in Bridges, GetBridge(b) PROVE ApiInv' /\ WorkerInv'
    BY <1>0, <1>10, ApiStutter, WorkerBridge DEF GetBridge
  <1>11. ASSUME NEW o \in Outputs, GetOutput(o) PROVE ApiInv' /\ WorkerInv'
    BY <1>0, <1>11, ApiStutter, WorkerOutput DEF GetOutput
  <1>12. ASSUME NEW outcome \in Outcomes, NEW i \in DOMAIN Rbac, ReconcileRBAC(Rbac[i], outcome)
         PROVE  ApiInv' /\ WorkerInv'
    <2>1. Rbac[i] \in {"role", "sa", "binding"}
      BY DEF Rbac
    <2>2. Rbac[i] \in Children
      BY <2>1 DEF Children
    <2> QED BY <1>0, <1>12, <2>1, <2>2, ApiReconcile, WorkerRBAC DEF ReconcileRBAC
  <1>13. ASSUME NEW outcome \in Outcomes, ReconcileAuthSecret(outcome) PROVE ApiInv' /\ WorkerInv'
    BY <1>0, <1>13, ApiReconcile, WorkerAuth DEF ReconcileAuthSecret, Children
  <1>14. ASSUME NEW outcome \in Outcomes, ReconcileOtelCollector(outcome) PROVE ApiInv' /\ WorkerInv'
    <2>1. PICK content : ReconcileResource("otel", content, outcome)
      BY <1>14 DEF ReconcileOtelCollector
    <2> QED BY <1>0, <1>14, <2>1, ApiReconcile, WorkerOtel DEF Children
  <1> QED BY <1>1, <1>2, <1>3, <1>4, <1>5, <1>6, <1>7, <1>8, <1>9, <1>10, <1>11, <1>12, <1>13, <1>14 DEF WorkerStep

LEMMA NextStep == ASSUME CollectorInv, [Next]_vars PROVE CollectorInv'
  <1> SUFFICES ASSUME ~WorkerStep, ~Environment PROVE ApiInv' /\ WorkerInv'
    BY WorkerStepInv, EnvironmentStep DEF CollectorInv, WorkerInv
  <1>0. WorkerInv /\ ApiInv
    BY DEF CollectorInv, WorkerInv
  <1>1. CASE StartReconcile
    BY <1>0, <1>1, ApiStutter, WorkerStart DEF StartReconcile
  <1>2. CASE StartError
    BY <1>0, <1>2, ApiStutter, WorkerStutter DEF StartError, workerVars, WorkerInv, TypeOK
  <1>3. CASE ReadError
    BY <1>0, <1>3, ApiStutter, ErrorHandled DEF ReadError
  <1>4. ASSUME NEW x \in Objects, DeliverEvent(x) PROVE ApiInv' /\ WorkerInv'
    BY <1>0, <1>4, ApiDeliver, WorkerStutter DEF DeliverEvent, workerVars, WorkerInv, TypeOK
  <1>5. CASE Restart
    <2>1. queued' \in BOOLEAN
      BY <1>0, <1>5, Read, Kinds DEF Restart
    <2> QED BY <1>0, <1>5, <2>1, ApiSync, WorkerDone DEF Restart
  <1>6. CASE UNCHANGED vars
    BY <1>0, <1>6, ApiStutter, WorkerStutter DEF vars, workerVars, WorkerInv, TypeOK
  <1> QED BY <1>1, <1>2, <1>3, <1>4, <1>5, <1>6 DEF Next

LEMMA Initially == Init => CollectorInv
  <1> SUFFICES ASSUME Init PROVE CollectorInv
    OBVIOUS
  <1>1. \A x \in Objects : store[x] \in Proposed(x) /\ WellFormed(x, store[x])
    <2>1. PICK scenario \in Scenarios :
            store = [x \in Objects |-> IF x \in DOMAIN scenario.objects THEN scenario.objects[x] ELSE Absent]
      BY DEF Init
    <2>2. \A x \in Objects : store[x] \in Proposed(x)
      BY <2>1 DEF Proposed
    <2> QED BY <2>2, ObjectsAssumption
  <1>2. /\ \A x \in Objects : cache[x] = store[x] /\ pending[x] = <<>>
        /\ DOMAIN store = Objects /\ DOMAIN cache = Objects /\ DOMAIN pending = Objects
    BY DEF Init
  <1>3. DOMAIN <<>> = {} /\ \A S : <<>> \in Seq(S)
    BY EmptySeq
  <1>4. \A x \in Objects : Versions(x) = {store[x]}
    BY <1>2, <1>3 DEF Versions
  <1>5. ApiInv
    BY <1>1, <1>2, <1>3, <1>4 DEF ApiInv, Streams, CacheCoherent, Latest
  <1>6. /\ in.tenants = <<>> /\ in.subs = <<>> /\ in.bridges = <<>> /\ in.outputs = <<>>
        /\ DOMAIN in = {"tenants", "subs", "bridges", "outputs"}
        /\ listed = <<>> /\ todo = {} /\ need = {} /\ errs = {} /\ pc = "idle" /\ own = Absent /\ fresh = FALSE
    BY DEF Init, NoInput
  <1>7. queued \in BOOLEAN
    BY <1>5, Read, Kinds DEF Init
  <1>8. TypeOK
    BY <1>3, <1>6, <1>7 DEF TypeOK, Absent
  <1>9. InputInv
    BY <1>3, <1>6 DEF InputInv, Outs
  <1>10. ReadInv
    BY <1>6 DEF ReadInv
  <1> QED BY <1>5, <1>8, <1>9, <1>10 DEF CollectorInv

(***************************************************************************)
(* At every step of Reconcile the worker holds what the loop it is in      *)
(* expects, and what was read has the fields of its kind, whatever users   *)
(* make of the resources while BuildConfigInputForCollector reads them one *)
(* after another.                                                          *)
(***************************************************************************)
THEOREM CollectorInvariant == Spec => []CollectorInv
  <1>1. Init => CollectorInv
    BY Initially
  <1>2. CollectorInv /\ [Next]_vars => CollectorInv'
    BY NextStep
  <1> QED BY <1>1, <1>2, PTL DEF Spec

\* The worker never holds what the loop it is in does not expect.
THEOREM CollectorTypeCorrect == Spec => []TypeOK
  <1>1. CollectorInv => TypeOK
    BY DEF CollectorInv
  <1> QED BY <1>1, CollectorInvariant, PTL

(***************************************************************************)
(* BuildConfigInputForCollector hands AssembleConfig only what is          *)
(* complete: every subscription of a tenant and every output of a          *)
(* subscription is in the input, although each was read at a time of its   *)
(* own and may have been deleted or changed in between.                    *)
(***************************************************************************)
THEOREM AlwaysComplete == Spec => []CompleteInput
  <1>1. CollectorInv => CompleteInput
    BY DEF CollectorInv, ReadInv, CompleteInput, At
  <1> QED BY <1>1, CollectorInvariant, PTL

=============================================================================
