------------------------------ MODULE KubeApi ------------------------------
(***************************************************************************)
(* The Kubernetes API as the controllers use it: a store of objects, the   *)
(* watch stream of every object and the informer cache every read is       *)
(* served from (the manager's client reads from the cache, cmd/main.go).   *)
(*                                                                         *)
(* A resourceVersion is only ever compared for equality with the stored    *)
(* one, so it is not kept as a number: a cached object carries the stored  *)
(* version exactly when no newer version of it is still on its way, and a  *)
(* client keeps for each of its own copies whether that was so and has     *)
(* stayed so (`fresh' in RouteReconciler).                                 *)
(***************************************************************************)
EXTENDS Naturals, Sequences

CONSTANTS
    Objects,  \* every object the controllers read or write
    MaxLag    \* bound: undelivered versions of one object

ASSUME MaxLagAssumption == MaxLag \in Nat \ {0}

VARIABLES
    store,    \* store[x]: the object in etcd
    cache,    \* cache[x]: the object in the informer cache
    pending   \* pending[x]: versions of x not yet delivered to the cache

apiVars == <<store, cache, pending>>

\* The cached version is the stored one.
CacheCurrent(x) == pending[x] = <<>>

\* The API server accepts the new value of x. Writing the stored value is a
\* no-op there: the resourceVersion stays and no watch event is sent.
Put(x, v) ==
    /\ Len(pending[x]) < MaxLag
    /\ store' = [store EXCEPT ![x] = v]
    /\ pending' = IF v = store[x] THEN pending
                  ELSE [pending EXCEPT ![x] = Append(@, v)]
    /\ UNCHANGED cache

\* The oldest undelivered version of x reaches the informer.
Deliver(x) ==
    /\ pending[x] # <<>>
    /\ cache' = [cache EXCEPT ![x] = Head(pending[x])]
    /\ pending' = [pending EXCEPT ![x] = Tail(@)]
    /\ UNCHANGED store

\* The initial list of a process that has just started.
InitialSync ==
    /\ cache' = store
    /\ pending' = [x \in Objects |-> <<>>]
    /\ UNCHANGED store

\* What the cache will hold once the watch streams have drained is the store.
Latest(x) == IF pending[x] = <<>> THEN cache[x] ELSE pending[x][Len(pending[x])]
CacheCoherent == \A x \in Objects : Latest(x) = store[x]

\* The versions of x the cache shows or is yet to show.
Versions(x) == {cache[x]} \cup {pending[x][i] : i \in DOMAIN pending[x]}
Streams ==
    /\ DOMAIN store = Objects /\ DOMAIN cache = Objects /\ DOMAIN pending = Objects
    /\ \A x \in Objects : pending[x] \in Seq(Versions(x))

=============================================================================
