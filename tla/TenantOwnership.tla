-------------------------- MODULE TenantOwnership --------------------------
(***************************************************************************)
(* What the tenant controller promises about the ownership of Outputs and  *)
(* Subscriptions (status.tenant): a resource belongs to at most one        *)
(* tenant, it is adopted only while it is free, only its owner gives it    *)
(* up, and at most one tenant acts at a time.                              *)
(***************************************************************************)
CONSTANTS Owned, Tenants, NoTenant

VARIABLES
    present,  \* the resources that exist
    owner,    \* owner[r]: the tenant r belongs to, or NoTenant
    actor     \* the tenant being reconciled, or NoTenant

ownVars == <<present, owner, actor>>

OwnInit ==
    /\ present \in SUBSET Owned
    /\ owner = [r \in Owned |-> NoTenant]
    /\ actor = NoTenant

Begin(t) ==
    /\ actor = NoTenant
    /\ actor' = t
    /\ UNCHANGED <<present, owner>>

\* The reconciliation ends, or the manager is restarted in the middle of it.
End ==
    /\ actor # NoTenant
    /\ actor' = NoTenant
    /\ UNCHANGED <<present, owner>>

Take(t, r) ==
    /\ actor = t
    /\ r \in present
    /\ owner[r] = NoTenant
    /\ owner' = [owner EXCEPT ![r] = t]
    /\ UNCHANGED <<present, actor>>

GiveUp(t, r) ==
    /\ actor = t
    /\ owner[r] = t
    /\ owner' = [owner EXCEPT ![r] = NoTenant]
    /\ UNCHANGED <<present, actor>>

\* Users create and delete resources; a new one starts free.
Appear(r) ==
    /\ r \notin present
    /\ present' = present \cup {r}
    /\ UNCHANGED <<owner, actor>>

Vanish(r) ==
    /\ r \in present
    /\ present' = present \ {r}
    /\ owner' = [owner EXCEPT ![r] = NoTenant]
    /\ UNCHANGED actor

OwnNext ==
    \/ End
    \/ \E t \in Tenants : Begin(t)
    \/ \E t \in Tenants, r \in Owned : Take(t, r) \/ GiveUp(t, r)
    \/ \E r \in Owned : Appear(r) \/ Vanish(r)

OwnSpec == OwnInit /\ [][OwnNext]_ownVars

=============================================================================
