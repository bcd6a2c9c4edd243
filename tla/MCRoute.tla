------------------------------ MODULE MCRoute ------------------------------
(***************************************************************************)
(* Instances of RouteReconciler for TLC. The tenants t1 and t2, the        *)
(* outputs and subscriptions of two namespaces, and two labels the         *)
(* namespaces can carry and the selectors can pick.                        *)
(***************************************************************************)
EXTENDS RouteReconciler, TLC

CONSTANTS t1, t2, o1, o2, s1, s2, b1, b2, n1, n2, red, blue

OneTenant == {t1}
TwoTenants == {t1, t2}
AllObjects == Owned \cup Tenants \cup Bridges

\* o1 and s1 live in n1, o2 and s2 in n2.
Residence == [r \in Owned |-> IF r \in {o1, s1} THEN n1 ELSE n2]
Picks(labels) == [sub |-> labels, log |-> labels]

\* t1 picks red, t2 picks blue; n1 is red, n2 blue.
OwnColour == [t \in Tenants |-> IF t = t1 THEN Picks({red}) ELSE Picks({blue})]
RedBlue == [n \in Namespaces |-> IF n = n1 THEN red ELSE blue]

RefsToO1 == [s \in Subscriptions |-> {o1} \cap Outputs]
NoBridges == [b \in {} |-> {}]

\* Both tenants pick red.
BothRed == [t \in Tenants |-> Picks({red})]
TenantSymmetry == Permutations(TwoTenants)
\* What a user may turn a tenant into: nothing selected, all, a typing error.
SomeSpecs == {Picks({}), Picks({red, blue}), [sub |-> {Malformed}, log |-> {red}],
              [sub |-> {red}, log |-> {Malformed}]}
OnlyRed == {Picks({red})}
NoneOrAll == {{}, Outputs}

\* b1 leads from t1 to t2, b2 from t1 to itself.
PeerAndSelf == [b \in Bridges |-> IF b = b1 THEN [source |-> t1, target |-> t2]
                                  ELSE [source |-> t1, target |-> t1]]
AllButT2 == AllObjects \ {t2}

\* The namespace n1 and all that is in it is t1's, and the manager has come to
\* rest: what Init leads to when nobody interferes.
AtHome ==
    [x \in Objects |->
        CASE x = t1 -> [InitialObject(x) EXCEPT !.state = "ready", !.subs = Subscriptions, !.logNs = {n1}]
          [] x = t2 -> [InitialObject(x) EXCEPT !.state = "ready"]
          [] x \in Outputs -> [InitialObject(x) EXCEPT !.state = "ready", !.tenant = t1]
          [] x \in Subscriptions -> [InitialObject(x) EXCEPT !.state = "ready", !.tenant = t1,
                                                             !.outputs = InitRefs[x]]]
HandoverInit ==
    /\ store = AtHome /\ cache = store
    /\ pending = [x \in Objects |-> <<>>]
    /\ pc = "idle" /\ cur = None
    /\ kind = "output" /\ mine = {} /\ outs = {} /\ todo = {}
    /\ sub = None /\ refs = {} /\ valid = {}
    /\ copy = [x \in Objects |-> Absent(x)]
    /\ fresh = {}
    /\ queue = {}
    /\ nsLabel = InitLabel
    /\ secrets = InitSecrets
    /\ spent = [edits |-> 0, faults |-> 0, restarts |-> 0]
HandoverSpec == HandoverInit /\ [][Next]_vars /\ Fairness /\ Independence

=============================================================================
