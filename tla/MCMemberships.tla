--------------------------- MODULE MCMemberships ---------------------------
(* Instances of Memberships: organizations founded by two principals;      *)
(* members added and removed with retried keys; a workspace, its group and *)
(* a grant; the members of a group; users provisioned and disabled.        *)
EXTENDS Memberships, TLC

CONSTANTS o1, o2, w1, g1, k1, k2, ca, cb, cc, cd

FourCalls == {ca, cb, cc, cd}
ThreePeople == 1 .. 3

Ask(kind, where, who, key, wants) ==
  [kind |-> kind, where |-> where, who |-> who, key |-> key, wants |-> wants]
Bootstrap(o, p, k) == Ask("bootstrap", o, p, k, {})
Join(p, k, roles) == Ask("add", o1, p, k, roles)
Leave(p, k) == Ask("remove", o1, p, k, {})
Workspace(p, k) == Ask("workspace", w1, p, k, {})
NewGroup(k) == Ask("group", g1, 1, k, {})
Grant(p, k) == Ask("grant", w1, p, k, {})
Reconcile(people) == Ask("reconcile", g1, 1, k1, people)
Provision(p) == Ask("provision", o1, p, k1, {p})
ProvisionInactive(p) == Ask("provision", o1, p, k1, {})
Disable(p) == Ask("status", o1, p, k1, {})
Enable(p) == Ask("status", o1, p, k1, {p})

Idle == Ask("idle", o1, 1, k1, {})

Cast(a, b, c, d, born) == [does |-> ca :> a @@ cb :> b @@ cc :> c @@ cd :> d, born |-> born]

Foundations == {
  Cast(Bootstrap(o1, 1, k1), Bootstrap(o1, 1, k1), Bootstrap(o2, 1, k2), Bootstrap(o1, 2, k1), {}),
  Cast(Bootstrap(o1, 1, k1), Bootstrap(o2, 1, k1), Bootstrap(o2, 2, k1), Leave(1, k1), {})}
Retries == {
  Cast(Join(1, k1, {}), Join(1, k1, {}), Leave(1, k1), Join(1, k1, {1}), {}),
  Cast(Leave(1, k1), Leave(1, k1), Join(1, k1, {}), Join(2, k1, {}), {Member(o1, 1)})}
Workspaces == {
  Cast(Workspace(1, k1), Workspace(1, k1), Grant(2, k1), Grant(2, k1), {}),
  Cast(Workspace(1, k1), Workspace(2, k1), NewGroup(k1), Idle, {}),
  Cast(Workspace(1, k1), NewGroup(k1), NewGroup(k1), Idle, {})}
Groups == {
  Cast(Reconcile({1}), Reconcile({2, 3}), Reconcile({1, 2}), Idle, {GroupMember(g1, 3)}),
  Cast(Reconcile({1, 2}), Disable(2), Enable(2), Idle,
       {Member(o1, 2), Identity(2), GroupMember(g1, 3)})}
People == {
  Cast(Provision(1), Provision(1), Disable(1), Leave(1, k1), {}),
  Cast(ProvisionInactive(1), Enable(1), Leave(1, k1), Idle, {}),
  Cast(Disable(1), Enable(1), Grant(1, k1), Idle, {Member(o1, 1), Identity(1)}),
  Cast(Disable(1), Disable(2), Enable(1), Idle, {Member(o1, 1), Identity(1), Member(o1, 2)})}
AllCasts == Foundations \cup Retries \cup Workspaces \cup Groups \cup People
=============================================================================
