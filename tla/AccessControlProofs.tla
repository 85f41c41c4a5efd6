------------------------ MODULE AccessControlProofs ------------------------
(***************************************************************************)
(* Users, groups, permissions and applications, for any number of them and *)
(* of requests cut short.  The two sides of a relation differ while a      *)
(* request is served, in what it still has to write: the invariants claim  *)
(* nothing of the request's own document but what its plan says of the     *)
(* writes left.  A request cut short then loses nothing that was claimed.  *)
(* Memberships and grants are proved apart; they share no list.  The last  *)
(* section is about the other side of memberships, what groups list, which *)
(* one handler breaks: of a user it is not called on, the sides agree.     *)
(***************************************************************************)
EXTENDS AccessControl, TLAPS

ToWrite == req.first \cup req.then
Unlisting(u) == [kind |-> "unlist", on |-> u, ref |-> req.doc]
Joining(g) == [kind |-> "join", on |-> g, ref |-> req.doc]
Granting(p) == [kind |-> "grant", on |-> p, ref |-> req.doc]
Revoking(p) == [kind |-> "revoke", on |-> p, ref |-> req.doc]
Dropping(g) == [kind |-> "drop", on |-> g, ref |-> req.doc]
Deleting(p) == [kind |-> "delete", on |-> p, ref |-> req.doc]
Unassigning(g) == [kind |-> "unassign", on |-> g, ref |-> req.doc]

\* What every request has in common.
Form ==
  /\ Live(req.doc)
  /\ req.op = "members" => req.doc \in Groups /\ req.gain \subseteq Users
  /\ req.op = "groups" => req.doc \in Users /\ req.gain \subseteq Groups
  /\ req.op = "status" => req.doc \in Users
  /\ req.op = "grants" => req.doc \in Groups /\ req.gain \subseteq LiveOnes(Permissions)
  /\ \A w \in ToWrite :
       /\ w.ref = req.doc
       /\ w.kind \in {"drop", "delete", "unassign"} => req.op = "delete"

FormInv == req # Idle => Form

-----------------------------------------------------------------------------
(* Memberships *)

\* The document about whose memberships nothing is claimed.
Moving == IF req # Idle /\ req.op # "grants" THEN torn \cup {req.doc} ELSE torn

MembersPlan ==
  /\ req.doc \in Immutable => \A u \in req.gain : <<u, req.doc>> \in OfType
  /\ \A w \in ToWrite : w.kind = "list" => w.on \in req.gain \ req.lose /\ Live(w.on)
  /\ req.doc \notin torn =>
       \A u \in LiveOnes(Users) \ torn : req.doc \in userGroups[u] =>
         \/ u \in (groupUsers[req.doc] \cup req.gain) \ req.lose
         \/ Unlisting(u) \in ToWrite

GroupsPlan ==
  /\ \A w \in ToWrite :
       /\ w.kind = "join" /\ w.on \in Immutable => <<req.doc, w.on>> \in OfType
       /\ w.kind = "leave" => w.on \in req.lose
  /\ req.doc \notin torn =>
       \A g \in ((userGroups[req.doc] \cup req.gain) \ req.lose) \ torn :
         Live(g) /\ (req.doc \in groupUsers[g] \/ Joining(g) \in ToWrite)

DeletePlan ==
  req.doc \in Groups \ torn =>
    \A u \in LiveOnes(Users) \ torn :
      req.doc \in userGroups[u] => Unlisting(u) \in ToWrite

MembershipInv ==
  /\ \A u \in LiveOnes(Users) \ Moving : \A g \in userGroups[u] \ Moving :
       Live(g) /\ u \in groupUsers[g]
  /\ ImmutableHoldsItsType
  /\ \A u \in Users : life[u] = "new" => userGroups[u] = {}
  /\ req # Idle =>
       /\ \A w \in ToWrite : /\ w.kind = "join" => req.op = "groups"
                             /\ w.kind = "list" => req.op = "members"
       /\ \A w \in ToWrite : req.op = "grants" => w.kind \in {"grant", "revoke"}
       /\ req.op = "members" => MembersPlan
       /\ req.op = "groups" => GroupsPlan
       /\ req.op = "delete" => DeletePlan

-----------------------------------------------------------------------------
(* Grants *)

\* The document about whose grants nothing is claimed.
Regranting ==
  IF req # Idle /\ req.op \in {"grants", "delete"} THEN torn \cup {req.doc} ELSE torn

Whole(p, S) == p \notin S /\ AppOf[p] \notin S

GrantsPlan ==
  /\ \A p \in Permissions : Granting(p) \in req.first => Revoking(p) \notin req.then
  /\ \A w \in req.first : w.kind = "grant" /\ w.on \in req.gain
  /\ \A w \in req.then : w.kind = "revoke"
  /\ req.doc \notin torn =>
       \A p \in Permissions : Whole(p, torn) =>
         /\ p \in (groupPerms[req.doc] \cup req.gain) \ req.lose
              <=> /\ Live(p)
                  /\ \/ req.doc \in permGroups[p] /\ Revoking(p) \notin req.then
                     \/ Granting(p) \in req.first
         /\ p \in (groupPerms[req.doc] \cup req.gain) \ req.lose
              => AppOf[p] \in req.apps

DeletePermissionPlan ==
  req.doc \in Permissions /\ Whole(req.doc, torn) =>
    \A g \in LiveOnes(Groups) \ torn : req.doc \in groupPerms[g] => Dropping(g) \in ToWrite

DeleteApplicationPlan ==
  /\ req.doc \in Applications => \A p \in req.lose : AppOf[p] = req.doc
  /\ \A w \in ToWrite : w.kind = "delete" => AppOf[w.on] = req.doc
  /\ req.doc \in Applications \ torn =>
       \A p \in Permissions \ torn : AppOf[p] = req.doc =>
         /\ Live(p) => Deleting(p) \in ToWrite
         /\ \A g \in LiveOnes(Groups) \ torn : p \in groupPerms[g] =>
              p \in req.lose /\ req.doc \in groupApps[g] /\ Unassigning(g) \in ToWrite

GrantInv ==
  /\ \A g \in LiveOnes(Groups) \ Regranting : \A p \in Permissions :
       Whole(p, Regranting) =>
         /\ p \in groupPerms[g] <=> Live(p) /\ g \in permGroups[p]
         /\ p \in groupPerms[g] => AppOf[p] \in groupApps[g]
  /\ \A g \in Groups, p \in Permissions :
       life[g] = "new" \/ life[p] = "new" => p \notin groupPerms[g] /\ g \notin permGroups[p]
  /\ req # Idle =>
       /\ \A w \in ToWrite : /\ w.kind = "grant" => req.op = "grants"
                             /\ w.kind = "revoke" => req.op \in {"grants", "delete"}
       /\ req.op = "grants" => GrantsPlan
       /\ req.op = "delete" => DeletePermissionPlan /\ DeleteApplicationPlan

-----------------------------------------------------------------------------
(* Requests and writes *)

Ops == {"members", "groups", "status", "grants", "delete"}

\* What a write is on, by its kind.
LEMMA WriteKinds ==
  ASSUME NEW w \in Write
  PROVE  /\ w.kind \in {"join", "leave"} => w.on \in Groups /\ w.ref \in Users
         /\ w.kind \in {"list", "unlist"} => w.on \in Users /\ w.ref \in Groups
         /\ w.kind \in {"grant", "revoke"} => w.on \in Permissions /\ w.ref \in Groups
         /\ w.kind = "drop" => w.on \in Groups /\ w.ref \in Permissions
         /\ w.kind = "delete" => w.on \in Permissions /\ w.ref \in Applications
         /\ w.kind = "unassign" => w.on \in Groups /\ w.ref \in Applications
         /\ w.kind \in {"join", "leave", "list", "unlist", "grant", "revoke", "drop",
                        "delete", "unassign"}
         /\ w = [kind |-> w.kind, on |-> w.on, ref |-> w.ref]
BY DEF Write

\* The writes of one kind that a request plans.
Joins(S, d) == Writes("join", S, {d})
Leaves(S, d) == Writes("leave", S, {d})
Lists(S, d) == Writes("list", S, {d})
Unlists(S, d) == Writes("unlist", S, {d})
Grants(S, d) == Writes("grant", S, {d})
Revokes(S, d) == Writes("revoke", S, {d})
Drops(S, d) == Writes("drop", S, {d})
Deletes(S, d) == Writes("delete", S, {d})
Unassigns(S, d) == Writes("unassign", S, {d})

LEMMA InWrites ==
  ASSUME NEW S, NEW d
  PROVE  /\ \A w \in Joins(S, d) : w.kind = "join" /\ w.on \in S /\ w.ref = d
         /\ \A w \in Leaves(S, d) : w.kind = "leave" /\ w.on \in S /\ w.ref = d
         /\ \A w \in Lists(S, d) : w.kind = "list" /\ w.on \in S /\ w.ref = d
         /\ \A w \in Unlists(S, d) : w.kind = "unlist" /\ w.on \in S /\ w.ref = d
         /\ \A w \in Grants(S, d) : w.kind = "grant" /\ w.on \in S /\ w.ref = d
         /\ \A w \in Revokes(S, d) : w.kind = "revoke" /\ w.on \in S /\ w.ref = d
         /\ \A w \in Drops(S, d) : w.kind = "drop" /\ w.on \in S /\ w.ref = d
         /\ \A w \in Deletes(S, d) : w.kind = "delete" /\ w.on \in S /\ w.ref = d
         /\ \A w \in Unassigns(S, d) : w.kind = "unassign" /\ w.on \in S /\ w.ref = d
BY DEF Writes, Joins, Leaves, Lists, Unlists, Grants, Revokes, Drops, Deletes, Unassigns

LEMMA ForEach ==
  ASSUME NEW S, NEW d, NEW x \in S
  PROVE  /\ [kind |-> "join", on |-> x, ref |-> d] \in Joins(S, d)
         /\ [kind |-> "leave", on |-> x, ref |-> d] \in Leaves(S, d)
         /\ [kind |-> "list", on |-> x, ref |-> d] \in Lists(S, d)
         /\ [kind |-> "unlist", on |-> x, ref |-> d] \in Unlists(S, d)
         /\ [kind |-> "grant", on |-> x, ref |-> d] \in Grants(S, d)
         /\ [kind |-> "revoke", on |-> x, ref |-> d] \in Revokes(S, d)
         /\ [kind |-> "drop", on |-> x, ref |-> d] \in Drops(S, d)
         /\ [kind |-> "delete", on |-> x, ref |-> d] \in Deletes(S, d)
         /\ [kind |-> "unassign", on |-> x, ref |-> d] \in Unassigns(S, d)
BY DEF Writes, Joins, Leaves, Lists, Unlists, Grants, Revokes, Drops, Deletes, Unassigns

LEMMA PlannedWrites ==
  /\ \A d \in Users, S \in SUBSET Groups : Joins(S, d) \subseteq Write
  /\ \A d \in Users, S \in SUBSET Groups : Leaves(S, d) \subseteq Write
  /\ \A d \in Groups, S \in SUBSET Users : Lists(S, d) \subseteq Write
  /\ \A d \in Groups, S \in SUBSET Users : Unlists(S, d) \subseteq Write
  /\ \A d \in Groups, S \in SUBSET Permissions : Grants(S, d) \subseteq Write
  /\ \A d \in Groups, S \in SUBSET Permissions : Revokes(S, d) \subseteq Write
  /\ \A d \in Permissions, S \in SUBSET Groups : Drops(S, d) \subseteq Write
  /\ \A d \in Applications, S \in SUBSET Permissions : Deletes(S, d) \subseteq Write
  /\ \A d \in Applications, S \in SUBSET Groups : Unassigns(S, d) \subseteq Write
BY DEF Writes, Write, Joins, Leaves, Lists, Unlists, Grants, Revokes, Drops, Deletes, Unassigns

LEMMA NotIdle == \A r \in Request : r # Idle
BY DEF Request, Idle

Planned(d, first, then, gain, lose, apps) ==
  /\ req = Idle /\ req' \in Request /\ req' # Idle
  /\ req'.doc = d /\ req'.first = first /\ req'.then = then
  /\ req'.gain = gain /\ req'.lose = lose /\ req'.apps = apps
  /\ UNCHANGED <<lists, torn>>

LEMMA Begun ==
  ASSUME NEW op \in Ops, NEW d \in Documents, NEW first \in SUBSET Write,
         NEW then \in SUBSET Write, NEW gain \in SUBSET Documents,
         NEW lose \in SUBSET Documents, NEW apps \in SUBSET Applications,
         Begin(op, d, first, then, gain, lose, apps), UNCHANGED <<lists, torn>>
  PROVE  Planned(d, first, then, gain, lose, apps) /\ req'.op = op
<1>1. req' \in Request
  BY DEF Begin, Request, Ops
<1> QED BY <1>1, NotIdle DEF Begin, Planned

LEMMA Went ==
  ASSUME req \in Request, NEW w, Did(w)
  PROVE  /\ req' \in Request /\ req' # Idle
         /\ req'.op = req.op /\ req'.doc = req.doc
         /\ req'.first = req.first \ {w} /\ req'.then = req.then \ {w}
         /\ req'.gain = req.gain /\ req'.lose = req.lose /\ req'.apps = req.apps
<1>1. req' \in Request
  BY DEF Did, Request
<1> QED BY <1>1, NotIdle DEF Did, Request

\* What each handler plans.

LEMMA CreateUserPlans ==
  ASSUME TypeOK, NEW u \in Users, NEW G \in SUBSET Groups, NEW isActive \in BOOLEAN,
         CreateUser(u, G, isActive)
  PROVE  /\ req'.op = "groups"
         /\ Planned(u, Joins(G, u), {}, G, {}, {})
         /\ life' = [life EXCEPT ![u] = "live"] /\ active' \in {active, active \cup {u}}
BY PlannedWrites, Begun DEF Joins, CreateUser, TypeOK, Documents, Ops

LEMMA AddUsersPlans ==
  ASSUME TypeOK, NEW g \in Groups, NEW U \in SUBSET Users, AddUsers(g, U)
  PROVE  /\ req'.op = "members"
         /\ Planned(g, Lists(U, g), {}, U, {}, {})
         /\ UNCHANGED <<life, active>>
BY PlannedWrites, Begun DEF Lists, AddUsers, TypeOK, Documents, Ops

LEMMA RemoveUserPlans ==
  ASSUME TypeOK, NEW g \in Groups, NEW u \in Users, RemoveUser(g, u)
  PROVE  /\ req'.op = "members"
         /\ Planned(g, Unlists({u}, g), {}, {}, {u}, {})
         /\ UNCHANGED <<life, active>>
BY PlannedWrites, Begun DEF Unlists, RemoveUser, TypeOK, Documents, Ops

LEMMA UpdateUserPlans ==
  ASSUME TypeOK, NEW u \in Users, NEW G \in SUBSET Groups, UpdateUser(u, G)
  PROVE  /\ req'.op = "groups"
         /\ Planned(u, Joins(G \ userGroups[u], u), Leaves(userGroups[u] \ G, u),
                    G \ userGroups[u], userGroups[u] \ G, {})
         /\ UNCHANGED <<life, active>>
BY PlannedWrites, Begun DEF Joins, Leaves, UpdateUser, TypeOK, Documents, Ops

LEMMA DeactivatePlans ==
  ASSUME TypeOK, NEW u \in Users, Deactivate(u)
  PROVE  /\ req'.op = "status"
         /\ Planned(u, Leaves(userGroups[u], u), {}, {}, userGroups[u], {})
         /\ UNCHANGED <<life, active>>
BY PlannedWrites, Begun DEF Leaves, Deactivate, TypeOK, Documents, Ops

LEMMA DeleteUserPlans ==
  ASSUME TypeOK, NEW u \in Users, DeleteUser(u)
  PROVE  /\ req'.op = "delete"
         /\ Planned(u, Leaves(userGroups[u], u), {}, {}, {}, {})
         /\ UNCHANGED <<life, active>>
BY PlannedWrites, Begun DEF Leaves, DeleteUser, TypeOK, Documents, Ops

LEMMA DeleteGroupPlans ==
  ASSUME TypeOK, NEW g \in Groups, DeleteGroup(g)
  PROVE  /\ req'.op = "delete"
         /\ Planned(g, Unlists(groupUsers[g], g),
                    Revokes(groupPerms[g], g), {}, {}, {})
         /\ UNCHANGED <<life, active>>
BY PlannedWrites, Begun DEF Unlists, Revokes, DeleteGroup, TypeOK, Documents, Ops

LEMMA DeletePermissionPlans ==
  ASSUME TypeOK, NEW p \in Permissions, DeletePermission(p)
  PROVE  /\ req'.op = "delete"
         /\ Planned(p, Drops(permGroups[p], p), {}, {}, {}, {})
         /\ UNCHANGED <<life, active>>
BY PlannedWrites, Begun DEF Drops, DeletePermission, TypeOK, Documents, Ops

LEMMA UpdateApplicationsPlans ==
  ASSUME TypeOK, NEW g \in Groups, NEW A \in SUBSET Applications, NEW action \in Actions,
         UpdateApplications(g, A, action)
  PROVE  LET granted == ToGrant(A \ groupApps[g], action)
             revoked == ToRevoke(groupApps[g] \ A, g)
         IN /\ req'.op = "grants" /\ Planned(g, Grants(granted, g),
                       Revokes(revoked, g), granted, revoked, A)
            /\ UNCHANGED <<life, active>>
<1>1. /\ ToGrant(A \ groupApps[g], action) \subseteq Permissions
      /\ ToRevoke(groupApps[g] \ A, g) \subseteq Permissions
  BY DEF ToGrant, ToRevoke, LiveOnes
<1> QED BY <1>1, PlannedWrites, Begun
         DEF Grants, Revokes, UpdateApplications, TypeOK, Documents, Ops

LEMMA UpdatePermissionsPlans ==
  ASSUME TypeOK, NEW g \in Groups, NEW a \in Applications, NEW P \in SUBSET Permissions,
         UpdatePermissions(g, a, P)
  PROVE  LET added == P \ groupPerms[g]
             removed == {p \in groupPerms[g] \ P : Live(p) /\ AppOf[p] = a}
         IN /\ req'.op = "grants" /\ Planned(g, Grants(added, g),
                       Revokes(removed, g), added, removed, groupApps[g])
            /\ UNCHANGED <<life, active>>
BY PlannedWrites, Begun DEF Grants, Revokes, UpdatePermissions, TypeOK, Documents, Ops

LEMMA DeleteApplicationPlans ==
  ASSUME TypeOK, NEW a \in Applications, DeleteApplication(a)
  PROVE  LET mine == {p \in LiveOnes(Permissions) : AppOf[p] = a}
         IN /\ req'.op = "delete" /\ Planned(a, Deletes(mine, a),
                       Unassigns(UNION {permGroups[p] : p \in mine}, a), {}, mine, {})
            /\ UNCHANGED <<life, active>>
<1> DEFINE mine == {p \in LiveOnes(Permissions) : AppOf[p] = a}
           named == UNION {permGroups[p] : p \in mine}
<1>1. mine \subseteq Permissions /\ named \subseteq Groups
  BY DEF LiveOnes, TypeOK
<1>2. /\ Begin("delete", a, Deletes(mine, a), Unassigns(named, a), {}, mine, {})
      /\ UNCHANGED <<life, active, lists, torn>>
  BY DEF DeleteApplication, Deletes, Unassigns
<1> HIDE DEF mine, named
<1>3. req'.op = "delete" /\ Planned(a, Deletes(mine, a), Unassigns(named, a), {}, mine, {})
  BY <1>1, <1>2, PlannedWrites, Begun DEF Documents, Ops
<1> QED BY <1>2, <1>3 DEF mine, named

-----------------------------------------------------------------------------
(* Types, and the form of requests *)

LEMMA PendingIs ==
  ASSUME req = Idle \/ req \in Request, NEW w, Pending(w)
  PROVE  req # Idle /\ req \in Request /\ w \in ToWrite /\ w \in Write
BY DEF Pending, ToWrite, Request

LEMMA WriteForm ==
  ASSUME TypeOK, FormInv, NEW w, Pending(w), Did(w),
         life' = life \/ (w.kind = "delete" /\ life' = [life EXCEPT ![w.on] = "gone"])
  PROVE  FormInv'
<1>1. /\ req # Idle /\ req \in Request /\ w \in ToWrite /\ w \in Write
  BY PendingIs DEF TypeOK
<1>2. /\ req'.op = req.op /\ req'.doc = req.doc /\ req'.gain = req.gain
      /\ ToWrite' \subseteq ToWrite
  BY <1>1, Went DEF ToWrite
<1>3. CASE life' = life
  BY <1>1, <1>2, <1>3 DEF FormInv, Form, Live, LiveOnes
<1>4. CASE w.kind = "delete" /\ life' = [life EXCEPT ![w.on] = "gone"]
  <2>1. w.on \in Permissions /\ w.ref = req.doc /\ req.doc \in Applications
    BY <1>1, <1>4, WriteKinds DEF FormInv, Form
  <2>2. w.on # req.doc /\ req.op = "delete"
    BY <1>1, <1>4, <2>1, ConstantsAssumption DEF FormInv, Form
  <2>3. Live(req.doc)'
    BY <1>1, <1>2, <1>4, <2>2 DEF FormInv, Form, Live, TypeOK
  <2> QED BY <1>1, <1>2, <2>2, <2>3 DEF FormInv, Form
<1> QED BY <1>3, <1>4

LEMMA PlannedTypes ==
  ASSUME TypeOK, NEW d, NEW first, NEW then, NEW gain, NEW lose, NEW apps,
         Planned(d, first, then, gain, lose, apps),
         life' \in [Documents -> Lives], active' \subseteq Users
  PROVE  TypeOK'
BY DEF Planned, TypeOK, lists

LEMMA PlannedForm ==
  ASSUME NEW d, NEW first, NEW then, NEW gain, NEW lose, NEW apps,
         Planned(d, first, then, gain, lose, apps), life'[d] = "live",
         req'.op = "members" => d \in Groups /\ gain \subseteq Users,
         req'.op = "groups" => d \in Users /\ gain \subseteq Groups,
         req'.op = "status" => d \in Users,
         req'.op = "grants" => d \in Groups /\ gain \subseteq Permissions
                          /\ \A p \in gain : life'[p] = "live",
         \A w \in first \cup then :
           w.ref = d /\ (w.kind \in {"drop", "delete", "unassign"} => req'.op = "delete")
  PROVE  FormInv'
BY DEF Planned, FormInv, Form, Live, LiveOnes, ToWrite

LEMMA HandleTypes ==
  ASSUME TypeOK, FormInv, Handle
  PROVE  TypeOK' /\ FormInv'
<1>0. life \in [Documents -> Lives] /\ active \subseteq Users
  BY DEF TypeOK
<1>1. ASSUME NEW d \in Documents \ Users, Create(d) PROVE TypeOK' /\ FormInv'
  BY <1>1 DEF Create, TypeOK, FormInv, lists, Lives
<1>2. ASSUME NEW u \in Users, NEW G \in SUBSET Groups, NEW isActive \in BOOLEAN,
             CreateUser(u, G, isActive)
      PROVE  TypeOK' /\ FormInv'
  <2>1. u \in Documents
    BY DEF Documents
  <2>2. /\ req'.op = "groups" /\ Planned(u, Joins(G, u), {}, G, {}, {})
        /\ life' = [life EXCEPT ![u] = "live"] /\ active' \in {active, active \cup {u}}
    BY <1>2, CreateUserPlans
  <2>3. life'[u] = "live" /\ life' \in [Documents -> Lives] /\ active' \subseteq Users
    BY <1>0, <2>1, <2>2 DEF Lives
  <2> QED BY <2>2, <2>3, InWrites, PlannedTypes, PlannedForm
<1>3. ASSUME NEW u \in Users, UpdateInactiveUser(u) \/ Activate(u) PROVE TypeOK' /\ FormInv'
  BY <1>3 DEF UpdateInactiveUser, Activate, TypeOK, FormInv, lists
<1>4. ASSUME NEW u \in Users, NEW G \in SUBSET Groups, UpdateUser(u, G) PROVE TypeOK' /\ FormInv'
  <2> DEFINE joined == G \ userGroups[u]
             left == userGroups[u] \ G
  <2>1. /\ req'.op = "groups" /\ Planned(u, Joins(joined, u), Leaves(left, u), joined, left, {})
        /\ UNCHANGED <<life, active>> /\ Live(u) /\ joined \subseteq Groups
    BY <1>4, UpdateUserPlans DEF UpdateUser
  <2> HIDE DEF joined, left
  <2> QED BY <1>0, <2>1, InWrites, PlannedTypes, PlannedForm DEF Live
<1>5. ASSUME NEW u \in Users, Deactivate(u) PROVE TypeOK' /\ FormInv'
  BY <1>0, <1>5, DeactivatePlans, InWrites, PlannedTypes, PlannedForm DEF Deactivate, Live
<1>6. ASSUME NEW u \in Users, DeleteUser(u) PROVE TypeOK' /\ FormInv'
  BY <1>0, <1>6, DeleteUserPlans, InWrites, PlannedTypes, PlannedForm DEF DeleteUser, Live
<1>7. ASSUME NEW g \in Groups, NEW U \in SUBSET Users, AddUsers(g, U) PROVE TypeOK' /\ FormInv'
  BY <1>0, <1>7, AddUsersPlans, InWrites, PlannedTypes, PlannedForm DEF AddUsers, Live
<1>8. ASSUME NEW g \in Groups, NEW u \in Users, RemoveUser(g, u) PROVE TypeOK' /\ FormInv'
  BY <1>0, <1>8, RemoveUserPlans, InWrites, PlannedTypes, PlannedForm DEF RemoveUser, Live
<1>9. ASSUME NEW g \in Groups, DeleteGroup(g) PROVE TypeOK' /\ FormInv'
  BY <1>0, <1>9, DeleteGroupPlans, InWrites, PlannedTypes, PlannedForm DEF DeleteGroup, Live
<1>10. ASSUME NEW p \in Permissions, DeletePermission(p) PROVE TypeOK' /\ FormInv'
  BY <1>0, <1>10, DeletePermissionPlans, InWrites, PlannedTypes, PlannedForm
     DEF DeletePermission, Live
<1>11. ASSUME NEW g \in Groups, NEW A \in SUBSET Applications, NEW action \in Actions,
             UpdateApplications(g, A, action)
      PROVE  TypeOK' /\ FormInv'
  <2> DEFINE granted == ToGrant(A \ groupApps[g], action)
             revoked == ToRevoke(groupApps[g] \ A, g)
  <2>1. /\ req'.op = "grants" /\ Planned(g, Grants(granted, g),
                   Revokes(revoked, g), granted, revoked, A)
        /\ UNCHANGED <<life, active>> /\ Live(g)
    BY <1>11, UpdateApplicationsPlans DEF UpdateApplications
  <2>2. granted \subseteq Permissions /\ \A p \in granted : Live(p)
    BY DEF ToGrant, LiveOnes
  <2> HIDE DEF granted, revoked
  <2> QED BY <1>0, <2>1, <2>2, InWrites, PlannedTypes, PlannedForm DEF Live
<1>12. ASSUME NEW g \in Groups, NEW a \in Applications, NEW P \in SUBSET Permissions,
             UpdatePermissions(g, a, P)
      PROVE  TypeOK' /\ FormInv'
  <2> DEFINE added == P \ groupPerms[g]
             removed == {p \in groupPerms[g] \ P : Live(p) /\ AppOf[p] = a}
  <2>1. /\ req'.op = "grants" /\ Planned(g, Grants(added, g),
                   Revokes(removed, g), added, removed, groupApps[g])
        /\ UNCHANGED <<life, active>> /\ Live(g)
        /\ added \subseteq Permissions /\ \A p \in added : Live(p)
    BY <1>12, UpdatePermissionsPlans DEF UpdatePermissions
  <2> HIDE DEF added, removed
  <2> QED BY <1>0, <2>1, InWrites, PlannedTypes, PlannedForm DEF Live
<1>13. ASSUME NEW a \in Applications, DeleteApplication(a) PROVE TypeOK' /\ FormInv'
  <2> DEFINE mine == {p \in LiveOnes(Permissions) : AppOf[p] = a}
             named == UNION {permGroups[p] : p \in mine}
  <2>1. /\ req'.op = "delete" /\ Planned(a, Deletes(mine, a), Unassigns(named, a),
                   {}, mine, {})
        /\ UNCHANGED <<life, active>> /\ Live(a)
    BY <1>13, DeleteApplicationPlans DEF DeleteApplication
  <2> HIDE DEF mine, named
  <2> QED BY <1>0, <2>1, InWrites, PlannedTypes, PlannedForm DEF Live
<1> QED BY <1>1, <1>2, <1>3, <1>4, <1>5, <1>6, <1>7, <1>8, <1>9, <1>10, <1>11, <1>12, <1>13
           DEF Handle

LEMMA LoopTypes ==
  ASSUME TypeOK, FormInv, Loop
  PROVE  TypeOK' /\ FormInv'
<1>1. PICK w \in Write : \/ WriteMember(w) \/ WriteUser(w) \/ WritePermission(w)
                         \/ DropPermission(w) \/ RemovePermission(w) \/ Unassign(w)
  BY DEF Loop
<1>2. Pending(w) /\ Did(w) /\ UNCHANGED torn
  BY <1>1 DEF WriteMember, WriteUser, WritePermission, DropPermission, RemovePermission,
              Unassign
<1>3. req # Idle /\ req \in Request /\ w \in Write /\ req' \in Request
  BY <1>2, PendingIs, Went DEF TypeOK
<1>4. life' = life \/ (w.kind = "delete" /\ life' = [life EXCEPT ![w.on] = "gone"])
  BY <1>1 DEF WriteMember, WriteUser, WritePermission, DropPermission, RemovePermission,
              Unassign
<1>5. FormInv'
  BY <1>2, <1>4, WriteForm
<1>6. TypeOK'
  <2>1. CASE WriteMember(w)
    BY <1>3, <2>1, WriteKinds DEF WriteMember, TypeOK
  <2>2. CASE WriteUser(w)
    BY <1>3, <2>2, WriteKinds DEF WriteUser, TypeOK
  <2>3. CASE WritePermission(w)
    BY <1>3, <2>3, WriteKinds DEF WritePermission, TypeOK
  <2>4. CASE DropPermission(w)
    BY <1>3, <2>4, WriteKinds DEF DropPermission, TypeOK
  <2>5. CASE RemovePermission(w)
    BY <1>3, <2>5, WriteKinds DEF RemovePermission, TypeOK, Lives
  <2>6. CASE Unassign(w)
    BY <1>3, <2>6, WriteKinds DEF Unassign, TypeOK
  <2> QED BY <1>1, <2>1, <2>2, <2>3, <2>4, <2>5, <2>6
<1> QED BY <1>5, <1>6

LEMMA SaveTypes ==
  ASSUME TypeOK, FormInv, Save \/ CutShort
  PROVE  TypeOK' /\ FormInv'
<1>1. req' = Idle /\ req # Idle
  BY DEF Save, SaveMembers, SaveGroups, SaveStatus, SaveGrants, Remove, LastWrite, CutShort
<1>2. req \in Request /\ Form
  BY <1>1 DEF TypeOK, FormInv
<1>3. req.doc \in Documents /\ req.apps \in SUBSET Applications
  BY <1>2 DEF Request
<1>4. CASE SaveMembers
  BY <1>1, <1>2, <1>3, <1>4 DEF SaveMembers, LastWrite, TypeOK, FormInv, Form
<1>5. CASE SaveGroups
  BY <1>1, <1>2, <1>3, <1>5 DEF SaveGroups, LastWrite, TypeOK, FormInv, Form
<1>6. CASE SaveStatus
  BY <1>1, <1>2, <1>3, <1>6 DEF SaveStatus, LastWrite, TypeOK, FormInv, Form
<1>7. CASE SaveGrants
  BY <1>1, <1>2, <1>3, <1>7 DEF SaveGrants, LastWrite, TypeOK, FormInv, Form, LiveOnes
<1>8. CASE Remove
  BY <1>1, <1>2, <1>3, <1>8 DEF Remove, Emptied, TypeOK, FormInv, Lives
<1>9. CASE CutShort
  BY <1>1, <1>3, <1>9 DEF CutShort, TypeOK, FormInv, lists
<1> QED BY <1>4, <1>5, <1>6, <1>7, <1>8, <1>9 DEF Save

LEMMA NextTypes == TypeOK /\ FormInv /\ [Next]_vars => TypeOK' /\ FormInv'
<1> SUFFICES ASSUME TypeOK, FormInv, [Next]_vars PROVE TypeOK' /\ FormInv'
  OBVIOUS
<1>1. CASE UNCHANGED vars
  BY <1>1 DEF vars, lists, TypeOK, FormInv, Form, ToWrite, Live, LiveOnes
<1> QED BY <1>1, HandleTypes, LoopTypes, SaveTypes DEF Next

LEMMA InitTypes == Init => TypeOK /\ FormInv
BY ConstantsAssumption DEF Init, TypeOK, FormInv, LiveOnes

\* The documents, their lists and the request in flight keep their types.
THEOREM TypeCorrect == Spec => []TypeOK
<1>1. Spec => [](TypeOK /\ FormInv)
  BY InitTypes, NextTypes, PTL DEF Spec
<1> QED BY <1>1, PTL

-----------------------------------------------------------------------------
(* Memberships are kept *)

\* A request that is planned leaves the lists alone; what remains to be shown
\* is its plan.
LEMMA PlannedMembership ==
  ASSUME TypeOK, MembershipInv,
         NEW d, NEW first, NEW then, NEW gain, NEW lose, NEW apps,
         Planned(d, first, then, gain, lose, apps), req'.op \in Ops,
         \/ life' = life
         \/ d \in Users /\ req'.op = "groups" /\ life' = [life EXCEPT ![d] = "live"],
         \A w \in first \cup then :
           /\ w.kind = "join" => req'.op = "groups"
           /\ w.kind = "list" => req'.op = "members"
           /\ req'.op = "grants" => w.kind \in {"grant", "revoke"},
         req'.op = "members" => MembersPlan',
         req'.op = "groups" => GroupsPlan',
         req'.op = "delete" => DeletePlan'
  PROVE  MembershipInv'
<1>1. /\ req = Idle /\ req' # Idle /\ ToWrite' = first \cup then /\ req'.doc = d
      /\ UNCHANGED <<userGroups, groupUsers, torn>>
  BY DEF Planned, ToWrite, lists
<1> DEFINE joins == d \in Users /\ req'.op = "groups" /\ life' = [life EXCEPT ![d] = "live"]
<1>0. Users \subseteq Documents /\ Groups \subseteq Documents /\ life \in [Documents -> Lives]
  BY DEF Documents, TypeOK
<1>2. \A u \in LiveOnes(Users)' \ Moving' : u \in LiveOnes(Users) \ Moving
  <2>1. CASE life' = life
    BY <1>1, <2>1 DEF Moving, LiveOnes, Live
  <2>2. CASE joins
    <3>1. \A u \in LiveOnes(Users)' \ Moving' :
            u \in Users /\ u # d /\ life'[u] = "live" /\ u \notin torn
      BY <1>1, <2>2 DEF Moving, LiveOnes, Live
    <3> QED BY <1>0, <1>1, <2>2, <3>1 DEF Moving, LiveOnes, Live
  <2> QED BY <2>1, <2>2
<1>3. \A g \in Documents : life[g] = "live" => life'[g] = "live"
  BY <1>0
<1>4. Moving \subseteq Moving'
  BY <1>1 DEF Moving
<1>5. \A u \in LiveOnes(Users)' \ Moving' : \A g \in userGroups'[u] \ Moving' :
        Live(g)' /\ u \in groupUsers'[g]
  <2>1. \A u \in Users : userGroups[u] \subseteq Documents
    BY <1>0 DEF TypeOK
  <2> QED BY <1>1, <1>2, <1>3, <1>4, <2>1 DEF MembershipInv, Live, LiveOnes
<1>6. \A u \in Users : life'[u] = "new" => userGroups'[u] = {}
  BY <1>0, <1>1 DEF MembershipInv
<1>7. ImmutableHoldsItsType'
  BY <1>1 DEF MembershipInv, ImmutableHoldsItsType
<1> QED BY <1>1, <1>5, <1>6, <1>7 DEF MembershipInv

LEMMA HandleMembership ==
  ASSUME TypeOK, MembershipInv, Handle
  PROVE  MembershipInv'
<1>0. /\ \A u \in Users : u \notin Groups /\ u \notin Permissions /\ u \notin Applications
      /\ \A g \in Groups : g \notin Permissions /\ g \notin Applications
      /\ Immutable \subseteq Predefined /\ Users \subseteq Documents /\ Groups \subseteq Documents
  BY ConstantsAssumption DEF Documents
<1>1. ASSUME NEW d \in Documents \ Users, Create(d) PROVE MembershipInv'
  <2>1. /\ req = Idle /\ UNCHANGED <<userGroups, groupUsers, torn, req>>
        /\ \A g : Live(g) => Live(g)'
        /\ \A u \in Users : life'[u] = life[u]
    BY <1>0, <1>1 DEF Create, lists, Live, TypeOK
  <2> QED BY <2>1 DEF MembershipInv, ImmutableHoldsItsType, Moving, LiveOnes, Live
<1>2. ASSUME NEW u \in Users, UpdateInactiveUser(u) \/ Activate(u) PROVE MembershipInv'
  <2>1. /\ req = Idle /\ UNCHANGED <<life, groupUsers, torn, req>>
        /\ \A x \in Users : userGroups'[x] \subseteq userGroups[x]
    BY <1>2 DEF UpdateInactiveUser, Activate, lists, TypeOK
  <2> QED BY <2>1 DEF MembershipInv, ImmutableHoldsItsType, Moving, LiveOnes, Live
<1>3. ASSUME NEW u \in Users, NEW G \in SUBSET Groups, NEW isActive \in BOOLEAN,
             CreateUser(u, G, isActive)
      PROVE  MembershipInv'
  <2>1. /\ req'.op = "groups" /\ Planned(u, Joins(G, u), {}, G, {}, {})
        /\ life' = [life EXCEPT ![u] = "live"]
    BY <1>3, CreateUserPlans
  <2>2. /\ req'.doc = u /\ req'.gain = G /\ ToWrite' = Joins(G, u)
        /\ UNCHANGED <<userGroups, groupUsers, torn>>
    BY <2>1 DEF Planned, ToWrite, lists
  <2>3. /\ life[u] = "new" /\ userGroups[u] = {}
        /\ \A g \in G : Live(g)' /\ (g \in Immutable => <<u, g>> \in OfType)
    BY <1>3, <1>0, <2>1 DEF CreateUser, MembershipInv, Live, TypeOK
  <2>4. GroupsPlan'
    <3>1. \A g \in G : Joining(g)' \in ToWrite'
      BY <2>2, ForEach DEF Joining
    <3>2. \A w \in ToWrite' : w.kind = "join" /\ w.on \in G
      BY <2>2, InWrites
    <3> QED BY <2>2, <2>3, <3>1, <3>2 DEF GroupsPlan
  <2>5. \A w \in Joins(G, u) \cup {} : w.kind = "join"
    BY InWrites
  <2> QED BY <2>1, <2>4, <2>5, PlannedMembership DEF Ops
<1>4. ASSUME NEW u \in Users, NEW G \in SUBSET Groups, UpdateUser(u, G)
      PROVE  MembershipInv'
  <2> DEFINE joined == G \ userGroups[u]
             left == userGroups[u] \ G
  <2>1. /\ req'.op = "groups" /\ Planned(u, Joins(joined, u), Leaves(left, u), joined, left, {})
        /\ life' = life
    BY <1>4, UpdateUserPlans
  <2>2. /\ req'.doc = u /\ req'.gain = joined /\ req'.lose = left
        /\ ToWrite' = Joins(joined, u) \cup Leaves(left, u)
        /\ UNCHANGED <<userGroups, groupUsers, torn>> /\ req = Idle
    BY <2>1 DEF Planned, ToWrite, lists
  <2>3. /\ Live(u) /\ \A g \in joined : Live(g) /\ (g \in Immutable => <<u, g>> \in OfType)
    BY <1>4 DEF UpdateUser
  <2>4. u \notin torn => \A g \in userGroups[u] \ torn : Live(g) /\ u \in groupUsers[g]
    BY <2>2, <2>3 DEF MembershipInv, Moving, LiveOnes
  <2>5. (userGroups[u] \cup joined) \ left \subseteq userGroups[u] \cup joined
    OBVIOUS
  <2> HIDE DEF joined, left
  <2>6. GroupsPlan'
    <3>1. \A g \in joined : Joining(g)' \in ToWrite'
      BY <2>2, ForEach DEF Joining
    <3>2. \A w \in ToWrite' : \/ w.kind = "join" /\ w.on \in joined
                              \/ w.kind = "leave" /\ w.on \in left
      BY <2>2, InWrites
    <3> QED BY <2>1, <2>2, <2>3, <2>4, <2>5, <3>1, <3>2 DEF GroupsPlan, Live
  <2> QED BY <2>1, <2>6, InWrites, PlannedMembership DEF Ops
<1>5. ASSUME NEW u \in Users, Deactivate(u) PROVE MembershipInv'
  BY <1>5, DeactivatePlans, InWrites, PlannedMembership DEF Ops
<1>6. ASSUME NEW u \in Users, DeleteUser(u) PROVE MembershipInv'
  <2>1. /\ req'.op = "delete" /\ Planned(u, Leaves(userGroups[u], u), {}, {}, {}, {})
        /\ life' = life
    BY <1>6, DeleteUserPlans
  <2>2. DeletePlan'
    BY <1>0, <2>1 DEF DeletePlan, Planned
  <2> QED BY <2>1, <2>2, InWrites, PlannedMembership DEF Ops
<1>7. ASSUME NEW g \in Groups, NEW U \in SUBSET Users, AddUsers(g, U)
      PROVE  MembershipInv'
  <2>1. /\ req'.op = "members" /\ Planned(g, Lists(U, g), {}, U, {}, {})
        /\ life' = life
    BY <1>7, AddUsersPlans
  <2>2. /\ req'.doc = g /\ req'.gain = U /\ req'.lose = {} /\ ToWrite' = Lists(U, g)
        /\ UNCHANGED <<userGroups, groupUsers, torn>> /\ req = Idle
    BY <2>1 DEF Planned, ToWrite, lists
  <2>3. \A u \in U : Live(u) /\ (g \in Immutable => <<u, g>> \in OfType)
    BY <1>7, <1>0 DEF AddUsers
  <2>4. MembersPlan'
    <3>1. \A w \in ToWrite' : w.on \in U
      BY <2>2, InWrites
    <3>2. g \notin torn => \A u \in LiveOnes(Users) \ torn : g \in userGroups[u] =>
                             u \in groupUsers[g]
      BY <2>2 DEF MembershipInv, Moving
    <3> QED BY <2>1, <2>2, <2>3, <3>1, <3>2 DEF MembersPlan, Live, LiveOnes
  <2> QED BY <2>1, <2>4, InWrites, PlannedMembership DEF Ops
<1>8. ASSUME NEW g \in Groups, NEW u \in Users, RemoveUser(g, u)
      PROVE  MembershipInv'
  <2>1. /\ req'.op = "members" /\ Planned(g, Unlists({u}, g), {}, {}, {u}, {})
        /\ life' = life
    BY <1>8, RemoveUserPlans
  <2>2. /\ req'.doc = g /\ req'.gain = {} /\ req'.lose = {u} /\ ToWrite' = Unlists({u}, g)
        /\ UNCHANGED <<userGroups, groupUsers, torn>> /\ req = Idle
    BY <2>1 DEF Planned, ToWrite, lists
  <2>3. MembersPlan'
    <3>1. \A w \in ToWrite' : w.kind = "unlist"
      BY <2>2, InWrites
    <3>2. Unlisting(u)' \in ToWrite'
      BY <2>2, ForEach DEF Unlisting
    <3>3. g \notin torn => \A x \in LiveOnes(Users) \ torn : g \in userGroups[x] =>
                             x \in groupUsers[g]
      BY <2>2 DEF MembershipInv, Moving
    <3> QED BY <2>1, <2>2, <3>1, <3>2, <3>3 DEF MembersPlan, Live, LiveOnes
  <2> QED BY <2>1, <2>3, InWrites, PlannedMembership DEF Ops
<1>9. ASSUME NEW g \in Groups, DeleteGroup(g) PROVE MembershipInv'
  <2> DEFINE members == groupUsers[g]
             perms == groupPerms[g]
  <2>1. /\ req'.op = "delete" /\ Planned(g, Unlists(members, g), Revokes(perms, g), {}, {}, {})
        /\ life' = life
    BY <1>9, DeleteGroupPlans
  <2>2. /\ req'.doc = g /\ ToWrite' = Unlists(members, g) \cup Revokes(perms, g)
        /\ UNCHANGED <<userGroups, groupUsers, torn>> /\ req = Idle
    BY <2>1 DEF Planned, ToWrite, lists
  <2>3. DeletePlan'
    <3>1. \A u \in members : Unlisting(u)' \in ToWrite'
      BY <2>2, ForEach DEF Unlisting
    <3>2. g \notin torn => \A u \in LiveOnes(Users) \ torn : g \in userGroups[u] =>
                             u \in members
      BY <2>2 DEF MembershipInv, Moving
    <3> QED BY <2>1, <2>2, <3>1, <3>2 DEF DeletePlan, Live, LiveOnes
  <2> HIDE DEF members, perms
  <2> QED BY <2>1, <2>3, InWrites, PlannedMembership DEF Ops
<1>10. ASSUME NEW g \in Groups, NEW A \in SUBSET Applications, NEW action \in Actions,
              UpdateApplications(g, A, action)
       PROVE  MembershipInv'
  <2> DEFINE granted == ToGrant(A \ groupApps[g], action)
             revoked == ToRevoke(groupApps[g] \ A, g)
  <2>1. /\ req'.op = "grants"
        /\ Planned(g, Grants(granted, g), Revokes(revoked, g), granted, revoked, A)
        /\ life' = life
    BY <1>10, UpdateApplicationsPlans
  <2> HIDE DEF granted, revoked
  <2> QED BY <2>1, InWrites, PlannedMembership DEF Ops
<1>11. ASSUME NEW g \in Groups, NEW a \in Applications, NEW P \in SUBSET Permissions,
              UpdatePermissions(g, a, P)
       PROVE  MembershipInv'
  <2> DEFINE added == P \ groupPerms[g]
             removed == {p \in groupPerms[g] \ P : Live(p) /\ AppOf[p] = a}
             kept == groupApps[g]
  <2>1. /\ req'.op = "grants"
        /\ Planned(g, Grants(added, g), Revokes(removed, g), added, removed, kept)
        /\ life' = life
    BY <1>11, UpdatePermissionsPlans
  <2> HIDE DEF added, removed, kept
  <2> QED BY <2>1, InWrites, PlannedMembership DEF Ops
<1>12. ASSUME NEW p \in Permissions, DeletePermission(p) PROVE MembershipInv'
  <2>1. /\ req'.op = "delete" /\ Planned(p, Drops(permGroups[p], p), {}, {}, {}, {})
        /\ life' = life
    BY <1>12, DeletePermissionPlans
  <2>2. DeletePlan'
    BY <1>0, <2>1 DEF DeletePlan, Planned
  <2> QED BY <2>1, <2>2, InWrites, PlannedMembership DEF Ops
<1>13. ASSUME NEW a \in Applications, DeleteApplication(a) PROVE MembershipInv'
  <2> DEFINE mine == {p \in LiveOnes(Permissions) : AppOf[p] = a}
             named == UNION {permGroups[p] : p \in mine}
  <2>1. /\ req'.op = "delete" /\ Planned(a, Deletes(mine, a), Unassigns(named, a), {}, mine, {})
        /\ life' = life
    BY <1>13, DeleteApplicationPlans
  <2> HIDE DEF mine, named
  <2>2. DeletePlan'
    BY <1>0, <2>1 DEF DeletePlan, Planned
  <2> QED BY <2>1, <2>2, InWrites, PlannedMembership DEF Ops
<1> QED BY <1>1, <1>2, <1>3, <1>4, <1>5, <1>6, <1>7, <1>8, <1>9, <1>10, <1>11, <1>12, <1>13
           DEF Handle

-----------------------------------------------------------------------------
(* Memberships: the loops and the last write *)

\* What a write leaves of a request.
LEMMA WriteLeaves ==
  ASSUME TypeOK, FormInv, NEW w, Pending(w), Did(w)
  PROVE  /\ req # Idle /\ req' # Idle /\ w \in Write /\ w \in ToWrite /\ Form
         /\ w.ref = req.doc /\ ToWrite' = ToWrite \ {w}
         /\ req'.op = req.op /\ req'.doc = req.doc
         /\ req'.first = req.first \ {w} /\ req'.then = req.then \ {w}
         /\ req'.gain = req.gain /\ req'.lose = req.lose /\ req'.apps = req.apps
         /\ \A u : Unlisting(u)' = Unlisting(u) /\ (Unlisting(u) = w => w.on = u /\ w.kind = "unlist")
         /\ \A g : Joining(g)' = Joining(g) /\ (Joining(g) = w => w.on = g /\ w.kind = "join")
<1>1. /\ req # Idle /\ req \in Request /\ w \in ToWrite /\ w \in Write /\ Form
  BY PendingIs DEF TypeOK, FormInv
<1>2. /\ req' # Idle /\ req'.op = req.op /\ req'.doc = req.doc
      /\ req'.first = req.first \ {w} /\ req'.then = req.then \ {w}
      /\ req'.gain = req.gain /\ req'.lose = req.lose /\ req'.apps = req.apps
  BY <1>1, Went
<1>3. ToWrite' = ToWrite \ {w} /\ w.ref = req.doc
  BY <1>1, <1>2 DEF ToWrite, Form
<1>4. /\ \A u : Unlisting(u)' = Unlisting(u) /\ (Unlisting(u) = w => w.on = u /\ w.kind = "unlist")
      /\ \A g : Joining(g)' = Joining(g) /\ (Joining(g) = w => w.on = g /\ w.kind = "join")
  BY <1>2 DEF Unlisting, Joining
<1> QED BY <1>1, <1>2, <1>3, <1>4

LEMMA WriteMemberMembership ==
  ASSUME TypeOK, FormInv, MembershipInv, NEW w, WriteMember(w)
  PROVE  MembershipInv'
<1>1. /\ Pending(w) /\ Did(w) /\ w.kind \in {"join", "leave"}
      /\ UNCHANGED <<life, userGroups, torn>>
      /\ groupUsers' = [groupUsers EXCEPT ![w.on] =
           IF w.kind = "join" THEN @ \cup {w.ref} ELSE @ \ {w.ref}]
  BY DEF WriteMember
<1>2. /\ req # Idle /\ req' # Idle /\ w \in Write /\ w \in ToWrite /\ Form
      /\ w.ref = req.doc /\ ToWrite' = ToWrite \ {w}
      /\ req'.op = req.op /\ req'.doc = req.doc
      /\ req'.gain = req.gain /\ req'.lose = req.lose
      /\ \A g : Joining(g)' = Joining(g) /\ (Joining(g) = w => w.on = g /\ w.kind = "join")
  BY <1>1, WriteLeaves
<1>3. w.on \in Groups /\ req.doc \in Users /\ req.doc \notin Groups /\ req.op # "grants"
      /\ req.op # "members"
  BY <1>1, <1>2, WriteKinds, ConstantsAssumption DEF Form
<1>4. Moving' = Moving /\ req.doc \in Moving
  BY <1>1, <1>2, <1>3 DEF Moving
<1>5. \A g \in Groups : \A u : u # req.doc => (u \in groupUsers[g] <=> u \in groupUsers'[g])
  BY <1>1, <1>2, <1>3 DEF TypeOK
<1>6. \A u \in LiveOnes(Users)' \ Moving' : \A g \in userGroups'[u] \ Moving' :
        Live(g)' /\ u \in groupUsers'[g]
  BY <1>1, <1>4, <1>5 DEF MembershipInv, Live, LiveOnes, TypeOK
<1>7. req.op = "groups" => GroupsPlan'
  <2> SUFFICES ASSUME req.op = "groups" PROVE GroupsPlan'
    OBVIOUS
  <2>1. \A x \in ToWrite' : /\ x.kind = "join" /\ x.on \in Immutable => <<req.doc, x.on>> \in OfType
                            /\ x.kind = "leave" => x.on \in req.lose
    BY <1>2 DEF MembershipInv, GroupsPlan
  <2>2. ASSUME req.doc \notin torn, NEW g \in ((userGroups[req.doc] \cup req.gain) \ req.lose) \ torn
        PROVE  Live(g) /\ (req.doc \in groupUsers'[g] \/ Joining(g) \in ToWrite')
    <3>1. Live(g) /\ (req.doc \in groupUsers[g] \/ Joining(g) \in ToWrite) /\ g \in Groups
      BY <1>2, <1>3, <2>2 DEF MembershipInv, GroupsPlan, Form, TypeOK
    <3>2. CASE g = w.on
      <4>1. w.kind = "join"
        BY <1>1, <1>2, <2>2, <3>2 DEF MembershipInv, GroupsPlan
      <4> QED BY <1>1, <1>2, <1>3, <3>1, <3>2, <4>1 DEF TypeOK
    <3>3. CASE g # w.on
      BY <1>1, <1>2, <1>3, <3>1, <3>3 DEF TypeOK
    <3> QED BY <3>1, <3>2, <3>3
  <2> QED BY <1>1, <1>2, <2>1, <2>2 DEF GroupsPlan, Live
<1>8. DeletePlan'
  BY <1>2, <1>3 DEF DeletePlan
<1>9. ImmutableHoldsItsType'
  <2>1. w.kind = "join" /\ w.on \in Immutable => <<req.doc, w.on>> \in OfType
    BY <1>2 DEF MembershipInv, GroupsPlan
  <2>2. Immutable \subseteq Groups
    BY ConstantsAssumption
  <2> QED BY <1>1, <1>2, <1>3, <2>1, <2>2 DEF MembershipInv, ImmutableHoldsItsType, TypeOK
<1> QED BY <1>1, <1>2, <1>3, <1>6, <1>7, <1>8, <1>9 DEF MembershipInv

LEMMA WriteUserMembership ==
  ASSUME TypeOK, FormInv, MembershipInv, NEW w, WriteUser(w)
  PROVE  MembershipInv'
<1>1. /\ Pending(w) /\ Did(w) /\ w.kind \in {"list", "unlist"}
      /\ UNCHANGED <<life, groupUsers, torn>>
      /\ userGroups' = [userGroups EXCEPT ![w.on] =
           IF w.kind = "list" THEN @ \cup {w.ref} ELSE @ \ {w.ref}]
  BY DEF WriteUser
<1>2. /\ req # Idle /\ req' # Idle /\ w \in Write /\ w \in ToWrite /\ Form
      /\ w.ref = req.doc /\ ToWrite' = ToWrite \ {w}
      /\ req'.op = req.op /\ req'.doc = req.doc
      /\ req'.gain = req.gain /\ req'.lose = req.lose
      /\ \A u : Unlisting(u)' = Unlisting(u) /\ (Unlisting(u) = w => w.on = u /\ w.kind = "unlist")
  BY <1>1, WriteLeaves
<1>3. w.on \in Users /\ req.doc \in Groups /\ req.doc \notin Users /\ req.op # "grants"
      /\ req.op # "groups"
  BY <1>1, <1>2, WriteKinds, ConstantsAssumption DEF Form, MembershipInv
<1>4. Moving' = Moving /\ req.doc \in Moving
  BY <1>1, <1>2, <1>3 DEF Moving
<1>5. \A u \in Users : \A g : g # req.doc => (g \in userGroups[u] <=> g \in userGroups'[u])
  BY <1>1, <1>2, <1>3 DEF TypeOK
<1>6. \A u \in LiveOnes(Users)' \ Moving' : \A g \in userGroups'[u] \ Moving' :
        Live(g)' /\ u \in groupUsers'[g]
  BY <1>1, <1>4, <1>5 DEF MembershipInv, Live, LiveOnes
<1>7. w.kind = "list" => req.op = "members" /\ w.on \in req.gain \ req.lose /\ Live(w.on)
  BY <1>2 DEF MembershipInv, MembersPlan
<1>8. req.op = "members" => MembersPlan'
  <2> SUFFICES ASSUME req.op = "members" PROVE MembersPlan'
    OBVIOUS
  <2>1. MembersPlan
    BY <1>2 DEF MembershipInv
  <2>2. ASSUME req.doc \notin torn, NEW u \in LiveOnes(Users) \ torn, req.doc \in userGroups'[u]
        PROVE  \/ u \in (groupUsers[req.doc] \cup req.gain) \ req.lose
               \/ Unlisting(u) \in ToWrite'
    <3>1. CASE u = w.on
      BY <1>1, <1>2, <1>3, <1>7, <2>2, <3>1 DEF TypeOK
    <3>2. CASE u # w.on
      BY <1>1, <1>2, <1>3, <2>1, <2>2, <3>2 DEF TypeOK, MembersPlan
    <3> QED BY <3>1, <3>2
  <2> QED BY <1>1, <1>2, <2>1, <2>2 DEF MembersPlan, Live, LiveOnes
<1>9. req.op = "delete" => DeletePlan'
  <2> SUFFICES ASSUME req.op = "delete" PROVE DeletePlan'
    OBVIOUS
  <2>1. DeletePlan /\ w.kind = "unlist"
    BY <1>1, <1>2, <1>7 DEF MembershipInv
  <2>2. ASSUME req.doc \notin torn, NEW u \in LiveOnes(Users) \ torn, req.doc \in userGroups'[u]
        PROVE  Unlisting(u) \in ToWrite'
    BY <1>1, <1>2, <1>3, <2>1, <2>2 DEF TypeOK, DeletePlan, LiveOnes
  <2> QED BY <1>1, <1>2, <2>2 DEF DeletePlan, Live, LiveOnes
<1>10. \A u \in Users : life'[u] = "new" => userGroups'[u] = {}
  BY <1>1, <1>3, <1>7 DEF MembershipInv, TypeOK, Live
<1>11. ImmutableHoldsItsType'
  BY <1>1 DEF MembershipInv, ImmutableHoldsItsType
<1> QED BY <1>1, <1>2, <1>3, <1>6, <1>8, <1>9, <1>10, <1>11 DEF MembershipInv

LEMMA OtherWriteMembership ==
  ASSUME TypeOK, FormInv, MembershipInv, NEW w,
         WritePermission(w) \/ DropPermission(w) \/ RemovePermission(w) \/ Unassign(w)
  PROVE  MembershipInv'
<1>1. /\ Pending(w) /\ Did(w)
      /\ w.kind \in {"grant", "revoke", "drop", "delete", "unassign"}
      /\ UNCHANGED <<userGroups, groupUsers, torn>>
      /\ life' = life \/ (w.kind = "delete" /\ life' = [life EXCEPT ![w.on] = "gone"])
  BY DEF WritePermission, DropPermission, RemovePermission, Unassign
<1>2. /\ req # Idle /\ req' # Idle /\ w \in Write /\ w \in ToWrite /\ Form
      /\ w.ref = req.doc /\ ToWrite' = ToWrite \ {w}
      /\ req'.op = req.op /\ req'.doc = req.doc
      /\ req'.gain = req.gain /\ req'.lose = req.lose
      /\ \A u : Unlisting(u)' = Unlisting(u) /\ (Unlisting(u) = w => w.on = u /\ w.kind = "unlist")
      /\ \A g : Joining(g)' = Joining(g) /\ (Joining(g) = w => w.on = g /\ w.kind = "join")
  BY <1>1, WriteLeaves
<1>3. \A d \in Users \cup Groups : life'[d] = life[d]
  BY <1>1, <1>2, WriteKinds, ConstantsAssumption DEF TypeOK, Documents
<1>4. Moving' = Moving
  BY <1>1, <1>2 DEF Moving
<1>5. \A u \in LiveOnes(Users)' \ Moving' : \A g \in userGroups'[u] \ Moving' :
        Live(g)' /\ u \in groupUsers'[g]
  BY <1>1, <1>3, <1>4 DEF MembershipInv, Live, LiveOnes, TypeOK
<1>6. req.op = "members" => MembersPlan'
  <2> SUFFICES ASSUME req.op = "members", MembersPlan PROVE MembersPlan'
    BY <1>2 DEF MembershipInv
  <2>1. \A x \in ToWrite' : x.kind = "list" => Live(x.on)'
    BY <1>2, <1>3 DEF MembersPlan, Live, Form
  <2>2. \A u \in LiveOnes(Users)' : u \in LiveOnes(Users)
    BY <1>3 DEF Live, LiveOnes
  <2>3. \A u : Unlisting(u) \in ToWrite => Unlisting(u)' \in ToWrite'
    BY <1>1, <1>2
  <2> QED BY <1>1, <1>2, <2>1, <2>2, <2>3 DEF MembersPlan
<1>7. req.op = "groups" => GroupsPlan'
  <2> SUFFICES ASSUME req.op = "groups", GroupsPlan PROVE GroupsPlan'
    BY <1>2 DEF MembershipInv
  <2>1. \A g \in userGroups[req.doc] \cup req.gain : Live(g) => Live(g)'
    BY <1>2, <1>3 DEF Live, Form, TypeOK
  <2>2. \A g : Joining(g) \in ToWrite => Joining(g)' \in ToWrite'
    BY <1>1, <1>2
  <2> QED BY <1>1, <1>2, <2>1, <2>2 DEF GroupsPlan
<1>8. req.op = "delete" => DeletePlan'
  <2> SUFFICES ASSUME req.op = "delete", DeletePlan PROVE DeletePlan'
    BY <1>2 DEF MembershipInv
  <2>1. \A u \in LiveOnes(Users)' : u \in LiveOnes(Users)
    BY <1>3 DEF Live, LiveOnes
  <2>2. \A u : Unlisting(u) \in ToWrite => Unlisting(u)' \in ToWrite'
    BY <1>1, <1>2
  <2> QED BY <1>1, <1>2, <2>1, <2>2 DEF DeletePlan
<1>9. \A u \in Users : life'[u] = "new" => userGroups'[u] = {}
  BY <1>1, <1>3 DEF MembershipInv
<1>10. ImmutableHoldsItsType'
  BY <1>1 DEF MembershipInv, ImmutableHoldsItsType
<1> QED BY <1>1, <1>2, <1>5, <1>6, <1>7, <1>8, <1>9, <1>10 DEF MembershipInv

LEMMA SaveMembership ==
  ASSUME TypeOK, FormInv, MembershipInv, Save \/ CutShort
  PROVE  MembershipInv'
<1>1. req # Idle /\ req' = Idle /\ Form /\ req.doc \in Documents
  BY DEF Save, SaveMembers, SaveGroups, SaveStatus, SaveGrants, Remove, LastWrite, CutShort,
         FormInv, TypeOK, Request
<1>2. Moving' = torn'
  BY <1>1 DEF Moving
<1>3. ASSUME Save PROVE ToWrite = {} /\ UNCHANGED torn
  BY <1>3 DEF Save, SaveMembers, SaveGroups, SaveStatus, SaveGrants, Remove, LastWrite, ToWrite
<1>4. SUFFICES /\ \A u \in LiveOnes(Users)' \ torn' : \A g \in userGroups'[u] \ torn' :
                    Live(g)' /\ u \in groupUsers'[g]
               /\ ImmutableHoldsItsType'
               /\ \A u \in Users : life'[u] = "new" => userGroups'[u] = {}
  BY <1>1, <1>2 DEF MembershipInv
<1>5. Immutable \subseteq Groups /\ \A u \in Users : u \notin Groups
  BY ConstantsAssumption
<1>6. CASE SaveMembers
  <2>1. /\ UNCHANGED <<life, userGroups>> /\ req.doc \in Groups /\ MembersPlan /\ ToWrite = {}
        /\ groupUsers' = [groupUsers EXCEPT ![req.doc] = (@ \cup req.gain) \ req.lose]
        /\ Moving = torn \cup {req.doc} /\ UNCHANGED torn
    BY <1>1, <1>3, <1>6 DEF Save, SaveMembers, LastWrite, Form, MembershipInv, Moving
  <2>2. ASSUME NEW u \in LiveOnes(Users) \ torn, NEW g \in userGroups[u] \ torn
        PROVE  Live(g) /\ u \in groupUsers'[g]
    <3>1. g \in Groups /\ u # req.doc /\ u \in Users
      BY <1>5, <2>1 DEF TypeOK, LiveOnes
    <3>2. CASE g = req.doc
      BY <1>1, <2>1, <2>2, <3>2 DEF MembersPlan, TypeOK, Form
    <3>3. CASE g # req.doc
      BY <2>1, <2>2, <3>1, <3>3 DEF MembershipInv, TypeOK
    <3> QED BY <3>2, <3>3
  <2>3. ImmutableHoldsItsType'
    BY <1>5, <2>1 DEF MembershipInv, ImmutableHoldsItsType, MembersPlan, TypeOK
  <2> QED BY <2>1, <2>2, <2>3 DEF MembershipInv, Live, LiveOnes
<1>7. CASE SaveGroups
  <2>1. /\ UNCHANGED <<life, groupUsers>> /\ req.doc \in Users /\ GroupsPlan /\ ToWrite = {}
        /\ userGroups' = [userGroups EXCEPT ![req.doc] = (@ \cup req.gain) \ req.lose]
        /\ Moving = torn \cup {req.doc} /\ UNCHANGED torn
    BY <1>1, <1>3, <1>7 DEF Save, SaveGroups, LastWrite, Form, MembershipInv, Moving
  <2>2. ASSUME NEW u \in LiveOnes(Users) \ torn, NEW g \in userGroups'[u] \ torn
        PROVE  Live(g) /\ u \in groupUsers[g]
    <3>1. u \in Users
      BY DEF LiveOnes
    <3>2. CASE u = req.doc
      BY <2>1, <2>2, <3>2 DEF GroupsPlan, TypeOK
    <3>3. CASE u # req.doc
      <4>1. g \in userGroups[u] /\ g # req.doc
        BY <1>5, <2>1, <2>2, <3>1, <3>3 DEF TypeOK
      <4> QED BY <2>1, <2>2, <3>3, <4>1 DEF MembershipInv
    <3> QED BY <3>2, <3>3
  <2>3. \A u \in Users : life[u] = "new" => userGroups'[u] = {}
    BY <1>1, <2>1 DEF MembershipInv, Form, Live, TypeOK
  <2> QED BY <2>1, <2>2, <2>3 DEF MembershipInv, Live, LiveOnes, ImmutableHoldsItsType
<1>8. CASE SaveStatus
  <2>1. /\ UNCHANGED <<life, groupUsers>> /\ req.doc \in Users
        /\ userGroups' = [userGroups EXCEPT ![req.doc] = {}]
        /\ Moving = torn \cup {req.doc} /\ UNCHANGED torn
    BY <1>1, <1>8 DEF SaveStatus, LastWrite, Form, Moving
  <2>2. ASSUME NEW u \in LiveOnes(Users) \ torn, NEW g \in userGroups'[u] \ torn
        PROVE  Live(g) /\ u \in groupUsers[g]
    <3>1. u # req.doc /\ g \in userGroups[u] /\ g # req.doc
      BY <1>5, <2>1, <2>2 DEF TypeOK, LiveOnes
    <3> QED BY <2>1, <2>2, <3>1 DEF MembershipInv
  <2>3. \A u \in Users : life[u] = "new" => userGroups'[u] = {}
    BY <2>1 DEF MembershipInv, TypeOK
  <2> QED BY <2>1, <2>2, <2>3 DEF MembershipInv, Live, LiveOnes, ImmutableHoldsItsType
<1>9. CASE SaveGrants
  <2>1. UNCHANGED <<life, userGroups, groupUsers, torn>> /\ Moving = torn
    BY <1>9 DEF SaveGrants, LastWrite, Moving
  <2> QED BY <2>1 DEF MembershipInv, Live, LiveOnes, ImmutableHoldsItsType
<1>10. CASE Remove
  <2>1. /\ life' = [life EXCEPT ![req.doc] = "gone"] /\ UNCHANGED <<userGroups, torn>>
        /\ groupUsers' = Emptied(groupUsers, req.doc) /\ Moving = torn \cup {req.doc}
        /\ DeletePlan /\ ToWrite = {}
    BY <1>1, <1>3, <1>10 DEF Save, Remove, LastWrite, MembershipInv, Moving
  <2>2. ASSUME NEW u \in LiveOnes(Users)' \ torn, NEW g \in userGroups[u] \ torn
        PROVE  Live(g)' /\ u \in groupUsers'[g]
    <3>1. u \in Users /\ u # req.doc /\ Live(u) /\ u \in Documents
      BY <1>1, <2>1 DEF LiveOnes, Live, TypeOK, Documents
    <3>2. g \in Groups /\ g \in Documents
      BY <3>1 DEF TypeOK, Documents
    <3>3. g # req.doc
      BY <2>1, <2>2, <3>1, <3>2 DEF DeletePlan, LiveOnes
    <3>4. Live(g) /\ u \in groupUsers[g]
      BY <2>1, <2>2, <3>1, <3>3 DEF MembershipInv, LiveOnes
    <3> QED BY <2>1, <3>2, <3>3, <3>4 DEF Live, Emptied, TypeOK
  <2>3. ImmutableHoldsItsType'
    BY <1>5, <2>1 DEF MembershipInv, ImmutableHoldsItsType, Emptied, TypeOK
  <2>4. \A u \in Users : life'[u] = "new" => userGroups[u] = {}
    BY <1>1, <2>1 DEF MembershipInv, TypeOK, Documents
  <2> QED BY <2>1, <2>2, <2>3, <2>4
<1>11. CASE CutShort
  <2>1. UNCHANGED <<life, userGroups, groupUsers>> /\ torn' = torn \cup {req.doc}
        /\ Moving \subseteq torn'
    BY <1>1, <1>11 DEF CutShort, lists, Moving
  <2> QED BY <2>1 DEF MembershipInv, Live, LiveOnes, ImmutableHoldsItsType
<1> QED BY <1>6, <1>7, <1>8, <1>9, <1>10, <1>11 DEF Save

LEMMA NextMembership == TypeOK /\ FormInv /\ MembershipInv /\ [Next]_vars => MembershipInv'
<1> SUFFICES ASSUME TypeOK, FormInv, MembershipInv, [Next]_vars PROVE MembershipInv'
  OBVIOUS
<1>1. CASE UNCHANGED vars
  BY <1>1 DEF vars, lists, MembershipInv, Moving, Live, LiveOnes, ImmutableHoldsItsType,
              ToWrite, MembersPlan, GroupsPlan, DeletePlan, Unlisting, Joining
<1>2. CASE Loop
  BY <1>2, WriteMemberMembership, WriteUserMembership, OtherWriteMembership DEF Loop
<1> QED BY <1>1, <1>2, HandleMembership, SaveMembership DEF Next

LEMMA MembershipInvariance == Spec => [](TypeOK /\ FormInv /\ MembershipInv)
<1>1. Init => MembershipInv
  BY ConstantsAssumption DEF Init, MembershipInv, ImmutableHoldsItsType, LiveOnes
<1> QED BY <1>1, InitTypes, NextTypes, NextMembership, PTL DEF Spec

\* Whatever fails and at every moment, a group flagged immutable lists only
\* users of its type, though three handlers add users to it.
THEOREM ImmutableSound == Spec => []ImmutableHoldsItsType
<1>1. MembershipInv => ImmutableHoldsItsType
  BY DEF MembershipInv
<1> QED BY <1>1, MembershipInvariance, PTL

\* Between requests a user's groups exist and list the user, for any number of
\* users, groups and requests cut short.
THEOREM MembersSound == Spec => []ListedAreMembers
<1>1. MembershipInv => ListedAreMembers
  BY DEF MembershipInv, ListedAreMembers, Settled, Moving
<1> QED BY <1>1, MembershipInvariance, PTL

-----------------------------------------------------------------------------
(* Grants are kept *)

LEMMA PlannedGrants ==
  ASSUME TypeOK, GrantInv,
         NEW d, NEW first, NEW then, NEW gain, NEW lose, NEW apps,
         Planned(d, first, then, gain, lose, apps),
         \A x \in Groups \cup Permissions : life'[x] = life[x],
         \A w \in first \cup then :
           /\ w.kind = "grant" => req'.op = "grants"
           /\ w.kind = "revoke" => req'.op \in {"grants", "delete"},
         req'.op = "grants" => GrantsPlan',
         req'.op = "delete" => DeletePermissionPlan' /\ DeleteApplicationPlan'
  PROVE  GrantInv'
<1>1. /\ req = Idle /\ req' # Idle /\ ToWrite' = first \cup then
      /\ UNCHANGED <<groupPerms, groupApps, permGroups, torn>>
  BY DEF Planned, ToWrite, lists
<1>2. Regranting \subseteq Regranting'
  BY <1>1 DEF Regranting
<1>3. \A p : Whole(p, Regranting)' => Whole(p, Regranting)
  BY <1>2 DEF Whole
<1>4. \A g \in LiveOnes(Groups)' \ Regranting' : \A p \in Permissions :
        Whole(p, Regranting)' =>
          /\ p \in groupPerms'[g] <=> Live(p)' /\ g \in permGroups'[p]
          /\ p \in groupPerms'[g] => AppOf[p] \in groupApps'[g]
  BY <1>1, <1>2, <1>3 DEF GrantInv, LiveOnes, Live
<1>5. \A g \in Groups, p \in Permissions :
        life'[g] = "new" \/ life'[p] = "new" => p \notin groupPerms'[g] /\ g \notin permGroups'[p]
  BY <1>1 DEF GrantInv
<1> QED BY <1>1, <1>4, <1>5 DEF GrantInv

\* Nothing is planned for a permission or an application.
LEMMA NoDeletePlan ==
  ASSUME NEW d \in Users \cup Groups, req'.doc = d, \A w \in ToWrite' : w.kind # "delete"
  PROVE  DeletePermissionPlan' /\ DeleteApplicationPlan'
BY ConstantsAssumption DEF DeletePermissionPlan, DeleteApplicationPlan

LEMMA CreateGrants ==
  ASSUME TypeOK, GrantInv, NEW d \in Documents \ Users, Create(d)
  PROVE  GrantInv'
<1>1. /\ req = Idle /\ life[d] = "new" /\ life' = [life EXCEPT ![d] = "live"]
      /\ UNCHANGED <<groupPerms, groupApps, permGroups, torn, req>>
      /\ Groups \subseteq Documents /\ Permissions \subseteq Documents
  BY DEF Create, lists, Documents
<1>2. Regranting = torn /\ Regranting' = torn
  BY <1>1 DEF Regranting
<1>3. ASSUME NEW g \in LiveOnes(Groups)' \ torn, NEW p \in Permissions, Whole(p, torn)
      PROVE  /\ p \in groupPerms[g] <=> Live(p)' /\ g \in permGroups[p]
             /\ p \in groupPerms[g] => AppOf[p] \in groupApps[g]
  <2>1. g \in Groups /\ (g = d \/ Live(g)) /\ (Live(p)' <=> p = d \/ Live(p))
    BY <1>1 DEF LiveOnes, Live, TypeOK
  <2>2. CASE g = d \/ p = d
    BY <1>1, <2>1, <2>2 DEF GrantInv
  <2>3. CASE g # d /\ p # d
    BY <1>2, <1>3, <2>1, <2>3 DEF GrantInv, LiveOnes
  <2> QED BY <2>2, <2>3
<1>4. \A g \in Groups, p \in Permissions :
        life'[g] = "new" \/ life'[p] = "new" => p \notin groupPerms[g] /\ g \notin permGroups[p]
  BY <1>1 DEF GrantInv, TypeOK
<1> QED BY <1>1, <1>2, <1>3, <1>4 DEF GrantInv, Whole

LEMMA GrantsOf ==
  ASSUME NEW S, NEW d, NEW p
  PROVE  /\ [kind |-> "grant", on |-> p, ref |-> d] \in Grants(S, d) <=> p \in S
         /\ [kind |-> "revoke", on |-> p, ref |-> d] \in Revokes(S, d) <=> p \in S
BY DEF Grants, Revokes, Writes

LEMMA UpdateApplicationsGrants ==
  ASSUME TypeOK, GrantInv, NEW g \in Groups, NEW A \in SUBSET Applications,
         NEW action \in Actions, UpdateApplications(g, A, action)
  PROVE  GrantInv'
<1> DEFINE granted == ToGrant(A \ groupApps[g], action)
           revoked == ToRevoke(groupApps[g] \ A, g)
<1>1. /\ req'.op = "grants"
      /\ Planned(g, Grants(granted, g), Revokes(revoked, g), granted, revoked, A)
      /\ life' = life /\ Live(g)
  BY UpdateApplicationsPlans DEF UpdateApplications
<1>2. /\ \A p \in granted : p \in Permissions /\ Live(p) /\ AppOf[p] \in A \ groupApps[g]
      /\ \A p : p \in revoked <=> /\ p \in Permissions /\ Live(p)
                                  /\ AppOf[p] \in groupApps[g] \ A /\ g \in permGroups[p]
  BY DEF ToGrant, ToRevoke, LiveOnes
<1> HIDE DEF granted, revoked
<1>3. /\ req'.doc = g /\ req'.first = Grants(granted, g) /\ req'.then = Revokes(revoked, g)
      /\ req'.gain = granted /\ req'.lose = revoked /\ req'.apps = A /\ req = Idle
      /\ ToWrite' = Grants(granted, g) \cup Revokes(revoked, g)
      /\ UNCHANGED <<groupPerms, groupApps, permGroups, torn>>
  BY <1>1 DEF Planned, ToWrite, lists
<1>4. /\ \A p : Granting(p)' \in req'.first <=> p \in granted
      /\ \A p : Revoking(p)' \in req'.then <=> p \in revoked
  <2>1. \A p : /\ Granting(p)' = [kind |-> "grant", on |-> p, ref |-> g]
               /\ Revoking(p)' = [kind |-> "revoke", on |-> p, ref |-> g]
    BY <1>3 DEF Granting, Revoking
  <2>2. \A p : /\ [kind |-> "grant", on |-> p, ref |-> g] \in Grants(granted, g) <=> p \in granted
               /\ [kind |-> "revoke", on |-> p, ref |-> g] \in Revokes(revoked, g) <=> p \in revoked
    BY GrantsOf
  <2> QED BY <1>3, <2>1, <2>2
<1>5. /\ \A w \in req'.first : w.kind = "grant" /\ w.on \in granted
      /\ \A w \in req'.then : w.kind = "revoke"
  BY <1>3, InWrites
<1>6. ASSUME g \notin torn, NEW p \in Permissions, Whole(p, torn)
      PROVE  /\ p \in groupPerms[g] <=> Live(p) /\ g \in permGroups[p]
             /\ p \in groupPerms[g] => AppOf[p] \in groupApps[g]
  BY <1>1, <1>3, <1>6 DEF GrantInv, Regranting, LiveOnes
<1>7. ASSUME g \notin torn, NEW p \in Permissions, Whole(p, torn)
      PROVE  /\ p \in (groupPerms[g] \cup granted) \ revoked
                  <=> Live(p) /\ ((g \in permGroups[p] /\ p \notin revoked) \/ p \in granted)
             /\ p \in (groupPerms[g] \cup granted) \ revoked => AppOf[p] \in A
  BY <1>2, <1>6, <1>7
<1>8. GrantsPlan'
  BY <1>1, <1>2, <1>3, <1>4, <1>5, <1>7 DEF GrantsPlan, Whole, Live
<1> QED BY <1>1, <1>8, InWrites, PlannedGrants

LEMMA UpdatePermissionsGrants ==
  ASSUME TypeOK, GrantInv, NEW g \in Groups, NEW a \in Applications,
         NEW P \in SUBSET Permissions, UpdatePermissions(g, a, P)
  PROVE  GrantInv'
<1> DEFINE added == P \ groupPerms[g]
           removed == {p \in groupPerms[g] \ P : Live(p) /\ AppOf[p] = a}
           apps == groupApps[g]
<1>1. /\ req'.op = "grants"
      /\ Planned(g, Grants(added, g), Revokes(removed, g), added, removed, apps)
      /\ life' = life /\ Live(g)
  BY UpdatePermissionsPlans DEF UpdatePermissions
<1>2. /\ \A p \in added : p \in Permissions /\ Live(p) /\ AppOf[p] \in apps
      /\ \A p \in removed : p \in groupPerms[g] /\ p \notin added
  BY DEF UpdatePermissions
<1> HIDE DEF added, removed
<1>3. /\ req'.doc = g /\ req'.first = Grants(added, g) /\ req'.then = Revokes(removed, g)
      /\ req'.gain = added /\ req'.lose = removed /\ req'.apps = apps /\ req = Idle
      /\ ToWrite' = Grants(added, g) \cup Revokes(removed, g)
      /\ UNCHANGED <<groupPerms, groupApps, permGroups, torn>>
  BY <1>1 DEF Planned, ToWrite, lists
<1>4. /\ \A p : Granting(p)' \in req'.first <=> p \in added
      /\ \A p : Revoking(p)' \in req'.then <=> p \in removed
  <2>1. \A p : /\ Granting(p)' = [kind |-> "grant", on |-> p, ref |-> g]
               /\ Revoking(p)' = [kind |-> "revoke", on |-> p, ref |-> g]
    BY <1>3 DEF Granting, Revoking
  <2>2. \A p : /\ [kind |-> "grant", on |-> p, ref |-> g] \in Grants(added, g) <=> p \in added
               /\ [kind |-> "revoke", on |-> p, ref |-> g] \in Revokes(removed, g) <=> p \in removed
    BY GrantsOf
  <2> QED BY <1>3, <2>1, <2>2
<1>5. /\ \A w \in req'.first : w.kind = "grant" /\ w.on \in added
      /\ \A w \in req'.then : w.kind = "revoke"
  BY <1>3, InWrites
<1>6. ASSUME g \notin torn, NEW p \in Permissions, Whole(p, torn)
      PROVE  /\ p \in groupPerms[g] <=> Live(p) /\ g \in permGroups[p]
             /\ p \in groupPerms[g] => AppOf[p] \in groupApps[g]
  BY <1>1, <1>3, <1>6 DEF GrantInv, Regranting, LiveOnes
<1>7. ASSUME g \notin torn, NEW p \in Permissions, Whole(p, torn)
      PROVE  /\ p \in (groupPerms[g] \cup added) \ removed
                  <=> Live(p) /\ ((g \in permGroups[p] /\ p \notin removed) \/ p \in added)
             /\ p \in (groupPerms[g] \cup added) \ removed => AppOf[p] \in apps
  BY <1>2, <1>6, <1>7
<1> HIDE DEF apps
<1>8. GrantsPlan'
  BY <1>1, <1>2, <1>3, <1>4, <1>5, <1>7 DEF GrantsPlan, Whole, Live
<1> QED BY <1>1, <1>8, InWrites, PlannedGrants

LEMMA DeletePermissionGrants ==
  ASSUME TypeOK, GrantInv, NEW p \in Permissions, DeletePermission(p)
  PROVE  GrantInv'
<1> DEFINE named == permGroups[p]
<1>1. /\ req'.op = "delete" /\ Planned(p, Drops(named, p), {}, {}, {}, {}) /\ life' = life
  BY DeletePermissionPlans
<1>2. /\ req'.doc = p /\ req = Idle /\ ToWrite' = Drops(named, p)
      /\ UNCHANGED <<groupPerms, groupApps, permGroups, torn>>
  BY <1>1 DEF Planned, ToWrite, lists
<1>3. /\ \A g \in named : Dropping(g)' \in ToWrite'
      /\ \A w \in ToWrite' : w.kind = "drop"
  <2>1. \A g \in named : Dropping(g)' \in ToWrite'
    BY <1>2, ForEach DEF Dropping
  <2>2. \A w \in ToWrite' : w.kind = "drop"
    BY <1>2, InWrites
  <2> QED BY <2>1, <2>2
<1>4. Whole(p, torn) => \A g \in LiveOnes(Groups) \ torn : p \in groupPerms[g] => g \in named
  BY <1>2 DEF GrantInv, Regranting
<1> HIDE DEF named
<1>5. DeletePermissionPlan'
  BY <1>1, <1>2, <1>3, <1>4 DEF DeletePermissionPlan, Whole, LiveOnes, Live
<1>6. DeleteApplicationPlan'
  BY <1>2, <1>3, ConstantsAssumption DEF DeleteApplicationPlan
<1> QED BY <1>1, <1>5, <1>6, InWrites, PlannedGrants

LEMMA DeleteApplicationGrants ==
  ASSUME TypeOK, GrantInv, NEW a \in Applications, DeleteApplication(a)
  PROVE  GrantInv'
<1> DEFINE mine == {p \in LiveOnes(Permissions) : AppOf[p] = a}
           named == UNION {permGroups[p] : p \in mine}
<1>1. /\ req'.op = "delete" /\ Planned(a, Deletes(mine, a), Unassigns(named, a), {}, mine, {})
      /\ life' = life
  BY DeleteApplicationPlans
<1>2. /\ \A p : p \in mine <=> p \in Permissions /\ Live(p) /\ AppOf[p] = a
      /\ \A p \in mine : permGroups[p] \subseteq named
  BY DEF LiveOnes
<1> HIDE DEF mine, named
<1>3. /\ req'.doc = a /\ req'.lose = mine /\ req = Idle
      /\ ToWrite' = Deletes(mine, a) \cup Unassigns(named, a)
      /\ UNCHANGED <<groupPerms, groupApps, permGroups, torn>>
  BY <1>1 DEF Planned, ToWrite, lists
<1>4. /\ \A p \in mine : Deleting(p)' \in ToWrite'
      /\ \A g \in named : Unassigning(g)' \in ToWrite'
  BY <1>3, ForEach DEF Deleting, Unassigning
<1>5. \A w \in ToWrite' : w.kind = "delete" => AppOf[w.on] = a
  BY <1>2, <1>3, InWrites
<1>6. ASSUME a \notin torn, NEW p \in Permissions \ torn, AppOf[p] = a,
             NEW g \in LiveOnes(Groups) \ torn, p \in groupPerms[g]
      PROVE  p \in mine /\ a \in groupApps[g] /\ g \in named
  <2>1. Live(p) /\ g \in permGroups[p] /\ AppOf[p] \in groupApps[g]
    BY <1>3, <1>6 DEF GrantInv, Regranting, Whole
  <2> QED BY <1>2, <1>6, <2>1
<1>7. DeleteApplicationPlan'
  <2>1. LiveOnes(Groups)' = LiveOnes(Groups) /\ \A p : Live(p)' <=> Live(p)
    BY <1>1 DEF LiveOnes, Live
  <2> QED BY <1>2, <1>3, <1>4, <1>5, <1>6, <2>1 DEF DeleteApplicationPlan
<1>8. DeletePermissionPlan'
  BY <1>3, ConstantsAssumption DEF DeletePermissionPlan
<1> QED BY <1>1, <1>7, <1>8, InWrites, PlannedGrants

LEMMA HandleGrants ==
  ASSUME TypeOK, GrantInv, Handle
  PROVE  GrantInv'
<1>0. \A u \in Users : u \notin Groups \cup Permissions
  BY ConstantsAssumption
<1>1. ASSUME NEW u \in Users, NEW G \in SUBSET Groups, NEW isActive \in BOOLEAN,
             CreateUser(u, G, isActive)
      PROVE  GrantInv'
  <2>1. /\ req'.op = "groups" /\ Planned(u, Joins(G, u), {}, G, {}, {})
        /\ life' = [life EXCEPT ![u] = "live"]
    BY <1>1, CreateUserPlans
  <2>2. \A x \in Groups \cup Permissions : life'[x] = life[x]
    BY <1>0, <2>1 DEF TypeOK, Documents
  <2> QED BY <2>1, <2>2, InWrites, PlannedGrants
<1>2. ASSUME NEW u \in Users, NEW G \in SUBSET Groups, UpdateUser(u, G) PROVE GrantInv'
  <2> DEFINE joined == G \ userGroups[u]
             left == userGroups[u] \ G
  <2>1. /\ req'.op = "groups" /\ Planned(u, Joins(joined, u), Leaves(left, u), joined, left, {})
        /\ life' = life
    BY <1>2, UpdateUserPlans
  <2> HIDE DEF joined, left
  <2> QED BY <2>1, InWrites, PlannedGrants
<1>3. ASSUME NEW u \in Users, UpdateInactiveUser(u) \/ Activate(u) PROVE GrantInv'
  <2>1. req = Idle /\ UNCHANGED <<life, groupPerms, groupApps, permGroups, torn, req>>
    BY <1>3 DEF UpdateInactiveUser, Activate, lists
  <2> QED BY <2>1 DEF GrantInv, Regranting, LiveOnes, Live, Whole
<1>4. ASSUME NEW u \in Users, Deactivate(u) PROVE GrantInv'
  BY <1>4, DeactivatePlans, InWrites, PlannedGrants
<1>5. ASSUME NEW u \in Users, DeleteUser(u) PROVE GrantInv'
  <2>1. /\ req'.op = "delete" /\ Planned(u, Leaves(userGroups[u], u), {}, {}, {}, {})
        /\ life' = life
    BY <1>5, DeleteUserPlans
  <2>2. req'.doc = u /\ \A w \in ToWrite' : w.kind # "delete"
    BY <2>1, InWrites DEF Planned, ToWrite
  <2> QED BY <2>1, <2>2, InWrites, NoDeletePlan, PlannedGrants
<1>6. ASSUME NEW g \in Groups, NEW U \in SUBSET Users, AddUsers(g, U) PROVE GrantInv'
  BY <1>6, AddUsersPlans, InWrites, PlannedGrants
<1>7. ASSUME NEW g \in Groups, NEW u \in Users, RemoveUser(g, u) PROVE GrantInv'
  <2> DEFINE one == {u}
  <2>1. req'.op = "members" /\ Planned(g, Unlists(one, g), {}, {}, one, {}) /\ life' = life
    BY <1>7, RemoveUserPlans
  <2> HIDE DEF one
  <2> QED BY <2>1, InWrites, PlannedGrants
<1>8. ASSUME NEW g \in Groups, DeleteGroup(g) PROVE GrantInv'
  <2> DEFINE members == groupUsers[g]
             perms == groupPerms[g]
  <2>1. /\ req'.op = "delete" /\ Planned(g, Unlists(members, g), Revokes(perms, g), {}, {}, {})
        /\ life' = life
    BY <1>8, DeleteGroupPlans
  <2> HIDE DEF members, perms
  <2>2. req'.doc = g /\ \A w \in ToWrite' : w.kind # "delete"
    BY <2>1, InWrites DEF Planned, ToWrite
  <2> QED BY <2>1, <2>2, InWrites, NoDeletePlan, PlannedGrants
<1> QED BY <1>1, <1>2, <1>3, <1>4, <1>5, <1>6, <1>7, <1>8, CreateGrants, UpdateApplicationsGrants,
           UpdatePermissionsGrants, DeletePermissionGrants, DeleteApplicationGrants DEF Handle

-----------------------------------------------------------------------------
(* Grants: the loops and the last write *)

LEMMA WriteLeavesGrants ==
  ASSUME TypeOK, FormInv, NEW w, Pending(w), Did(w)
  PROVE  /\ \A p : /\ Granting(p)' = Granting(p)
                   /\ Granting(p) = w => w.on = p /\ w.kind = "grant"
                   /\ Revoking(p)' = Revoking(p)
                   /\ Revoking(p) = w => w.on = p /\ w.kind = "revoke"
                   /\ Deleting(p)' = Deleting(p)
                   /\ Deleting(p) = w => w.on = p /\ w.kind = "delete"
         /\ \A g : /\ Dropping(g)' = Dropping(g)
                   /\ Dropping(g) = w => w.on = g /\ w.kind = "drop"
                   /\ Unassigning(g)' = Unassigning(g)
                   /\ Unassigning(g) = w => w.on = g /\ w.kind = "unassign"
<1>1. req'.doc = req.doc
  BY WriteLeaves
<1> QED BY <1>1 DEF Granting, Revoking, Deleting, Dropping, Unassigning

LEMMA MemberWriteGrants ==
  ASSUME TypeOK, FormInv, GrantInv, NEW w, WriteMember(w) \/ WriteUser(w)
  PROVE  GrantInv'
<1>1. /\ Pending(w) /\ Did(w) /\ w.kind \in {"join", "leave", "list", "unlist"}
      /\ UNCHANGED <<life, groupPerms, groupApps, permGroups, torn>>
  BY DEF WriteMember, WriteUser
<1>2. /\ req # Idle /\ req' # Idle /\ w \in Write /\ w \in ToWrite
      /\ w.ref = req.doc /\ ToWrite' = ToWrite \ {w}
      /\ req'.op = req.op /\ req'.doc = req.doc
  BY <1>1, WriteLeaves
<1>3. req.doc \notin Permissions /\ req.doc \notin Applications /\ req.op # "grants"
  <2>1. req.doc \in Users \cup Groups
    BY <1>1, <1>2, WriteKinds
  <2>2. req.op = "grants" => w.kind \in {"grant", "revoke"}
    BY <1>2 DEF GrantInv, GrantsPlan, ToWrite
  <2> QED BY <1>1, <2>1, <2>2, ConstantsAssumption
<1>4. Regranting' = Regranting
  BY <1>1, <1>2 DEF Regranting
<1>5. req.op = "delete" => DeletePermissionPlan' /\ DeleteApplicationPlan'
  BY <1>2, <1>3 DEF GrantInv, DeletePermissionPlan, DeleteApplicationPlan
<1> QED BY <1>1, <1>2, <1>3, <1>4, <1>5 DEF GrantInv, LiveOnes, Live, Whole

LEMMA WritePermissionGrants ==
  ASSUME TypeOK, FormInv, GrantInv, NEW w, WritePermission(w)
  PROVE  GrantInv'
<1>1. /\ Pending(w) /\ Did(w) /\ w.kind \in {"grant", "revoke"}
      /\ UNCHANGED <<life, groupPerms, groupApps, torn>>
      /\ permGroups' = [permGroups EXCEPT ![w.on] =
           IF w.kind = "grant" THEN @ \cup {w.ref} ELSE @ \ {w.ref}]
  BY DEF WritePermission
<1>2. /\ req # Idle /\ req' # Idle /\ w \in Write /\ w \in ToWrite /\ Form
      /\ w.ref = req.doc /\ ToWrite' = ToWrite \ {w}
      /\ req'.op = req.op /\ req'.doc = req.doc
      /\ req'.first = req.first \ {w} /\ req'.then = req.then \ {w}
      /\ req'.gain = req.gain /\ req'.lose = req.lose /\ req'.apps = req.apps
  BY <1>1, WriteLeaves
<1>3. /\ w.on \in Permissions /\ req.doc \in Groups /\ req.doc \notin Permissions
      /\ req.doc \notin Applications /\ req.op \in {"grants", "delete"}
      /\ w.kind = "grant" => req.op = "grants"
  BY <1>1, <1>2, WriteKinds, ConstantsAssumption DEF GrantInv
<1>4. Regranting' = Regranting /\ req.doc \in Regranting
  BY <1>1, <1>2, <1>3 DEF Regranting
<1>5. \A g, p : p \in Permissions /\ g # req.doc => (g \in permGroups[p] <=> g \in permGroups'[p])
  BY <1>1, <1>2, <1>3 DEF TypeOK
<1>6. \A g \in LiveOnes(Groups)' \ Regranting' : \A p \in Permissions :
        Whole(p, Regranting)' =>
          /\ p \in groupPerms'[g] <=> Live(p)' /\ g \in permGroups'[p]
          /\ p \in groupPerms'[g] => AppOf[p] \in groupApps'[g]
  BY <1>1, <1>4, <1>5 DEF GrantInv, LiveOnes, Live, Whole
<1>7. ASSUME NEW g \in Groups, NEW p \in Permissions, life[g] = "new" \/ life[p] = "new"
      PROVE  p \notin groupPerms[g] /\ g \notin permGroups'[p]
  <2>1. p \notin groupPerms[g] /\ g \notin permGroups[p]
    BY <1>7 DEF GrantInv
  <2>2. CASE w.kind = "grant" /\ p = w.on /\ g = req.doc
    <3>1. req.op = "grants" /\ GrantsPlan
      BY <1>2, <1>3, <2>2 DEF GrantInv
    <3>2. w \in req.first
      BY <1>2, <2>2, <3>1 DEF GrantsPlan, ToWrite
    <3>3. Live(p) /\ Live(g)
      BY <1>2, <2>2, <3>1, <3>2 DEF GrantsPlan, Form, LiveOnes
    <3> QED BY <1>7, <3>3 DEF Live
  <2> QED BY <1>1, <1>2, <1>3, <2>1, <2>2 DEF TypeOK
<1>8. req.op = "grants" => GrantsPlan'
  <2> SUFFICES ASSUME req.op = "grants", GrantsPlan PROVE GrantsPlan'
    BY <1>2 DEF GrantInv
  <2>1. \A p : Granting(p)' = Granting(p) /\ Revoking(p)' = Revoking(p)
    BY <1>1, WriteLeavesGrants
  <2>2. \A p : /\ Granting(p) = w <=> p = w.on /\ w.kind = "grant"
               /\ Revoking(p) = w <=> p = w.on /\ w.kind = "revoke"
    BY <1>2, WriteKinds DEF Granting, Revoking
  <2>3. \/ w.kind = "grant" /\ w \in req.first /\ w \notin req.then
        \/ w.kind = "revoke" /\ w \in req.then /\ req.first = {}
    BY <1>1, <1>2 DEF Pending, GrantsPlan, ToWrite
  <2>4. ASSUME req.doc \notin torn, NEW p \in Permissions, Whole(p, torn)
        PROVE  Live(p) /\ (\/ req.doc \in permGroups[p] /\ Revoking(p) \notin req.then
                           \/ Granting(p) \in req.first)
                 <=> Live(p) /\ (\/ req.doc \in permGroups'[p] /\ Revoking(p) \notin req'.then
                                 \/ Granting(p) \in req'.first)
    <3>1. CASE p = w.on /\ w.kind = "grant"
      <4>1. Granting(p) \in req.first /\ Revoking(p) \notin req.then
        BY <2>2, <2>3, <3>1 DEF GrantsPlan
      <4>2. req.doc \in permGroups'[p] /\ Revoking(p) \notin req'.then
        BY <1>1, <1>2, <1>3, <3>1, <4>1 DEF TypeOK
      <4> QED BY <4>1, <4>2
    <3>2. CASE p = w.on /\ w.kind = "revoke"
      <4>1. /\ Revoking(p) \in req.then
            /\ Granting(p) \notin req.first /\ Granting(p) \notin req'.first
        BY <1>2, <2>2, <2>3, <3>2
      <4>2. req.doc \notin permGroups'[p]
        BY <1>1, <1>2, <1>3, <3>2 DEF TypeOK
      <4> QED BY <4>1, <4>2
    <3>3. CASE p # w.on
      <4>1. permGroups'[p] = permGroups[p]
        BY <1>1, <1>3, <3>3 DEF TypeOK
      <4> QED BY <1>2, <2>2, <3>3, <4>1
    <3> QED BY <1>1, <3>1, <3>2, <3>3
  <2>5. \A p \in Permissions : Granting(p) \in req'.first => Revoking(p) \notin req'.then
    BY <1>2 DEF GrantsPlan
  <2>6. /\ \A x \in req'.first : x.kind = "grant" /\ x.on \in req.gain
        /\ \A x \in req'.then : x.kind = "revoke"
    BY <1>2 DEF GrantsPlan
  <2>7. ASSUME req.doc \notin torn, NEW p \in Permissions, Whole(p, torn)
        PROVE  /\ p \in (groupPerms[req.doc] \cup req.gain) \ req.lose
                    <=> /\ Live(p)
                        /\ \/ req.doc \in permGroups'[p] /\ Revoking(p) \notin req'.then
                           \/ Granting(p) \in req'.first
               /\ p \in (groupPerms[req.doc] \cup req.gain) \ req.lose
                    => AppOf[p] \in req.apps
    BY <2>4, <2>7 DEF GrantsPlan
  <2> QED BY <1>1, <1>2, <2>1, <2>5, <2>6, <2>7 DEF GrantsPlan, Live, Whole
<1>9. req.op = "delete" => DeletePermissionPlan' /\ DeleteApplicationPlan'
  BY <1>2, <1>3 DEF GrantInv, DeletePermissionPlan, DeleteApplicationPlan
<1> QED BY <1>1, <1>2, <1>6, <1>7, <1>8, <1>9 DEF GrantInv

LEMMA DropPermissionGrants ==
  ASSUME TypeOK, FormInv, GrantInv, NEW w, DropPermission(w)
  PROVE  GrantInv'
<1>1. /\ Pending(w) /\ Did(w) /\ w.kind = "drop"
      /\ UNCHANGED <<life, groupApps, permGroups, torn>>
      /\ groupPerms' = [groupPerms EXCEPT ![w.on] = @ \ {w.ref}]
  BY DEF DropPermission
<1>2. /\ req # Idle /\ req' # Idle /\ w \in Write /\ w \in ToWrite /\ Form
      /\ w.ref = req.doc /\ ToWrite' = ToWrite \ {w}
      /\ req'.op = req.op /\ req'.doc = req.doc
  BY <1>1, WriteLeaves
<1>3. /\ w.on \in Groups /\ req.doc \in Permissions /\ req.doc \notin Applications
      /\ req.op = "delete"
  BY <1>1, <1>2, WriteKinds, ConstantsAssumption DEF Form
<1>4. Regranting' = Regranting /\ req.doc \in Regranting
  BY <1>1, <1>2, <1>3 DEF Regranting
<1>5. /\ \A g \in Groups : \A p : p # req.doc => (p \in groupPerms[g] <=> p \in groupPerms'[g])
      /\ \A g \in Groups : groupPerms'[g] \subseteq groupPerms[g]
      /\ req.doc \notin groupPerms'[w.on]
  BY <1>1, <1>2, <1>3 DEF TypeOK
<1>6. \A g \in LiveOnes(Groups)' \ Regranting' : \A p \in Permissions :
        Whole(p, Regranting)' =>
          /\ p \in groupPerms'[g] <=> Live(p)' /\ g \in permGroups'[p]
          /\ p \in groupPerms'[g] => AppOf[p] \in groupApps'[g]
  BY <1>1, <1>4, <1>5 DEF GrantInv, LiveOnes, Live, Whole
<1>7. DeletePermissionPlan'
  <2>1. DeletePermissionPlan
    BY <1>2, <1>3 DEF GrantInv
  <2>2. \A g : Dropping(g)' = Dropping(g) /\ (Dropping(g) = w => w.on = g)
    BY <1>1, WriteLeavesGrants
  <2>3. ASSUME Whole(req.doc, torn), NEW g \in LiveOnes(Groups) \ torn, req.doc \in groupPerms'[g]
        PROVE  Dropping(g) \in ToWrite'
    <3>1. g \in Groups /\ g # w.on
      BY <1>5, <2>3 DEF LiveOnes
    <3> QED BY <1>2, <1>3, <1>5, <2>1, <2>2, <2>3, <3>1 DEF DeletePermissionPlan
  <2> QED BY <1>1, <1>2, <2>2, <2>3 DEF DeletePermissionPlan, LiveOnes, Live, Whole
<1>8. DeleteApplicationPlan'
  BY <1>2, <1>3 DEF GrantInv, DeleteApplicationPlan
<1> QED BY <1>1, <1>2, <1>3, <1>5, <1>6, <1>7, <1>8 DEF GrantInv

LEMMA RemovePermissionGrants ==
  ASSUME TypeOK, FormInv, GrantInv, NEW w, RemovePermission(w)
  PROVE  GrantInv'
<1>1. /\ Pending(w) /\ Did(w) /\ w.kind = "delete"
      /\ UNCHANGED <<groupPerms, groupApps, torn>>
      /\ life' = [life EXCEPT ![w.on] = "gone"]
      /\ permGroups' = [permGroups EXCEPT ![w.on] = {}]
  BY DEF RemovePermission
<1>2. /\ req # Idle /\ req' # Idle /\ w \in Write /\ w \in ToWrite /\ Form
      /\ w.ref = req.doc /\ ToWrite' = ToWrite \ {w}
      /\ req'.op = req.op /\ req'.doc = req.doc /\ req'.lose = req.lose
  BY <1>1, WriteLeaves
<1>3. /\ w.on \in Permissions /\ req.doc \in Applications /\ req.doc \notin Permissions
      /\ req.op = "delete" /\ AppOf[w.on] = req.doc
      /\ \A g \in Groups : g \notin Permissions /\ g \in Documents
      /\ Permissions \subseteq Documents
  BY <1>1, <1>2, WriteKinds, ConstantsAssumption
     DEF Form, GrantInv, DeleteApplicationPlan, Documents
<1>4. Regranting' = Regranting /\ req.doc \in Regranting
  BY <1>1, <1>2, <1>3 DEF Regranting
<1>5. /\ \A g \in Groups : life'[g] = life[g]
      /\ \A p \in Permissions : p # w.on => life'[p] = life[p] /\ permGroups'[p] = permGroups[p]
      /\ life'[w.on] = "gone" /\ permGroups'[w.on] = {}
  BY <1>1, <1>3 DEF TypeOK
<1>6. \A g \in LiveOnes(Groups)' \ Regranting' : \A p \in Permissions :
        Whole(p, Regranting)' =>
          /\ p \in groupPerms'[g] <=> Live(p)' /\ g \in permGroups'[p]
          /\ p \in groupPerms'[g] => AppOf[p] \in groupApps'[g]
  BY <1>1, <1>3, <1>4, <1>5 DEF GrantInv, LiveOnes, Live, Whole
<1>7. \A g \in Groups, p \in Permissions :
        life'[g] = "new" \/ life'[p] = "new" => p \notin groupPerms'[g] /\ g \notin permGroups'[p]
  BY <1>1, <1>5 DEF GrantInv
<1>8. DeleteApplicationPlan'
  <2>1. DeleteApplicationPlan
    BY <1>2, <1>3 DEF GrantInv
  <2>2. \A x : /\ Deleting(x)' = Deleting(x) /\ (Deleting(x) = w => w.on = x)
               /\ Unassigning(x)' = Unassigning(x) /\ Unassigning(x) # w
    BY <1>1, WriteLeavesGrants
  <2>3. LiveOnes(Groups)' = LiveOnes(Groups)
    BY <1>5 DEF LiveOnes, Live
  <2>4. \A p \in Permissions : Live(p)' => Live(p) /\ p # w.on
    BY <1>5 DEF Live
  <2> QED BY <1>1, <1>2, <2>1, <2>2, <2>3, <2>4 DEF DeleteApplicationPlan
<1>9. DeletePermissionPlan'
  BY <1>2, <1>3 DEF DeletePermissionPlan
<1> QED BY <1>2, <1>3, <1>6, <1>7, <1>8, <1>9 DEF GrantInv

LEMMA UnassignGrants ==
  ASSUME TypeOK, FormInv, GrantInv, NEW w, Unassign(w)
  PROVE  GrantInv'
<1>1. /\ Pending(w) /\ Did(w) /\ w.kind = "unassign"
      /\ UNCHANGED <<life, permGroups, torn>>
      /\ groupApps' = [groupApps EXCEPT ![w.on] = @ \ {w.ref}]
      /\ groupPerms' = [groupPerms EXCEPT ![w.on] =
           IF w.ref \in groupApps[w.on] THEN @ \ req.lose ELSE @]
  BY DEF Unassign
<1>2. /\ req # Idle /\ req' # Idle /\ w \in Write /\ w \in ToWrite /\ Form
      /\ w.ref = req.doc /\ ToWrite' = ToWrite \ {w}
      /\ req'.op = req.op /\ req'.doc = req.doc /\ req'.lose = req.lose
  BY <1>1, WriteLeaves
<1>3. /\ w.on \in Groups /\ req.doc \in Applications /\ req.doc \notin Permissions
      /\ req.op = "delete"
  BY <1>1, <1>2, WriteKinds, ConstantsAssumption DEF Form
<1>4. DeleteApplicationPlan /\ \A p \in req.lose : AppOf[p] = req.doc
  BY <1>2, <1>3 DEF GrantInv, DeleteApplicationPlan
<1>5. Regranting' = Regranting /\ req.doc \in Regranting
  BY <1>1, <1>2, <1>3 DEF Regranting
<1>6. /\ \A g \in Groups : groupPerms'[g] \subseteq groupPerms[g]
      /\ \A g \in Groups : \A p \in groupPerms[g] : AppOf[p] # req.doc => p \in groupPerms'[g]
      /\ \A g \in Groups : \A a : a # req.doc /\ a \in groupApps[g] => a \in groupApps'[g]
      /\ \A g \in Groups : g # w.on =>
           groupPerms'[g] = groupPerms[g] /\ groupApps'[g] = groupApps[g]
  BY <1>1, <1>2, <1>3, <1>4 DEF TypeOK
<1>7. \A g \in LiveOnes(Groups)' \ Regranting' : \A p \in Permissions :
        Whole(p, Regranting)' =>
          /\ p \in groupPerms'[g] <=> Live(p)' /\ g \in permGroups'[p]
          /\ p \in groupPerms'[g] => AppOf[p] \in groupApps'[g]
  BY <1>1, <1>5, <1>6 DEF GrantInv, LiveOnes, Live, Whole
<1>8. DeleteApplicationPlan'
  <2>1. \A x : /\ Deleting(x)' = Deleting(x) /\ Deleting(x) # w
               /\ Unassigning(x)' = Unassigning(x) /\ (Unassigning(x) = w => w.on = x)
    BY <1>1, WriteLeavesGrants
  <2>2. ASSUME req.doc \notin torn, NEW p \in Permissions \ torn, AppOf[p] = req.doc,
               NEW g \in LiveOnes(Groups) \ torn, p \in groupPerms'[g]
        PROVE  p \in req.lose /\ req.doc \in groupApps'[g] /\ Unassigning(g) \in ToWrite'
    <3>1. /\ g \in Groups /\ p \in groupPerms[g] /\ p \in req.lose /\ req.doc \in groupApps[g]
          /\ Unassigning(g) \in ToWrite
      BY <1>3, <1>4, <1>6, <2>2 DEF DeleteApplicationPlan, LiveOnes
    <3>2. g # w.on
      BY <1>1, <1>2, <1>3, <2>2, <3>1 DEF TypeOK
    <3> QED BY <1>2, <1>6, <2>1, <3>1, <3>2
  <2>3. \A p \in Permissions \ torn : req.doc \notin torn /\ AppOf[p] = req.doc /\ Live(p) =>
          Deleting(p) \in ToWrite'
    BY <1>2, <1>3, <1>4, <2>1 DEF DeleteApplicationPlan
  <2>4. \A x \in ToWrite' : x.kind = "delete" => AppOf[x.on] = req.doc
    BY <1>2, <1>4 DEF DeleteApplicationPlan
  <2> QED BY <1>1, <1>2, <1>4, <2>1, <2>2, <2>3, <2>4 DEF DeleteApplicationPlan, LiveOnes, Live
<1>9. DeletePermissionPlan'
  BY <1>2, <1>3 DEF DeletePermissionPlan
<1>10. \A g \in Groups, p \in Permissions :
         life'[g] = "new" \/ life'[p] = "new" => p \notin groupPerms'[g] /\ g \notin permGroups'[p]
  BY <1>1, <1>6 DEF GrantInv
<1> QED BY <1>2, <1>3, <1>7, <1>8, <1>9, <1>10 DEF GrantInv
-----------------------------------------------------------------------------
(* Grants: the last write and the invariant *)

LEMMA SaveGrantsKept ==
  ASSUME TypeOK, FormInv, GrantInv, Save \/ CutShort
  PROVE  GrantInv'
<1>1. req # Idle /\ req' = Idle /\ Form /\ req.doc \in Documents
  BY DEF Save, SaveMembers, SaveGroups, SaveStatus, SaveGrants, Remove, LastWrite, CutShort,
         FormInv, TypeOK, Request
<1>2. Regranting' = torn'
  BY <1>1 DEF Regranting
<1>3. ASSUME Save
      PROVE  ToWrite = {} /\ req.first = {} /\ req.then = {} /\ UNCHANGED torn
  BY <1>3 DEF Save, SaveMembers, SaveGroups, SaveStatus, SaveGrants, Remove, LastWrite, ToWrite
<1>4. SUFFICES
        /\ \A g \in LiveOnes(Groups)' \ torn' : \A p \in Permissions :
             Whole(p, torn') =>
               /\ p \in groupPerms'[g] <=> Live(p)' /\ g \in permGroups'[p]
               /\ p \in groupPerms'[g] => AppOf[p] \in groupApps'[g]
        /\ \A g \in Groups, p \in Permissions : life'[g] = "new" \/ life'[p] = "new" =>
             p \notin groupPerms'[g] /\ g \notin permGroups'[p]
  BY <1>1, <1>2 DEF GrantInv
<1>5. CASE SaveMembers \/ SaveGroups \/ SaveStatus
  <2>1. UNCHANGED <<life, groupPerms, groupApps, permGroups, torn>> /\ Regranting = torn
    BY <1>5 DEF SaveMembers, SaveGroups, SaveStatus, LastWrite, Regranting
  <2> QED BY <2>1 DEF GrantInv, Live, LiveOnes, Whole
<1>6. CASE SaveGrants
  <2>1. /\ UNCHANGED <<life, permGroups, torn>> /\ req.doc \in Groups /\ Live(req.doc)
        /\ groupPerms' = [groupPerms EXCEPT ![req.doc] = (@ \cup req.gain) \ req.lose]
        /\ groupApps' = [groupApps EXCEPT ![req.doc] = req.apps]
        /\ GrantsPlan /\ req.gain \subseteq LiveOnes(Permissions)
        /\ req.first = {} /\ req.then = {} /\ Regranting = torn \cup {req.doc}
    BY <1>1, <1>3, <1>6 DEF Save, SaveGrants, LastWrite, Form, GrantInv, Regranting
  <2>2. /\ groupPerms'[req.doc] = (groupPerms[req.doc] \cup req.gain) \ req.lose
        /\ groupApps'[req.doc] = req.apps
        /\ \A g \in Groups : g # req.doc =>
             groupPerms'[g] = groupPerms[g] /\ groupApps'[g] = groupApps[g]
    BY <2>1 DEF TypeOK
  <2>3. ASSUME NEW g \in LiveOnes(Groups) \ torn, NEW p \in Permissions, Whole(p, torn)
        PROVE  /\ p \in groupPerms'[g] <=> Live(p) /\ g \in permGroups[p]
               /\ p \in groupPerms'[g] => AppOf[p] \in groupApps'[g]
    <3>1. CASE g = req.doc
      BY <2>1, <2>2, <2>3, <3>1 DEF GrantsPlan
    <3>2. CASE g # req.doc
      <4>1. g \in Groups /\ Whole(p, Regranting)
        BY <2>1, <2>3, ConstantsAssumption DEF LiveOnes, Whole
      <4> QED BY <2>1, <2>2, <3>2, <4>1 DEF GrantInv
    <3> QED BY <3>1, <3>2
  <2>4. ASSUME NEW g \in Groups, NEW p \in Permissions, life[g] = "new" \/ life[p] = "new"
        PROVE  p \notin groupPerms'[g] /\ g \notin permGroups[p]
    BY <2>1, <2>2, <2>4 DEF GrantInv, LiveOnes, Live
  <2> QED BY <2>1, <2>3, <2>4 DEF Live, LiveOnes, Whole
<1>7. CASE Remove
  <2>1. /\ life' = [life EXCEPT ![req.doc] = "gone"] /\ UNCHANGED torn
        /\ groupPerms' = Emptied(groupPerms, req.doc)
        /\ groupApps' = Emptied(groupApps, req.doc)
        /\ permGroups' = Emptied(permGroups, req.doc)
        /\ DeletePermissionPlan /\ DeleteApplicationPlan /\ ToWrite = {}
        /\ Regranting = torn \cup {req.doc}
    BY <1>1, <1>3, <1>7 DEF Save, Remove, LastWrite, GrantInv, Regranting
  <2>2. Groups \subseteq Documents /\ Permissions \subseteq Documents
    BY DEF Documents
  <2>3. /\ \A d \in Documents : d # req.doc => life'[d] = life[d]
        /\ life'[req.doc] = "gone"
    BY <1>1, <2>1 DEF TypeOK
  <2>4. /\ \A g \in Groups : g # req.doc =>
             groupPerms'[g] = groupPerms[g] /\ groupApps'[g] = groupApps[g]
        /\ \A p \in Permissions : p # req.doc => permGroups'[p] = permGroups[p]
        /\ \A g \in Groups : groupPerms'[g] \subseteq groupPerms[g]
        /\ \A p \in Permissions : permGroups'[p] \subseteq permGroups[p]
    BY <2>1 DEF Emptied, TypeOK
  <2>5. ASSUME NEW g \in LiveOnes(Groups)' \ torn, NEW p \in Permissions, Whole(p, torn)
        PROVE  /\ p \in groupPerms'[g] <=> Live(p)' /\ g \in permGroups'[p]
               /\ p \in groupPerms'[g] => AppOf[p] \in groupApps'[g]
    <3>1. g \in Groups /\ g # req.doc /\ g \in LiveOnes(Groups)
      BY <2>2, <2>3 DEF LiveOnes, Live
    <3>2. CASE p = req.doc
      <4>1. p \notin groupPerms[g]
        BY <2>1, <2>5, <3>1, <3>2 DEF DeletePermissionPlan
      <4> QED BY <2>3, <2>4, <3>1, <3>2, <4>1 DEF Live
    <3>3. CASE AppOf[p] = req.doc
      <4>1. req.doc \in Applications \ torn /\ p \notin torn /\ p # req.doc
        BY <2>5, <3>3, ConstantsAssumption DEF Whole
      <4>2. p \notin groupPerms[g] /\ ~Live(p)
        BY <2>1, <3>1, <3>3, <4>1 DEF DeleteApplicationPlan
      <4> QED BY <2>2, <2>3, <2>4, <3>1, <4>1, <4>2 DEF Live
    <3>4. CASE p # req.doc /\ AppOf[p] # req.doc
      <4>1. Whole(p, Regranting) /\ g \notin Regranting
        BY <2>1, <2>5, <3>1, <3>4 DEF Whole
      <4> QED BY <2>2, <2>3, <2>4, <3>1, <3>4, <4>1 DEF GrantInv, Live
    <3> QED BY <3>2, <3>3, <3>4
  <2>6. ASSUME NEW g \in Groups, NEW p \in Permissions, life'[g] = "new" \/ life'[p] = "new"
        PROVE  p \notin groupPerms'[g] /\ g \notin permGroups'[p]
    <3>1. life[g] = "new" \/ life[p] = "new"
      BY <2>2, <2>3, <2>6
    <3> QED BY <2>4, <3>1 DEF GrantInv
  <2> QED BY <2>1, <2>5, <2>6
<1>8. CASE CutShort
  <2>1. UNCHANGED <<life, groupPerms, groupApps, permGroups>> /\ Regranting \subseteq torn'
    BY <1>1, <1>8 DEF CutShort, lists, Regranting
  <2>2. \A p : Whole(p, torn') => Whole(p, Regranting)
    BY <2>1 DEF Whole
  <2> QED BY <2>1, <2>2 DEF GrantInv, Live, LiveOnes
<1> QED BY <1>5, <1>6, <1>7, <1>8 DEF Save

LEMMA NextGrants == TypeOK /\ FormInv /\ GrantInv /\ [Next]_vars => GrantInv'
<1> SUFFICES ASSUME TypeOK, FormInv, GrantInv, [Next]_vars PROVE GrantInv'
  OBVIOUS
<1>1. CASE UNCHANGED vars
  BY <1>1 DEF vars, lists, GrantInv, Regranting, Live, LiveOnes, Whole, ToWrite, GrantsPlan,
              DeletePermissionPlan, DeleteApplicationPlan, Granting, Revoking, Dropping,
              Deleting, Unassigning
<1>2. CASE Loop
  BY <1>2, MemberWriteGrants, WritePermissionGrants, DropPermissionGrants,
     RemovePermissionGrants, UnassignGrants DEF Loop
<1> QED BY <1>1, <1>2, HandleGrants, SaveGrantsKept DEF Next

LEMMA GrantInvariance == Spec => [](TypeOK /\ FormInv /\ GrantInv)
<1>1. Init => GrantInv
  <2> SUFFICES ASSUME Init PROVE GrantInv
    OBVIOUS
  <2>1. /\ \A g \in Groups : groupPerms[g] = {}
        /\ \A p \in Permissions : permGroups[p] = {}
    BY DEF Init
  <2> QED BY <2>1 DEF Init, GrantInv, LiveOnes
<1> QED BY <1>1, InitTypes, NextTypes, NextGrants, PTL DEF Spec

\* Between requests a group has a permission exactly if the permission exists
\* and names the group, the documents whose requests were cut short aside.
THEOREM GrantsSound == Spec => []GrantsMutual
<1>1. GrantInv => GrantsMutual
  BY DEF GrantInv, GrantsMutual, Settled, Regranting, Whole
<1> QED BY <1>1, GrantInvariance, PTL

\* Between requests a group has permissions only for applications it has: a
\* group that loses an application loses the permissions for it.
THEOREM WithinSound == Spec => []GrantsWithinApplications
<1>1. TypeOK /\ GrantInv => GrantsWithinApplications
  BY DEF TypeOK, GrantInv, GrantsWithinApplications, Settled, Regranting, Whole, LiveOnes
<1> QED BY <1>1, GrantInvariance, PTL

-----------------------------------------------------------------------------
(* Groups and the users they list *)

Leaving(g) == [kind |-> "leave", on |-> g, ref |-> req.doc]
Listing(u) == [kind |-> "list", on |-> u, ref |-> req.doc]

\* A group that lists the user is one of the user's, and the user exists.
KnowsItsGroups(u) ==
  Settled /\ u \notin torn =>
    \A g \in LiveOnes(Groups) \ torn : u \in groupUsers[g] => Live(u) /\ g \in userGroups[u]

\* No group has members before it is created.
FreshInv ==
  /\ \A g \in Groups : life[g] = "new" => groupUsers[g] = {}
  /\ req # Idle => \A w \in ToWrite : w.kind = "join" => life[w.on] # "new"

\* What a request that adds to a group, or takes from it, has told the user or
\* will.
TellMember(u) ==
  /\ \A w \in ToWrite : w.kind = "unlist" => w.on \in req.lose
  /\ u \in (groupUsers[req.doc] \cup req.gain) \ req.lose =>
       Live(u) /\ (req.doc \in userGroups[u] \/ Listing(u) \in ToWrite)

\* What a request that moves the user has told the groups or will.
TellGroups(u) ==
  /\ \A w \in ToWrite : w.kind = "join" => w.on \in req.gain \ req.lose
  /\ \A g \in LiveOnes(Groups) \ torn : u \in groupUsers[g] =>
       g \in (userGroups[u] \cup req.gain) \ req.lose \/ Leaving(g) \in ToWrite

LeaveAll(u) == \A g \in LiveOnes(Groups) \ torn : u \in groupUsers[g] => Leaving(g) \in ToWrite

ToldInv(u) ==
  /\ u \notin Moving =>
       \A g \in LiveOnes(Groups) \ Moving : u \in groupUsers[g] => Live(u) /\ g \in userGroups[u]
  /\ req # Idle /\ req.doc \notin torn /\ u \notin torn =>
       /\ req.op = "members" => TellMember(u)
       /\ req.op = "groups" /\ req.doc = u => TellGroups(u)
       /\ req.op \in {"status", "delete"} /\ req.doc = u => LeaveAll(u)

\* A request that is planned leaves the lists alone; what remains is its plan.
LEMMA PlannedTold ==
  ASSUME TypeOK, FreshInv, NEW u \in Users, ToldInv(u),
         NEW d, NEW first, NEW then, NEW gain, NEW lose, NEW apps,
         Planned(d, first, then, gain, lose, apps), req'.op \in Ops,
         \/ life' = life
         \/ d \in Users /\ req'.op = "groups" /\ life' = [life EXCEPT ![d] = "live"],
         \A w \in first \cup then : w.kind = "join" => life'[w.on] # "new",
         d \notin torn /\ u \notin torn =>
           /\ req'.op = "members" => TellMember(u)'
           /\ req'.op = "groups" /\ d = u => TellGroups(u)'
           /\ req'.op \in {"status", "delete"} /\ d = u => LeaveAll(u)'
  PROVE  FreshInv' /\ ToldInv(u)'
<1>1. /\ req = Idle /\ req' # Idle /\ ToWrite' = first \cup then /\ req'.doc = d
      /\ UNCHANGED <<userGroups, groupUsers, torn>>
  BY DEF Planned, ToWrite, lists
<1>2. \A g \in Groups : life'[g] = life[g]
  BY ConstantsAssumption DEF TypeOK, Documents
<1>3. Moving = torn /\ torn \subseteq Moving'
  BY <1>1 DEF Moving
<1>4. ASSUME u \notin Moving', NEW g \in LiveOnes(Groups)' \ Moving', u \in groupUsers'[g]
      PROVE  Live(u)' /\ g \in userGroups'[u]
  <2>1. Live(u) /\ g \in userGroups[u]
    BY <1>1, <1>2, <1>3, <1>4 DEF ToldInv, LiveOnes, Live
  <2>2. life' = life \/ u # d
    BY <1>1, <1>4 DEF Moving
  <2> QED BY <1>1, <2>1, <2>2 DEF Live, TypeOK, Documents
<1>5. FreshInv'
  BY <1>1, <1>2 DEF FreshInv
<1> QED BY <1>1, <1>4, <1>5 DEF ToldInv

\* Each plan covers the groups that list the user.
LEMMA HandleTold ==
  ASSUME TypeOK, FreshInv, NEW u \in Users, ToldInv(u), Handle, [~UpdateInactiveUser(u)]_vars
  PROVE  FreshInv' /\ ToldInv(u)'
<1>0. /\ \A x \in Users : x \notin Groups /\ x \notin Permissions /\ x \notin Applications
      /\ Users \subseteq Documents /\ Groups \subseteq Documents
      /\ Immutable \subseteq Groups
  BY ConstantsAssumption DEF Documents
<1>k. req = Idle /\ u \notin torn =>
        \A g \in LiveOnes(Groups) \ torn : u \in groupUsers[g] => Live(u) /\ g \in userGroups[u]
  BY DEF ToldInv, Moving
<1>1. ASSUME NEW d \in Documents \ Users, Create(d) PROVE FreshInv' /\ ToldInv(u)'
  <2>1. /\ req = Idle /\ UNCHANGED <<userGroups, groupUsers, torn, req>> /\ life[d] = "new"
        /\ \A x \in Documents : life'[x] = IF x = d THEN "live" ELSE life[x]
    BY <1>1 DEF Create, lists, TypeOK
  <2>2. \A g \in Groups : u \in groupUsers[g] => life'[g] = life[g]
    BY <1>0, <2>1 DEF FreshInv
  <2>3. life'[u] = life[u]
    BY <1>0, <2>1
  <2>4. \A g \in Groups : life'[g] = "new" => life[g] = "new"
    BY <1>0, <2>1
  <2> QED BY <1>k, <2>1, <2>2, <2>3, <2>4 DEF FreshInv, ToldInv, Moving, LiveOnes, Live
<1>2. ASSUME NEW v \in Users, UpdateInactiveUser(v) \/ Activate(v) PROVE FreshInv' /\ ToldInv(u)'
  <2>1. /\ req = Idle /\ UNCHANGED <<life, groupUsers, torn, req>>
        /\ userGroups'[u] = userGroups[u]
    BY <1>2 DEF UpdateInactiveUser, Activate, lists, vars, TypeOK
  <2> QED BY <1>k, <2>1 DEF FreshInv, ToldInv, Moving, LiveOnes, Live
<1>3. ASSUME NEW v \in Users, NEW G \in SUBSET Groups, NEW isActive \in BOOLEAN,
             CreateUser(v, G, isActive)
      PROVE  FreshInv' /\ ToldInv(u)'
  <2>1. /\ req'.op = "groups" /\ Planned(v, Joins(G, v), {}, G, {}, {})
        /\ life' = [life EXCEPT ![v] = "live"]
    BY <1>3, CreateUserPlans
  <2>2. /\ req'.gain = G /\ req'.lose = {} /\ ToWrite' = Joins(G, v) /\ req = Idle
        /\ UNCHANGED <<userGroups, groupUsers, torn>>
    BY <2>1 DEF Planned, ToWrite, lists
  <2>3. /\ life[v] = "new" /\ \A g \in G : life'[g] = "live"
    BY <1>3, <1>0, <2>1 DEF CreateUser, Live, TypeOK
  <2>4. ASSUME v = u, u \notin torn PROVE TellGroups(u)'
    <3>1. \A g \in LiveOnes(Groups) \ torn : u \notin groupUsers[g]
      BY <1>k, <2>2, <2>3, <2>4 DEF Live
    <3>2. \A g \in Groups : Live(g)' => Live(g)
      BY <1>0, <2>1 DEF Live, TypeOK
    <3>3. \A w \in ToWrite' : w.on \in G
      BY <2>2, InWrites
    <3> QED BY <2>2, <3>1, <3>2, <3>3 DEF TellGroups, LiveOnes
  <2>5. \A w \in Joins(G, v) \cup {} : w.kind = "join" /\ life'[w.on] # "new"
    BY <2>3, InWrites
  <2> QED BY <2>1, <2>4, <2>5, PlannedTold DEF Ops
<1>4. ASSUME NEW v \in Users, NEW G \in SUBSET Groups, UpdateUser(v, G)
      PROVE  FreshInv' /\ ToldInv(u)'
  <2> DEFINE joined == G \ userGroups[v]
             left == userGroups[v] \ G
  <2>1. /\ req'.op = "groups" /\ Planned(v, Joins(joined, v), Leaves(left, v), joined, left, {})
        /\ life' = life
    BY <1>4, UpdateUserPlans
  <2>2. /\ req'.doc = v /\ req'.gain = joined /\ req'.lose = left
        /\ ToWrite' = Joins(joined, v) \cup Leaves(left, v)
        /\ UNCHANGED <<userGroups, groupUsers, torn>> /\ req = Idle
    BY <2>1 DEF Planned, ToWrite, lists
  <2>3. /\ \A g \in joined : Live(g) /\ g \notin left
        /\ \A g \in userGroups[v] : g \in left \/ g \in (userGroups[v] \cup joined) \ left
    BY <1>4 DEF UpdateUser
  <2> HIDE DEF joined, left
  <2>4. ASSUME v = u, u \notin torn PROVE TellGroups(u)'
    <3>1. \A w \in ToWrite' : w.kind = "join" => w.on \in joined
      BY <2>2, InWrites
    <3>2. \A g \in left : Leaving(g)' \in ToWrite'
      BY <2>2, ForEach DEF Leaving
    <3> QED BY <1>k, <2>1, <2>2, <2>3, <2>4, <3>1, <3>2 DEF TellGroups, LiveOnes, Live
  <2>5. \A w \in Joins(joined, v) \cup Leaves(left, v) : w.kind = "join" => life'[w.on] # "new"
    BY <2>1, <2>3, InWrites DEF Live
  <2> QED BY <2>1, <2>4, <2>5, PlannedTold DEF Ops
<1>5. ASSUME NEW v \in Users, Deactivate(v) \/ DeleteUser(v) PROVE FreshInv' /\ ToldInv(u)'
  <2> DEFINE left == userGroups[v]
  <2>1. PICK lose : /\ req'.op \in {"status", "delete"}
                    /\ Planned(v, Leaves(left, v), {}, {}, lose, {}) /\ life' = life
    BY <1>5, DeactivatePlans, DeleteUserPlans
  <2>2. /\ req'.doc = v /\ ToWrite' = Leaves(left, v)
        /\ UNCHANGED <<userGroups, groupUsers, torn>> /\ req = Idle
    BY <2>1 DEF Planned, ToWrite, lists
  <2>3. ASSUME v = u, u \notin torn PROVE LeaveAll(u)'
    <3>1. \A g \in left : Leaving(g)' \in ToWrite'
      BY <2>2, ForEach DEF Leaving
    <3> QED BY <1>k, <2>1, <2>2, <2>3, <3>1 DEF LeaveAll, LiveOnes, Live
  <2>4. \A w \in Leaves(left, v) \cup {} : w.kind = "leave"
    BY InWrites
  <2> HIDE DEF left
  <2> QED BY <2>1, <2>3, <2>4, PlannedTold DEF Ops
<1>6. ASSUME NEW g \in Groups, NEW U \in SUBSET Users, AddUsers(g, U)
      PROVE  FreshInv' /\ ToldInv(u)'
  <2>1. /\ req'.op = "members" /\ Planned(g, Lists(U, g), {}, U, {}, {}) /\ life' = life
    BY <1>6, AddUsersPlans
  <2>2. /\ req'.doc = g /\ req'.gain = U /\ req'.lose = {} /\ ToWrite' = Lists(U, g)
        /\ UNCHANGED <<userGroups, groupUsers, torn>> /\ req = Idle
    BY <2>1 DEF Planned, ToWrite, lists
  <2>3. g \in LiveOnes(Groups) /\ \A x \in U : Live(x)
    BY <1>6 DEF AddUsers, LiveOnes
  <2>4. \A w \in Lists(U, g) \cup {} : w.kind = "list"
    BY InWrites
  <2>5. ASSUME g \notin torn, u \notin torn PROVE TellMember(u)'
    <3>1. u \in U => Listing(u)' \in ToWrite'
      BY <2>2, ForEach DEF Listing
    <3>2. u \in groupUsers[g] \cup U => Live(u) /\ (g \in userGroups[u] \/ u \in U)
      BY <1>k, <2>2, <2>3, <2>5
    <3> QED BY <2>1, <2>2, <2>4, <3>1, <3>2 DEF TellMember, Live
  <2> QED BY <1>0, <2>1, <2>4, <2>5, PlannedTold DEF Ops
<1>7. ASSUME NEW g \in Groups, NEW v \in Users, RemoveUser(g, v)
      PROVE  FreshInv' /\ ToldInv(u)'
  <2>1. /\ req'.op = "members" /\ Planned(g, Unlists({v}, g), {}, {}, {v}, {}) /\ life' = life
    BY <1>7, RemoveUserPlans
  <2>2. /\ req'.doc = g /\ req'.gain = {} /\ req'.lose = {v} /\ ToWrite' = Unlists({v}, g)
        /\ UNCHANGED <<userGroups, groupUsers, torn>> /\ req = Idle
    BY <2>1 DEF Planned, ToWrite, lists
  <2>3. g \in LiveOnes(Groups)
    BY <1>7 DEF RemoveUser, LiveOnes
  <2>4. \A w \in Unlists({v}, g) \cup {} : w.kind = "unlist" /\ w.on \in {v}
    BY InWrites
  <2>5. ASSUME g \notin torn, u \notin torn PROVE TellMember(u)'
    BY <1>k, <2>1, <2>2, <2>3, <2>4, <2>5 DEF TellMember, Live
  <2> QED BY <1>0, <2>1, <2>4, <2>5, PlannedTold DEF Ops
<1>8. ASSUME NEW g \in Groups, DeleteGroup(g) PROVE FreshInv' /\ ToldInv(u)'
  <2> DEFINE left == groupUsers[g]
             revoked == groupPerms[g]
  <2>1. /\ req'.op = "delete" /\ Planned(g, Unlists(left, g), Revokes(revoked, g), {}, {}, {})
        /\ life' = life
    BY <1>8, DeleteGroupPlans
  <2> HIDE DEF left, revoked
  <2>2. \A w \in Unlists(left, g) \cup Revokes(revoked, g) : w.kind \in {"unlist", "revoke"}
    BY InWrites
  <2> QED BY <1>0, <2>1, <2>2, PlannedTold DEF Ops
<1>9. ASSUME NEW g \in Groups, NEW A \in SUBSET Applications, NEW action \in Actions,
             UpdateApplications(g, A, action)
      PROVE  FreshInv' /\ ToldInv(u)'
  <2> DEFINE granted == ToGrant(A \ groupApps[g], action)
             revoked == ToRevoke(groupApps[g] \ A, g)
  <2>1. /\ req'.op = "grants"
        /\ Planned(g, Grants(granted, g), Revokes(revoked, g), granted, revoked, A)
        /\ life' = life
    BY <1>9, UpdateApplicationsPlans
  <2> HIDE DEF granted, revoked
  <2>2. \A w \in Grants(granted, g) \cup Revokes(revoked, g) : w.kind \in {"grant", "revoke"}
    BY InWrites
  <2> QED BY <2>1, <2>2, PlannedTold DEF Ops
<1>10. ASSUME NEW g \in Groups, NEW a \in Applications, NEW P \in SUBSET Permissions,
              UpdatePermissions(g, a, P)
       PROVE  FreshInv' /\ ToldInv(u)'
  <2> DEFINE added == P \ groupPerms[g]
             removed == {p \in groupPerms[g] \ P : Live(p) /\ AppOf[p] = a}
             kept == groupApps[g]
  <2>1. /\ req'.op = "grants"
        /\ Planned(g, Grants(added, g), Revokes(removed, g), added, removed, kept)
        /\ life' = life
    BY <1>10, UpdatePermissionsPlans
  <2> HIDE DEF added, removed, kept
  <2>2. \A w \in Grants(added, g) \cup Revokes(removed, g) : w.kind \in {"grant", "revoke"}
    BY InWrites
  <2> QED BY <2>1, <2>2, PlannedTold DEF Ops
<1>11. ASSUME NEW p \in Permissions, DeletePermission(p) PROVE FreshInv' /\ ToldInv(u)'
  <2> DEFINE named == permGroups[p]
  <2>1. /\ req'.op = "delete" /\ Planned(p, Drops(named, p), {}, {}, {}, {}) /\ life' = life
    BY <1>11, DeletePermissionPlans
  <2> HIDE DEF named
  <2>2. \A w \in Drops(named, p) \cup {} : w.kind = "drop"
    BY InWrites
  <2> QED BY <1>0, <2>1, <2>2, PlannedTold DEF Ops
<1>12. ASSUME NEW a \in Applications, DeleteApplication(a) PROVE FreshInv' /\ ToldInv(u)'
  <2> DEFINE mine == {p \in LiveOnes(Permissions) : AppOf[p] = a}
             named == UNION {permGroups[p] : p \in mine}
  <2>1. /\ req'.op = "delete" /\ Planned(a, Deletes(mine, a), Unassigns(named, a), {}, mine, {})
        /\ life' = life
    BY <1>12, DeleteApplicationPlans
  <2> HIDE DEF mine, named
  <2>2. \A w \in Deletes(mine, a) \cup Unassigns(named, a) : w.kind \in {"delete", "unassign"}
    BY InWrites
  <2> QED BY <1>0, <2>1, <2>2, PlannedTold DEF Ops
<1> QED BY <1>1, <1>2, <1>3, <1>4, <1>5, <1>6, <1>7, <1>8, <1>9, <1>10, <1>11, <1>12 DEF Handle

\* A group is told, and the user's request has one group less to tell.
LEMMA WriteMemberTold ==
  ASSUME TypeOK, FormInv, MembershipInv, FreshInv, NEW u \in Users, ToldInv(u),
         NEW w, WriteMember(w)
  PROVE  FreshInv' /\ ToldInv(u)'
<1>1. /\ Pending(w) /\ Did(w) /\ w.kind \in {"join", "leave"}
      /\ UNCHANGED <<life, userGroups, torn>>
      /\ groupUsers' = [groupUsers EXCEPT ![w.on] =
           IF w.kind = "join" THEN @ \cup {w.ref} ELSE @ \ {w.ref}]
  BY DEF WriteMember
<1>2. /\ req # Idle /\ req' # Idle /\ w \in Write /\ w \in ToWrite /\ Form
      /\ w.ref = req.doc /\ ToWrite' = ToWrite \ {w}
      /\ req'.op = req.op /\ req'.doc = req.doc
      /\ req'.gain = req.gain /\ req'.lose = req.lose
  BY <1>1, WriteLeaves
<1>3. w.on \in Groups /\ req.doc \in Users /\ req.doc \notin Groups /\ req.op # "grants"
      /\ req.op # "members" /\ (w.kind = "join" => req.op = "groups")
  BY <1>1, <1>2, WriteKinds, ConstantsAssumption DEF Form, MembershipInv
<1>4. Moving' = Moving /\ req.doc \in Moving
  BY <1>1, <1>2, <1>3 DEF Moving
<1>5. \A g \in Groups : \A x : x # req.doc => (x \in groupUsers[g] <=> x \in groupUsers'[g])
  BY <1>1, <1>2, <1>3 DEF TypeOK
<1>6. \A g \in Groups : g # w.on => groupUsers'[g] = groupUsers[g]
  BY <1>1 DEF TypeOK
<1>7. FreshInv'
  BY <1>1, <1>2, <1>6 DEF FreshInv, TypeOK
<1>8. \A g : Leaving(g)' = Leaving(g) /\ (Leaving(g) = w => w.on = g /\ w.kind = "leave")
  BY <1>2 DEF Leaving
<1>9. w.kind = "join" => groupUsers'[w.on] = groupUsers[w.on] \cup {req.doc}
  BY <1>1, <1>2, <1>3 DEF TypeOK
<1>10. w.kind = "leave" => req.doc \notin groupUsers'[w.on]
  BY <1>1, <1>2, <1>3 DEF TypeOK
<1>11. ASSUME req.op = "groups", req.doc = u, TellGroups(u) PROVE TellGroups(u)'
  <2>1. ASSUME NEW g \in LiveOnes(Groups) \ torn, u \in groupUsers'[g]
        PROVE  g \in (userGroups[u] \cup req.gain) \ req.lose \/ Leaving(g) \in ToWrite'
    <3>1. CASE g = w.on
      BY <1>1, <1>2, <1>10, <1>11, <2>1, <3>1 DEF TellGroups
    <3>2. CASE g # w.on
      <4>1. g \in (userGroups[u] \cup req.gain) \ req.lose \/ Leaving(g) \in ToWrite
        BY <1>6, <1>11, <2>1, <3>2 DEF TellGroups, LiveOnes
      <4> QED BY <1>2, <1>8, <3>2, <4>1
    <3> QED BY <3>1, <3>2
  <2> QED BY <1>1, <1>2, <1>8, <1>11, <2>1 DEF TellGroups, LiveOnes, Live
<1>12. ASSUME req.op \in {"status", "delete"}, req.doc = u, LeaveAll(u) PROVE LeaveAll(u)'
  <2>1. w.kind = "leave"
    BY <1>1, <1>3, <1>12
  <2>2. ASSUME NEW g \in LiveOnes(Groups) \ torn, u \in groupUsers'[g]
        PROVE  Leaving(g) \in ToWrite'
    <3>1. g # w.on
      BY <1>10, <1>12, <2>1, <2>2
    <3> QED BY <1>2, <1>6, <1>8, <1>12, <2>2, <3>1 DEF LeaveAll, LiveOnes
  <2> QED BY <1>1, <1>8, <2>2 DEF LeaveAll, LiveOnes, Live
<1>13. u \notin Moving' => \A g \in LiveOnes(Groups)' \ Moving' :
         u \in groupUsers'[g] => Live(u)' /\ g \in userGroups'[u]
  BY <1>1, <1>4, <1>5 DEF ToldInv, Live, LiveOnes
<1> QED BY <1>1, <1>2, <1>3, <1>7, <1>11, <1>12, <1>13 DEF ToldInv

\* A user is told, and the group's request has one user less to tell.
LEMMA WriteUserTold ==
  ASSUME TypeOK, FormInv, MembershipInv, FreshInv, NEW u \in Users, ToldInv(u),
         NEW w, WriteUser(w)
  PROVE  FreshInv' /\ ToldInv(u)'
<1>1. /\ Pending(w) /\ Did(w) /\ w.kind \in {"list", "unlist"}
      /\ UNCHANGED <<life, groupUsers, torn>>
      /\ userGroups' = [userGroups EXCEPT ![w.on] =
           IF w.kind = "list" THEN @ \cup {w.ref} ELSE @ \ {w.ref}]
  BY DEF WriteUser
<1>2. /\ req # Idle /\ req' # Idle /\ w \in Write /\ w \in ToWrite /\ Form
      /\ w.ref = req.doc /\ ToWrite' = ToWrite \ {w}
      /\ req'.op = req.op /\ req'.doc = req.doc
      /\ req'.gain = req.gain /\ req'.lose = req.lose
  BY <1>1, WriteLeaves
<1>3. w.on \in Users /\ req.doc \in Groups /\ req.doc \notin Users /\ req.op # "grants"
      /\ req.op # "groups" /\ req.op # "status"
  BY <1>1, <1>2, WriteKinds, ConstantsAssumption DEF Form, MembershipInv
<1>4. Moving' = Moving /\ req.doc \in Moving /\ u # req.doc
  BY <1>1, <1>2, <1>3 DEF Moving
<1>5. \A g : g # req.doc => (g \in userGroups[u] <=> g \in userGroups'[u])
  BY <1>1, <1>2, <1>3 DEF TypeOK
<1>6. FreshInv'
  BY <1>1, <1>2 DEF FreshInv
<1>7. Listing(u)' = Listing(u) /\ (Listing(u) = w => w.on = u /\ w.kind = "list")
  BY <1>2 DEF Listing
<1>8. /\ w.on = u /\ w.kind = "list" => req.doc \in userGroups'[u]
      /\ w.on # u \/ w.kind = "list" => userGroups[u] \subseteq userGroups'[u]
  BY <1>1, <1>2, <1>3 DEF TypeOK
<1>9. ASSUME req.op = "members", TellMember(u) PROVE TellMember(u)'
  <2>1. ASSUME u \in (groupUsers[req.doc] \cup req.gain) \ req.lose
        PROVE  Live(u) /\ (req.doc \in userGroups'[u] \/ Listing(u) \in ToWrite')
    <3>1. /\ Live(u) /\ (req.doc \in userGroups[u] \/ Listing(u) \in ToWrite)
          /\ w.kind = "unlist" => w.on # u
      BY <1>2, <1>9, <2>1 DEF TellMember
    <3> QED BY <1>1, <1>2, <1>7, <1>8, <3>1
  <2> QED BY <1>1, <1>2, <1>7, <1>9, <2>1 DEF TellMember, Live
<1>10. u \notin Moving' => \A g \in LiveOnes(Groups)' \ Moving' :
         u \in groupUsers'[g] => Live(u)' /\ g \in userGroups'[u]
  BY <1>1, <1>4, <1>5 DEF ToldInv, Live, LiveOnes
<1> QED BY <1>1, <1>2, <1>3, <1>4, <1>6, <1>9, <1>10 DEF ToldInv

\* The other writes are about grants.
LEMMA OtherWriteTold ==
  ASSUME TypeOK, FormInv, MembershipInv, FreshInv, NEW u \in Users, ToldInv(u), NEW w,
         WritePermission(w) \/ DropPermission(w) \/ RemovePermission(w) \/ Unassign(w)
  PROVE  FreshInv' /\ ToldInv(u)'
<1>1. /\ Pending(w) /\ Did(w)
      /\ w.kind \in {"grant", "revoke", "drop", "delete", "unassign"}
      /\ UNCHANGED <<userGroups, groupUsers, torn>>
      /\ life' = life \/ (w.kind = "delete" /\ life' = [life EXCEPT ![w.on] = "gone"])
  BY DEF WritePermission, DropPermission, RemovePermission, Unassign
<1>2. /\ req # Idle /\ req' # Idle /\ w \in Write /\ w \in ToWrite /\ Form
      /\ w.ref = req.doc /\ ToWrite' = ToWrite \ {w}
      /\ req'.op = req.op /\ req'.doc = req.doc
      /\ req'.gain = req.gain /\ req'.lose = req.lose
  BY <1>1, WriteLeaves
<1>3. \A d \in Users \cup Groups : life'[d] = life[d]
  BY <1>1, <1>2, WriteKinds, ConstantsAssumption DEF TypeOK, Documents
<1>4. Moving' = Moving
  BY <1>1, <1>2 DEF Moving
<1>5. \A x \in ToWrite : x.kind = "join" => x.on \in Groups
  BY <1>2, WriteKinds DEF TypeOK, Request, ToWrite
<1>6. FreshInv'
  BY <1>1, <1>2, <1>3, <1>5 DEF FreshInv
<1>7. /\ \A g : Leaving(g) \in ToWrite => Leaving(g)' \in ToWrite'
      /\ Listing(u) \in ToWrite => Listing(u)' \in ToWrite'
  BY <1>1, <1>2 DEF Leaving, Listing
<1>8. /\ Live(u)' <=> Live(u)
      /\ \A g \in Groups : Live(g)' <=> Live(g)
  BY <1>3 DEF Live
<1>9. TellMember(u) => TellMember(u)'
  BY <1>1, <1>2, <1>7, <1>8 DEF TellMember
<1>10. TellGroups(u) => TellGroups(u)'
  BY <1>1, <1>2, <1>7, <1>8 DEF TellGroups, LiveOnes
<1>11. LeaveAll(u) => LeaveAll(u)'
  BY <1>1, <1>2, <1>7, <1>8 DEF LeaveAll, LiveOnes
<1>12. u \notin Moving' => \A g \in LiveOnes(Groups)' \ Moving' :
         u \in groupUsers'[g] => Live(u)' /\ g \in userGroups'[u]
  BY <1>1, <1>4, <1>8 DEF ToldInv, LiveOnes
<1> QED BY <1>1, <1>2, <1>6, <1>9, <1>10, <1>11, <1>12 DEF ToldInv

\* The last write finds everybody told; a request cut short leaves its document
\* out of what is claimed.
LEMMA SaveTold ==
  ASSUME TypeOK, FormInv, MembershipInv, FreshInv, NEW u \in Users, ToldInv(u),
         Save \/ CutShort
  PROVE  FreshInv' /\ ToldInv(u)'
<1>1. req # Idle /\ req' = Idle /\ Form /\ req.doc \in Documents
  BY DEF Save, SaveMembers, SaveGroups, SaveStatus, SaveGrants, Remove, LastWrite, CutShort,
         FormInv, TypeOK, Request
<1>2. Moving' = torn'
  BY <1>1 DEF Moving
<1>3. ASSUME Save PROVE ToWrite = {} /\ UNCHANGED torn
  BY <1>3 DEF Save, SaveMembers, SaveGroups, SaveStatus, SaveGrants, Remove, LastWrite, ToWrite
<1>4. SUFFICES /\ \A g \in Groups : life'[g] = "new" => groupUsers'[g] = {}
               /\ u \notin torn' => \A g \in LiveOnes(Groups)' \ torn' :
                    u \in groupUsers'[g] => Live(u)' /\ g \in userGroups'[u]
  BY <1>1, <1>2 DEF FreshInv, ToldInv
<1>5. u \notin Groups /\ u \in Documents /\ Groups \subseteq Documents
  BY ConstantsAssumption DEF Documents
<1>6. CASE SaveMembers
  <2>1. /\ UNCHANGED <<life, userGroups>> /\ req.doc \in Groups /\ ToWrite = {}
        /\ groupUsers' = [groupUsers EXCEPT ![req.doc] = (@ \cup req.gain) \ req.lose]
        /\ Moving = torn \cup {req.doc} /\ UNCHANGED torn /\ Live(req.doc)
        /\ req.doc \notin torn /\ u \notin torn => TellMember(u)
    BY <1>1, <1>3, <1>6 DEF Save, SaveMembers, LastWrite, Form, ToldInv, Moving
  <2>2. ASSUME u \notin torn, NEW g \in LiveOnes(Groups) \ torn, u \in groupUsers'[g]
        PROVE  Live(u) /\ g \in userGroups[u]
    <3>1. CASE g = req.doc
      BY <2>1, <2>2, <3>1 DEF TellMember, TypeOK
    <3>2. CASE g # req.doc
      BY <1>5, <2>1, <2>2, <3>2 DEF ToldInv, LiveOnes, TypeOK
    <3> QED BY <3>1, <3>2
  <2> QED BY <2>1, <2>2 DEF FreshInv, Live, LiveOnes, TypeOK
<1>7. CASE SaveGroups \/ SaveStatus
  <2>1. /\ UNCHANGED <<life, groupUsers>> /\ req.doc \in Users /\ ToWrite = {}
        /\ \A x \in Users \ {req.doc} : userGroups'[x] = userGroups[x]
        /\ Moving = torn \cup {req.doc} /\ UNCHANGED torn /\ Live(req.doc)
    BY <1>1, <1>3, <1>7
    DEF Save, SaveGroups, SaveStatus, LastWrite, Form, Moving, TypeOK
  <2>2. req.doc \notin Groups
    BY <2>1, ConstantsAssumption
  <2>3. ASSUME u \notin torn, NEW g \in LiveOnes(Groups) \ torn, u \in groupUsers[g]
        PROVE  Live(u) /\ g \in userGroups'[u]
    <3>1. CASE u # req.doc
      BY <2>1, <2>2, <2>3, <3>1 DEF ToldInv, LiveOnes
    <3>2. CASE u = req.doc /\ SaveGroups
      <4>1. TellGroups(u) /\ userGroups'[u] = (userGroups[u] \cup req.gain) \ req.lose
        BY <1>1, <2>1, <2>3, <3>2 DEF ToldInv, SaveGroups, LastWrite, TypeOK
      <4> QED BY <2>1, <2>3, <3>2, <4>1 DEF TellGroups
    <3>3. CASE u = req.doc /\ SaveStatus
      <4>1. LeaveAll(u)
        BY <1>1, <2>1, <2>3, <3>3 DEF ToldInv, SaveStatus, LastWrite
      <4> QED BY <2>1, <2>3, <4>1 DEF LeaveAll
    <3> QED BY <1>7, <3>1, <3>2, <3>3
  <2> QED BY <2>1, <2>3 DEF FreshInv, Live, LiveOnes
<1>8. CASE SaveGrants
  <2>1. UNCHANGED <<life, userGroups, groupUsers, torn>> /\ Moving = torn
    BY <1>8 DEF SaveGrants, LastWrite, Moving
  <2> QED BY <2>1 DEF FreshInv, ToldInv, Live, LiveOnes
<1>9. CASE Remove
  <2>1. /\ life' = [life EXCEPT ![req.doc] = "gone"] /\ UNCHANGED <<userGroups, torn>>
        /\ groupUsers' = Emptied(groupUsers, req.doc) /\ Moving = torn \cup {req.doc}
        /\ ToWrite = {} /\ req.op = "delete"
    BY <1>1, <1>3, <1>9 DEF Save, Remove, LastWrite, Moving
  <2>2. \A g \in Groups : /\ groupUsers'[g] \subseteq groupUsers[g]
                          /\ life'[g] = "new" => life[g] = "new"
                          /\ life'[g] = "live" => life[g] = "live" /\ g # req.doc
    BY <1>1, <1>5, <2>1 DEF Emptied, TypeOK
  <2>3. ASSUME u \notin torn, NEW g \in Groups \ torn, life'[g] = "live", u \in groupUsers'[g]
        PROVE  Live(u)' /\ g \in userGroups[u]
    <3>1. CASE u = req.doc
      <4>1. LeaveAll(u)
        BY <1>1, <2>1, <2>3, <3>1 DEF ToldInv
      <4> QED BY <2>1, <2>2, <2>3, <4>1 DEF LeaveAll, LiveOnes, Live
    <3>2. CASE u # req.doc
      <4>1. Live(u) /\ g \in userGroups[u]
        BY <2>1, <2>2, <2>3, <3>2 DEF ToldInv, LiveOnes, Live
      <4> QED BY <1>5, <2>1, <3>2, <4>1 DEF Live, TypeOK
    <3> QED BY <3>1, <3>2
  <2>4. \A g \in Groups : life'[g] = "new" => groupUsers'[g] = {}
    BY <2>2 DEF FreshInv
  <2> QED BY <2>1, <2>3, <2>4 DEF LiveOnes, Live
<1>10. CASE CutShort
  <2>1. /\ UNCHANGED <<life, userGroups, groupUsers>> /\ torn' = torn \cup {req.doc}
        /\ Moving \subseteq torn'
    BY <1>1, <1>10 DEF CutShort, lists, Moving
  <2> QED BY <2>1 DEF FreshInv, ToldInv, Live, LiveOnes
<1> QED BY <1>6, <1>7, <1>8, <1>9, <1>10 DEF Save

\* Only a PUT on the inactive user makes groups list somebody who does not list
\* them: as long as there is none, whatever other requests do and wherever they
\* are cut short, each group that lists the user is in the user's list, and none
\* lists a user that was deleted.
THEOREM ToldSound ==
  ASSUME NEW u \in Users
  PROVE  Spec /\ [][~UpdateInactiveUser(u)]_vars => []KnowsItsGroups(u)
<1>1. Init => FreshInv /\ ToldInv(u)
  BY DEF Init, FreshInv, ToldInv, Moving, LiveOnes
<1>2. TypeOK /\ FormInv /\ MembershipInv /\ FreshInv /\ ToldInv(u)
        /\ [Next]_vars /\ [~UpdateInactiveUser(u)]_vars => FreshInv' /\ ToldInv(u)'
  <2> SUFFICES ASSUME TypeOK, FormInv, MembershipInv, FreshInv, ToldInv(u),
                      [Next]_vars, [~UpdateInactiveUser(u)]_vars
               PROVE  FreshInv' /\ ToldInv(u)'
    OBVIOUS
  <2>1. CASE UNCHANGED vars
    BY <2>1 DEF vars, lists, FreshInv, ToldInv, Moving, TellMember, TellGroups, LeaveAll,
                ToWrite, Leaving, Listing, Live, LiveOnes
  <2>2. CASE Loop
    BY <2>2, WriteMemberTold, WriteUserTold, OtherWriteTold DEF Loop
  <2> QED BY <2>1, <2>2, HandleTold, SaveTold DEF Next
<1>3. ToldInv(u) => KnowsItsGroups(u)
  BY DEF ToldInv, KnowsItsGroups, Settled, Moving
<1>4. Spec => [](TypeOK /\ FormInv /\ MembershipInv)
  BY MembershipInvariance
<1> QED BY <1>1, <1>2, <1>3, <1>4, PTL DEF Spec
=============================================================================
