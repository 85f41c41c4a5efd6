--------------------------- MODULE AccessControl ---------------------------
(***************************************************************************)
(* Users, user groups, permissions and applications of user_management.   *)
(* Every relation is stored on both sides, in the lists of two documents:  *)
(* user.user_groups and group.users, group.permissions and                 *)
(* permission.user_groups; an application is only listed by its groups.    *)
(* No handler uses a transaction: it writes the documents on the other     *)
(* side one after the other and its own document last, so that a request   *)
(* cut short by a failing call leaves the two sides different.             *)
(*                                                                         *)
(* Requests are served one at a time.  Lists are sets here: the order and  *)
(* the repetition of identifiers are left out.                             *)
(***************************************************************************)
EXTENDS Naturals, FiniteSets

CONSTANTS
  Users, Groups, Permissions, Applications,
  Predefined,    \* groups whose name is one of IMMUTABLE_USER_GROUPS
  Immutable,     \* groups with the flag is_immutable, which have such a name
  OfType,        \* <<u, g>>: the type of user u is the name of group g
  AppOf,         \* the application of each permission
  Actions,
  ActionOf,      \* the action of each permission
  Start,         \* which documents are new, live or gone at the start
  MaxTorn        \* bound: requests cut short

Documents == Users \cup Groups \cup Permissions \cup Applications
Lives == {"new", "live", "gone"}

ASSUME ConstantsAssumption ==
  /\ Immutable \subseteq Predefined /\ Predefined \subseteq Groups
  /\ OfType \subseteq Users \X Predefined
  /\ AppOf \in [Permissions -> Applications]
  /\ ActionOf \in [Permissions -> Actions]
  /\ Start \subseteq [Documents -> Lives]
  /\ MaxTorn \in Nat
  /\ Users \cap Groups = {} /\ Users \cap Permissions = {}
  /\ Users \cap Applications = {} /\ Groups \cap Permissions = {}
  /\ Groups \cap Applications = {} /\ Permissions \cap Applications = {}

VARIABLES
  life,        \* each document: "new", "live" or "gone"
  active,      \* users whose status is active
  userGroups,  \* User.user_groups
  groupUsers,  \* UserGroup.users
  groupPerms,  \* UserGroup.permissions
  groupApps,   \* UserGroup.applications
  permGroups,  \* Permission.user_groups
  req,         \* the request being served
  torn         \* the documents whose request was cut short

lists == <<userGroups, groupUsers, groupPerms, groupApps, permGroups>>
vars == <<life, active, lists, req, torn>>

Live(d) == life[d] = "live"
LiveOnes(S) == {d \in S : Live(d)}

(* A request: the operation, its own document, the writes to other           *)
(* documents of its first and second loop, and what its last write adds to   *)
(* and takes from the list of its own document.                              *)
Write ==
  [kind : {"join", "leave"}, on : Groups, ref : Users] \cup
  [kind : {"list", "unlist"}, on : Users, ref : Groups] \cup
  [kind : {"grant", "revoke"}, on : Permissions, ref : Groups] \cup
  [kind : {"drop"}, on : Groups, ref : Permissions] \cup
  [kind : {"delete"}, on : Permissions, ref : Applications] \cup
  [kind : {"unassign"}, on : Groups, ref : Applications]

Writes(kind, ons, refs) == [kind : {kind}, on : ons, ref : refs]

Request ==
  [op : {"members", "groups", "status", "grants", "delete"},
   doc : Documents, first : SUBSET Write, then : SUBSET Write,
   gain : SUBSET Documents, lose : SUBSET Documents, apps : SUBSET Applications]

Idle == [op |-> "idle"]

Begin(op, doc, first, then, gain, lose, apps) ==
  /\ req = Idle
  /\ req' = [op |-> op, doc |-> doc, first |-> first, then |-> then,
             gain |-> gain, lose |-> lose, apps |-> apps]

Init ==
  /\ life \in Start
  /\ active = LiveOnes(Users)
  /\ userGroups = [u \in Users |-> {}]
  /\ groupUsers = [g \in Groups |-> {}]
  /\ groupPerms = [g \in Groups |-> {}]
  /\ groupApps = [g \in Groups |-> {}]
  /\ permGroups = [p \in Permissions |-> {}]
  /\ req = Idle
  /\ torn = {}

-----------------------------------------------------------------------------
(* Handlers: reading, checking and planning the writes *)

\* POST /user-group, /user-group/immutable, /permission, /application.
Create(d) ==
  /\ req = Idle /\ life[d] = "new" /\ d \notin Users
  /\ d \in Permissions => Live(AppOf[d])
  /\ life' = [life EXCEPT ![d] = "live"]
  /\ UNCHANGED <<active, lists, req, torn>>

\* create_user: the user is saved without groups, then joins the given ones,
\* which must be immutable and of the user's type.
CreateUser(u, G, isActive) ==
  /\ life[u] = "new"
  /\ \A g \in G : Live(g) /\ g \in Immutable /\ <<u, g>> \in OfType
  /\ Begin("groups", u, Writes("join", G, {u}), {}, G, {}, {})
  /\ life' = [life EXCEPT ![u] = "live"]
  /\ active' = IF isActive THEN active \cup {u} ELSE active
  /\ UNCHANGED <<lists, torn>>

\* add_users_to_user_group: nobody who is in already; the name decides whether
\* the type must match.
AddUsers(g, U) ==
  /\ Live(g) /\ U # {} /\ U \cap groupUsers[g] = {}
  /\ \A u \in U : Live(u) /\ (g \in Predefined => <<u, g>> \in OfType)
  /\ Begin("members", g, Writes("list", U, {g}), {}, U, {}, {})
  /\ UNCHANGED <<life, active, lists, torn>>

\* remove_users_from_user_group
RemoveUser(g, u) ==
  /\ Live(g) /\ u \in groupUsers[g]
  /\ Begin("members", g, Writes("unlist", {u}, {g}), {}, {}, {u}, {})
  /\ UNCHANGED <<life, active, lists, torn>>

\* (mutant) update_user does not compare the user's type with the groups.
UpdateUserAnyType(u, G) ==
  /\ Live(u) /\ u \in active
  /\ \A g \in G : Live(g)
  /\ Begin("groups", u, Writes("join", G \ userGroups[u], {u}),
           Writes("leave", userGroups[u] \ G, {u}),
           G \ userGroups[u], userGroups[u] \ G, {})
  /\ UNCHANGED <<life, active, lists, torn>>

\* update_user with user_groups: the flag decides whether the type must match.
UpdateUser(u, G) ==
  /\ Live(u) /\ u \in active
  /\ \A g \in G : Live(g) /\ (g \in Immutable => <<u, g>> \in OfType)
  /\ Begin("groups", u, Writes("join", G \ userGroups[u], {u}),
           Writes("leave", userGroups[u] \ G, {u}),
           G \ userGroups[u], userGroups[u] \ G, {})
  /\ UNCHANGED <<life, active, lists, torn>>

\* An inactive user's list is emptied, and the groups are not told.
UpdateInactiveUser(u) ==
  /\ req = Idle /\ Live(u) /\ u \notin active
  /\ userGroups' = [userGroups EXCEPT ![u] = {}]
  /\ UNCHANGED <<life, active, groupUsers, groupPerms, groupApps, permGroups,
                 req, torn>>

\* update_user_status
Deactivate(u) ==
  /\ Live(u) /\ u \in active
  /\ Begin("status", u, Writes("leave", userGroups[u], {u}), {}, {},
           userGroups[u], {})
  /\ UNCHANGED <<life, active, lists, torn>>

Activate(u) ==
  /\ req = Idle /\ Live(u) /\ u \notin active
  /\ active' = active \cup {u}
  /\ UNCHANGED <<life, lists, req, torn>>

DeleteUser(u) ==
  /\ Live(u)
  /\ Begin("delete", u, Writes("leave", userGroups[u], {u}), {}, {}, {}, {})
  /\ UNCHANGED <<life, active, lists, torn>>

\* (mutant) The users of a deleted group are not told.
DeleteGroupSilently(g) ==
  /\ Live(g) /\ g \notin Predefined
  /\ Begin("delete", g, {}, Writes("revoke", groupPerms[g], {g}), {}, {}, {})
  /\ UNCHANGED <<life, active, lists, torn>>

DeleteGroup(g) ==
  /\ Live(g) /\ g \notin Predefined
  /\ Begin("delete", g, Writes("unlist", groupUsers[g], {g}),
           Writes("revoke", groupPerms[g], {g}), {}, {}, {})
  /\ UNCHANGED <<life, active, lists, torn>>

\* filter_and_update_permissions_of_applications: by action, or by group.
ToGrant(A, action) ==
  {p \in LiveOnes(Permissions) : AppOf[p] \in A /\ ActionOf[p] = action}
ToRevoke(A, g) ==
  {p \in LiveOnes(Permissions) : AppOf[p] \in A /\ g \in permGroups[p]}

\* (mutant) The permissions of the removed applications stay in the group.
UpdateApplicationsKeeping(g, A, action) ==
  LET granted == ToGrant(A \ groupApps[g], action)
      revoked == ToRevoke(groupApps[g] \ A, g)
  IN
  /\ Live(g) /\ \A a \in A : Live(a)
  /\ Begin("grants", g, Writes("grant", granted, {g}),
           Writes("revoke", revoked, {g}), granted, {}, A)
  /\ UNCHANGED <<life, active, lists, torn>>

\* update_applications_of_user_group: a new application brings its permissions
\* for the default action, a removed one takes all of its permissions along.
UpdateApplications(g, A, action) ==
  LET granted == ToGrant(A \ groupApps[g], action)
      revoked == ToRevoke(groupApps[g] \ A, g)
  IN
  /\ Live(g) /\ \A a \in A : Live(a)
  /\ Begin("grants", g, Writes("grant", granted, {g}),
           Writes("revoke", revoked, {g}), granted, revoked, A)
  /\ UNCHANGED <<life, active, lists, torn>>

\* update_permissions_of_user_group: for one application of the group.
UpdatePermissions(g, a, P) ==
  LET added == P \ groupPerms[g]
      removed == {p \in groupPerms[g] \ P : Live(p) /\ AppOf[p] = a}
  IN
  /\ Live(g) /\ a \in groupApps[g] /\ Live(a)
  /\ \A p \in added : Live(p) /\ AppOf[p] = a
  /\ Begin("grants", g, Writes("grant", added, {g}),
           Writes("revoke", removed, {g}), added, removed, groupApps[g])
  /\ UNCHANGED <<life, active, lists, torn>>

DeletePermission(p) ==
  /\ Live(p)
  /\ Begin("delete", p, Writes("drop", permGroups[p], {p}), {}, {}, {}, {})
  /\ UNCHANGED <<life, active, lists, torn>>

\* delete_application: its permissions first, then the groups these named.
DeleteApplication(a) ==
  LET mine == {p \in LiveOnes(Permissions) : AppOf[p] = a} IN
  /\ Live(a)
  /\ Begin("delete", a, Writes("delete", mine, {a}),
           Writes("unassign", UNION {permGroups[p] : p \in mine}, {a}),
           {}, mine, {})
  /\ UNCHANGED <<life, active, lists, torn>>

-----------------------------------------------------------------------------
(* The loops: one document read and written at a time *)

Pending(w) ==
  /\ req # Idle
  /\ w \in IF req.first # {} THEN req.first ELSE req.then

Did(w) == req' = [req EXCEPT !.first = @ \ {w}, !.then = @ \ {w}]

\* update_ref_of_document and remove_doc_from_all_references on user groups
WriteMember(w) ==
  /\ Pending(w) /\ w.kind \in {"join", "leave"} /\ Did(w)
  /\ groupUsers' = [groupUsers EXCEPT ![w.on] =
       IF w.kind = "join" THEN @ \cup {w.ref} ELSE @ \ {w.ref}]
  /\ UNCHANGED <<life, active, userGroups, groupPerms, groupApps, permGroups, torn>>

\* The same on users.
WriteUser(w) ==
  /\ Pending(w) /\ w.kind \in {"list", "unlist"} /\ Did(w)
  /\ userGroups' = [userGroups EXCEPT ![w.on] =
       IF w.kind = "list" THEN @ \cup {w.ref} ELSE @ \ {w.ref}]
  /\ UNCHANGED <<life, active, groupUsers, groupPerms, groupApps, permGroups, torn>>

\* (mutant) The permission is given its own identifier.
WritePermissionSelf(w) ==
  /\ Pending(w) /\ w.kind \in {"grant", "revoke"} /\ Did(w)
  /\ permGroups' = [permGroups EXCEPT ![w.on] = @ \cup {w.on}]
  /\ UNCHANGED <<life, active, userGroups, groupUsers, groupPerms, groupApps, torn>>

\* (mutant) Revoking is forgotten.
WritePermissionGrantOnly(w) ==
  /\ Pending(w) /\ w.kind \in {"grant", "revoke"} /\ Did(w)
  /\ permGroups' = [permGroups EXCEPT ![w.on] = @ \cup {w.ref}]
  /\ UNCHANGED <<life, active, userGroups, groupUsers, groupPerms, groupApps, torn>>

\* update_permissions_with_user_group
WritePermission(w) ==
  /\ Pending(w) /\ w.kind \in {"grant", "revoke"} /\ Did(w)
  /\ permGroups' = [permGroups EXCEPT ![w.on] =
       IF w.kind = "grant" THEN @ \cup {w.ref} ELSE @ \ {w.ref}]
  /\ UNCHANGED <<life, active, userGroups, groupUsers, groupPerms, groupApps, torn>>

\* remove_doc_from_all_references on the permissions of user groups
DropPermission(w) ==
  /\ Pending(w) /\ w.kind = "drop" /\ Did(w)
  /\ groupPerms' = [groupPerms EXCEPT ![w.on] = @ \ {w.ref}]
  /\ UNCHANGED <<life, active, userGroups, groupUsers, groupApps, permGroups, torn>>

\* get_permissions_based_on_application deletes what it collects.
RemovePermission(w) ==
  /\ Pending(w) /\ w.kind = "delete" /\ Did(w)
  /\ life' = [life EXCEPT ![w.on] = "gone"]
  /\ permGroups' = [permGroups EXCEPT ![w.on] = {}]
  /\ UNCHANGED <<active, userGroups, groupUsers, groupPerms, groupApps, torn>>

\* delete_application: a group that lists the application loses it and its
\* permissions.
Unassign(w) ==
  /\ Pending(w) /\ w.kind = "unassign" /\ Live(w.on) /\ Did(w)
  /\ groupApps' = [groupApps EXCEPT ![w.on] = @ \ {w.ref}]
  /\ groupPerms' = [groupPerms EXCEPT ![w.on] =
       IF w.ref \in groupApps[w.on] THEN @ \ req.lose ELSE @]
  /\ UNCHANGED <<life, active, userGroups, groupUsers, permGroups, torn>>

\* It raises on a group that is gone; any call may fail: the rest is not done.
CutShort ==
  /\ req # Idle
  /\ \/ Cardinality(torn) < MaxTorn
     \/ \E w \in Write : Pending(w) /\ w.kind = "unassign" /\ ~Live(w.on)
  /\ req' = Idle /\ torn' = torn \cup {req.doc}
  /\ UNCHANGED <<life, active, lists>>

-----------------------------------------------------------------------------
(* The last write: the request's own document *)

LastWrite(op) ==
  /\ req # Idle /\ req.op = op
  /\ req.first = {} /\ req.then = {}
  /\ req' = Idle

SaveMembers ==
  /\ LastWrite("members")
  /\ groupUsers' = [groupUsers EXCEPT ![req.doc] = (@ \cup req.gain) \ req.lose]
  /\ UNCHANGED <<life, active, userGroups, groupPerms, groupApps, permGroups, torn>>

SaveGroups ==
  /\ LastWrite("groups")
  /\ userGroups' = [userGroups EXCEPT ![req.doc] = (@ \cup req.gain) \ req.lose]
  /\ UNCHANGED <<life, active, groupUsers, groupPerms, groupApps, permGroups, torn>>

SaveStatus ==
  /\ LastWrite("status")
  /\ userGroups' = [userGroups EXCEPT ![req.doc] = {}]
  /\ active' = active \ {req.doc}
  /\ UNCHANGED <<life, groupUsers, groupPerms, groupApps, permGroups, torn>>

SaveGrants ==
  /\ LastWrite("grants")
  /\ groupPerms' = [groupPerms EXCEPT ![req.doc] = (@ \cup req.gain) \ req.lose]
  /\ groupApps' = [groupApps EXCEPT ![req.doc] = req.apps]
  /\ UNCHANGED <<life, active, userGroups, groupUsers, permGroups, torn>>

\* A user is only marked as deleted and keeps its list; the others vanish.
Emptied(f, d) == [x \in DOMAIN f |-> IF x = d THEN {} ELSE f[x]]

Remove ==
  /\ LastWrite("delete")
  /\ life' = [life EXCEPT ![req.doc] = "gone"]
  /\ groupUsers' = Emptied(groupUsers, req.doc)
  /\ groupPerms' = Emptied(groupPerms, req.doc)
  /\ groupApps' = Emptied(groupApps, req.doc)
  /\ permGroups' = Emptied(permGroups, req.doc)
  /\ UNCHANGED <<active, userGroups, torn>>

-----------------------------------------------------------------------------

Handle ==
  \/ \E d \in Documents \ Users : Create(d)
  \/ \E u \in Users, G \in SUBSET Groups :
       \/ \E isActive \in BOOLEAN : CreateUser(u, G, isActive)
       \/ UpdateUser(u, G)
  \/ \E u \in Users : UpdateInactiveUser(u) \/ Deactivate(u) \/ Activate(u)
                      \/ DeleteUser(u)
  \/ \E g \in Groups :
       \/ \E U \in SUBSET Users : AddUsers(g, U)
       \/ \E u \in Users : RemoveUser(g, u)
       \/ DeleteGroup(g)
       \/ \E A \in SUBSET Applications, action \in Actions :
            UpdateApplications(g, A, action)
       \/ \E a \in Applications, P \in SUBSET Permissions : UpdatePermissions(g, a, P)
  \/ \E p \in Permissions : DeletePermission(p)
  \/ \E a \in Applications : DeleteApplication(a)

Loop ==
  \E w \in Write :
    \/ WriteMember(w) \/ WriteUser(w) \/ WritePermission(w)
    \/ DropPermission(w) \/ RemovePermission(w) \/ Unassign(w)

Save == SaveMembers \/ SaveGroups \/ SaveStatus \/ SaveGrants \/ Remove

Next == Handle \/ Loop \/ Save \/ CutShort

Spec == Init /\ [][Next]_vars

-----------------------------------------------------------------------------
(* Properties *)

\* The documents, their lists of identifiers, and the request in flight.
TypeOK ==
  /\ life \in [Documents -> Lives]
  /\ active \subseteq Users
  /\ userGroups \in [Users -> SUBSET Groups]
  /\ groupUsers \in [Groups -> SUBSET Users]
  /\ groupPerms \in [Groups -> SUBSET Permissions]
  /\ groupApps \in [Groups -> SUBSET Applications]
  /\ permGroups \in [Permissions -> SUBSET Groups]
  /\ req = Idle \/ req \in Request
  /\ torn \subseteq Documents

Settled == req = Idle

\* A user's list of groups (what get_applications_assigned_to_user follows)
\* names only groups that exist and list the user: between requests, unless the
\* user's or the group's own request was cut short.
ListedAreMembers ==
  Settled => \A u \in LiveOnes(Users) \ torn : \A g \in userGroups[u] \ torn :
    Live(g) /\ u \in groupUsers[g]

\* A group has a permission exactly if the permission exists and names it, the
\* documents whose requests were cut short aside.
GrantsMutual ==
  Settled => \A g \in LiveOnes(Groups) \ torn : \A p \in Permissions \ torn :
    AppOf[p] \notin torn =>
      (p \in groupPerms[g] <=> Live(p) /\ g \in permGroups[p])

\* A group has permissions only for its own applications: losing an
\* application takes every permission for it along.
GrantsWithinApplications ==
  Settled => \A g \in LiveOnes(Groups) \ torn : \A p \in groupPerms[g] \ torn :
    AppOf[p] \notin torn => AppOf[p] \in groupApps[g]

\* Whatever fails and at every moment: a predefined group flagged immutable
\* lists only users of its type, though three handlers add users to it.
ImmutableHoldsItsType ==
  \A g \in Immutable : \A u \in groupUsers[g] : <<u, g>> \in OfType
=============================================================================
