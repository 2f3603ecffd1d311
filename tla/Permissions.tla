---------------------------- MODULE Permissions ----------------------------
(***************************************************************************)
(* Users, groups and permissions: requests of users who are logged in by   *)
(* get_current_user, let in by RequiresPermission and then change groups,  *)
(* memberships, grants and collections, or are refused.                    *)
(*                                                                         *)
(* Nothing holds a lock from one part of a request to the next: the login, *)
(* the two queries of check_permission, the queries of the handler that    *)
(* look names up, and its write each see what other requests committed in  *)
(* the meantime.  Groups and collections that are deleted and created      *)
(* again have their name and a new id.  A resource is given by its name,   *)
(* and "system" is that of the system wherever permissions are concerned,  *)
(* although nothing keeps a collection from being called so.               *)
(***************************************************************************)
EXTENDS Integers, FiniteSets

CONSTANTS
  User,          \* the users with a token
  PublicUser,    \* who has none
  Request,       \* the requests at work at a time
  Public, Admins,      \* the names of the system groups
  GroupName, CollectionName, System,
  Ask,           \* what may be asked: [op, group, who, on, permission]
  MaxRequests,   \* requests of a behaviour
  MaxIds         \* groups and collections created in a behaviour

Permission == {"read", "write", "admin"}
GroupOps == {"create_group", "delete_group", "add_member", "remove_member"}
CollectionOps == {"create_collection", "delete_collection", "grant_permission",
                  "revoke_permission"}
PublicGroup == [name |-> Public, id |-> 0]
AdminsGroup == [name |-> Admins, id |-> 0]
SystemResource == [name |-> System, id |-> 0]

ASSUME PermissionsAssumption ==
  /\ PublicUser \notin User /\ Public # Admins /\ {Public, Admins} \subseteq GroupName
  /\ \A k \in Ask :
       /\ k.op \in {"login"} \cup GroupOps \cup CollectionOps
       /\ k = [op |-> k.op, group |-> k.group, who |-> k.who, on |-> k.on,
               permission |-> k.permission]
       /\ k.group \in GroupName /\ k.who \in User \cup {PublicUser}
       /\ k.on \in CollectionName \cup {System} /\ k.permission \in Permission
       /\ k.op \in {"create_collection", "delete_collection"} => k.on \in CollectionName
       /\ k.op = "delete_collection" => k.group = Public
  /\ MaxRequests \in Nat /\ MaxIds \in Nat

VARIABLES
  users,        \* the users who are registered
  groups,       \* [name, id]
  collections,  \* [name, id]
  members,      \* [user, group]
  grants,       \* [group, permission, on]
  req,          \* of each request: where it is, and what it read
  ids, sent,    \* counters
  early,        \* who began a login when nobody else was registered
  appointed,    \* who was made a member of admins by a request
  dismissed     \* somebody was removed from admins

tables == <<groups, collections, members, grants>>
vars == <<users, tables, req, ids, sent, early, appointed, dismissed>>

Ids(names) == [name : names, id : 0..MaxIds]
NoAsk == [op |-> "login", group |-> Public, who |-> PublicUser, on |-> System,
          permission |-> "read"]
Idle == [pc |-> "idle", user |-> PublicUser, ask |-> NoAsk, first |-> FALSE, held |-> {},
         checked |-> SystemResource, group |-> PublicGroup, on |-> SystemResource,
         shaken |-> FALSE]

Records ==
  [pc : {"idle", "login", "counting", "entering", "groups", "grants", "names", "write"},
   user : User \cup {PublicUser}, ask : Ask \cup {NoAsk}, first : BOOLEAN,
   held : SUBSET Ids(GroupName), checked : Ids(CollectionName \cup {System}),
   group : Ids(GroupName), on : Ids(CollectionName \cup {System}), shaken : BOOLEAN]

Init ==
  /\ users = {PublicUser}
  /\ groups = {PublicGroup, AdminsGroup} /\ collections = {}
  /\ members = {[user |-> PublicUser, group |-> PublicGroup]}
  /\ grants = {[group |-> AdminsGroup, permission |-> "admin", on |-> SystemResource]}
  /\ req = [c \in Request |-> Idle]
  /\ ids = 0 /\ sent = 0 /\ early = {} /\ appointed = {} /\ dismissed = FALSE

-----------------------------------------------------------------------------
(* PERMISSION_GRANTS *)
Sufficient(permission) ==
  CASE permission = "read" -> Permission
    [] permission = "write" -> {"write", "admin"}
    [] OTHER -> {"admin"}

(* What the routers require for an operation: write for the deletion of a  *)
(* collection, which docs/server/permissions.md lists under admin.         *)
Needed(ask) == IF ask.op = "delete_collection" THEN "write" ELSE "admin"
Resource(ask) == IF ask.op \in GroupOps THEN System ELSE ask.on
Open(ask) == ask.op = "create_collection"

GroupsOf(user) == {m.group : m \in {n \in members : n.user = user}}
Resources == collections \cup {SystemResource}

(* What a name stands for in check_permission, grant_permission and        *)
(* revoke_permission: BackendResourceType.SYSTEM is compared first.        *)
Collection(name) == {k \in collections : k.name = name}
Denoted(name) == IF name = System THEN {SystemResource} ELSE Collection(name)

Holds(user, permission, on) ==
  \E m \in members, g \in grants :
    m.user = user /\ m.group = g.group /\ g.on = on /\ g.permission \in Sufficient(permission)

Becomes(c, rec) == req' = [req EXCEPT ![c] = rec]
Unchanged == UNCHANGED <<users, tables, ids, sent, early, appointed, dismissed>>

(* Where a request goes when its user is known.                            *)
Entered(ask) == IF Open(ask) THEN "write" ELSE "groups"

-----------------------------------------------------------------------------
(* get_current_user: a request without a token is that of the public user, *)
(* another one starts with a login.                                        *)
Send(c) ==
  /\ req[c].pc = "idle" /\ sent < MaxRequests /\ sent' = sent + 1
  /\ \E ask \in Ask :
       \/ /\ ask.op # "login"
          /\ Becomes(c, [Idle EXCEPT !.pc = Entered(ask), !.ask = ask])
       \/ \E user \in User :
            Becomes(c, [Idle EXCEPT !.pc = "login", !.user = user, !.ask = ask])
  /\ UNCHANGED <<users, tables, ids, early, appointed, dismissed>>

(* login, in one transaction: the user is upserted, which waits for a      *)
(* transaction that is inserting the same one; others are looked for; and  *)
(* the memberships are added.                                              *)
Upsert(c) ==
  LET user == req[c].user
  IN /\ req[c].pc = "login"
     /\ \A d \in Request \ {c} :
          req[d].pc \in {"counting", "entering"} /\ req[d].user = user => user \in users
     /\ Becomes(c, [req[c] EXCEPT !.pc = "counting"])
     /\ early' = IF users \subseteq {PublicUser, user} THEN early \cup {user} ELSE early
     /\ UNCHANGED <<users, tables, ids, sent, appointed, dismissed>>

(* Mutant of CountOthers: the setup mode lasts until there is an admin.    *)
CountAdmins(c) ==
  /\ req[c].pc = "counting"
  /\ Becomes(c, [req[c] EXCEPT !.pc = "entering",
                   !.first = \A m \in members : m.group # AdminsGroup])
  /\ Unchanged

CountOthers(c) ==
  /\ req[c].pc = "counting"
  /\ Becomes(c, [req[c] EXCEPT !.pc = "entering",
                   !.first = users \subseteq {PublicUser, req[c].user}])
  /\ Unchanged

Enter(c) ==
  LET user == req[c].user
      joined == {PublicGroup} \cup (IF req[c].first THEN {AdminsGroup} ELSE {})
  IN /\ req[c].pc = "entering"
     /\ users' = users \cup {user}
     /\ members' = members \cup {[user |-> user, group |-> g] : g \in joined}
     /\ Becomes(c, IF req[c].ask.op = "login" THEN Idle
                   ELSE [req[c] EXCEPT !.pc = Entered(req[c].ask)])
     /\ UNCHANGED <<groups, collections, grants, ids, sent, early, appointed, dismissed>>

-----------------------------------------------------------------------------
(* check_permission: the groups of the user, then a grant to one of them.  *)
CheckGroups(c) ==
  /\ req[c].pc = "groups" /\ GroupsOf(req[c].user) # {}
  /\ Becomes(c, [req[c] EXCEPT !.pc = "grants", !.held = GroupsOf(req[c].user),
                               !.shaken = FALSE])
  /\ Unchanged

(* Mutant of CheckGrant: a grant on any resource will do.                  *)
CheckGrantAnywhere(c) ==
  LET ask == req[c].ask
  IN /\ req[c].pc = "grants"
     /\ \E r \in Denoted(Resource(ask)) :
          /\ \E g \in grants : g.group \in req[c].held
                               /\ g.permission \in Sufficient(Needed(ask))
          /\ Becomes(c, [req[c] EXCEPT !.checked = r,
               !.pc = IF ask.op = "create_group" THEN "write" ELSE "names"])
     /\ Unchanged

CheckGrant(c) ==
  LET ask == req[c].ask
  IN /\ req[c].pc = "grants"
     /\ \E r \in Denoted(Resource(ask)) :
          /\ \E g \in grants : g.on = r /\ g.group \in req[c].held
                               /\ g.permission \in Sufficient(Needed(ask))
          /\ Becomes(c, [req[c] EXCEPT !.checked = r,
               !.pc = IF ask.op = "create_group" THEN "write" ELSE "names"])
     /\ Unchanged

(* The handler looks up the group and the resource it was given by name;   *)
(* where it needs no group, ask has the public one.  delete_collection     *)
(* looks among the collections only.  A system group is not deleted.       *)
LookUp(c) ==
  LET ask == req[c].ask
  IN /\ req[c].pc = "names"
     /\ ask.op = "delete_group" => ask.group \notin {Public, Admins}
     /\ ask.op \in {"add_member", "remove_member"} => ask.who \in users
     /\ \E g \in groups,
           r \in IF ask.op = "delete_collection" THEN Collection(ask.on)
                ELSE Denoted(Resource(ask)) :
          /\ g.name = ask.group
          /\ Becomes(c, [req[c] EXCEPT !.pc = "write", !.group = g, !.on = r])
     /\ Unchanged

(* A refusal, a name that is not found, a conflict, a foreign key that is  *)
(* gone, a lost session: the request ends and has changed nothing.         *)
Raise(c) ==
  /\ req[c].pc # "idle"
  /\ Becomes(c, Idle)
  /\ Unchanged

-----------------------------------------------------------------------------
(* The writes.  shaken records, of the other requests, that their user was *)
(* removed from a group since their check began, or that a grant on what   *)
(* was checked was revoked since it was found.  That it was deleted counts *)
(* for nothing.                                                            *)
Shakes(d, newCollections, newMembers, newGrants) ==
  \/ \E m \in members \ newMembers : m.user = req[d].user
  \/ /\ req[d].pc \in {"names", "write"}
     /\ \E g \in grants \ newGrants :
          g.on = req[d].checked /\ g.on \in newCollections \cup {SystemResource}

Write(c, newGroups, newCollections, newMembers, newGrants) ==
  /\ groups' = newGroups /\ collections' = newCollections
  /\ members' = newMembers /\ grants' = newGrants
  /\ req' = [d \in Request |->
               IF d = c \/ req[d].pc = "idle" THEN Idle
               ELSE [req[d] EXCEPT !.shaken = req[d].shaken \/
                       Shakes(d, newCollections, newMembers, newGrants)]]
  /\ UNCHANGED <<users, sent, early>>

Writes(c, op) == req[c].pc = "write" /\ req[c].ask.op = op
Fresh == ids < MaxIds /\ ids' = ids + 1
Ghosts == UNCHANGED <<appointed, dismissed>>

CreateGroup(c) ==
  LET name == req[c].ask.group
  IN /\ Writes(c, "create_group") /\ \A g \in groups : g.name # name
     /\ Fresh
     /\ Write(c, groups \cup {[name |-> name, id |-> ids + 1]}, collections, members, grants)
     /\ Ghosts

(* Mutant of DeleteGroup: the grants of the group stay.                    *)
DeleteGroupOnly(c) ==
  LET group == req[c].group
  IN /\ Writes(c, "delete_group")
     /\ Write(c, groups \ {group}, collections, {m \in members : m.group # group}, grants)
     /\ UNCHANGED ids /\ Ghosts

DeleteGroup(c) ==
  LET group == req[c].group
  IN /\ Writes(c, "delete_group")
     /\ Write(c, groups \ {group}, collections,
              {m \in members : m.group # group}, {g \in grants : g.group # group})
     /\ UNCHANGED ids /\ Ghosts

AddMember(c) ==
  LET who == req[c].ask.who
      group == req[c].group
  IN /\ Writes(c, "add_member") /\ group \in groups
     /\ Write(c, groups, collections, members \cup {[user |-> who, group |-> group]}, grants)
     /\ appointed' = IF group = AdminsGroup THEN appointed \cup {who} ELSE appointed
     /\ UNCHANGED <<ids, dismissed>>

RemoveMember(c) ==
  LET who == req[c].ask.who
      group == req[c].group
  IN /\ Writes(c, "remove_member")
     /\ Write(c, groups, collections, members \ {[user |-> who, group |-> group]}, grants)
     /\ dismissed' = (dismissed \/ group = AdminsGroup)
     /\ UNCHANGED <<ids, appointed>>

(* The collection and a first grant, in one transaction: the grant is on   *)
(* what the name stands for, the collection or the system.                 *)
CreateCollection(c) ==
  LET name == req[c].ask.on
      new == [name |-> name, id |-> ids + 1]
  IN /\ Writes(c, "create_collection") /\ Collection(name) = {}
     /\ Fresh
     /\ \E g \in groups :
          /\ g.name = req[c].ask.group
          /\ Write(c, groups, collections \cup {new}, members, grants \cup
                   {[group |-> g, permission |-> req[c].ask.permission,
                     on |-> IF name = System THEN SystemResource ELSE new]})
     /\ Ghosts

DeleteCollection(c) ==
  LET on == req[c].on
  IN /\ Writes(c, "delete_collection")
     /\ Write(c, groups, collections \ {on}, members, {g \in grants : g.on # on})
     /\ UNCHANGED ids /\ Ghosts

GrantPermission(c) ==
  /\ Writes(c, "grant_permission") /\ req[c].group \in groups /\ req[c].on \in Resources
  /\ Write(c, groups, collections, members, grants \cup
           {[group |-> req[c].group, permission |-> req[c].ask.permission, on |-> req[c].on]})
  /\ UNCHANGED ids /\ Ghosts

RevokePermission(c) ==
  /\ Writes(c, "revoke_permission")
  /\ Write(c, groups, collections, members, grants \
           {[group |-> req[c].group, permission |-> req[c].ask.permission, on |-> req[c].on]})
  /\ UNCHANGED ids /\ Ghosts

Handler(c) ==
  \/ CreateGroup(c) \/ DeleteGroup(c) \/ AddMember(c) \/ RemoveMember(c)
  \/ CreateCollection(c) \/ DeleteCollection(c) \/ GrantPermission(c) \/ RevokePermission(c)

Next == \E c \in Request :
  \/ Send(c) \/ Upsert(c) \/ CountOthers(c) \/ Enter(c)
  \/ CheckGroups(c) \/ CheckGrant(c) \/ LookUp(c) \/ Raise(c)
  \/ Handler(c)

Spec == Init /\ [][Next]_vars

-----------------------------------------------------------------------------
(* Memberships and grants belong to users, groups and collections that     *)
(* exist: one that is created again under its name inherits nothing.       *)
TypeOK ==
  /\ users \subseteq User \cup {PublicUser} /\ PublicUser \in users
  /\ {PublicGroup, AdminsGroup} \subseteq groups
  /\ \A g, h \in groups : g.name = h.name => g = h
  /\ \A k, l \in collections : k.name = l.name => k = l
  /\ groups \subseteq Ids(GroupName) /\ collections \subseteq Ids(CollectionName)
  /\ ids \in 0..MaxIds /\ \A k \in groups \cup collections : k.id <= ids
  /\ \A m \in members : m.user \in users /\ m.group \in groups
  /\ \A g \in grants : g.group \in groups /\ g.on \in Resources /\ g.permission \in Permission
  /\ req \in [Request -> Records]

(* The setup mode of login.  "The first user to log in" is an admin, and   *)
(* "all subsequent users are treated as standard users": whoever is in     *)
(* admins was put there by a request, or began a login when nobody else    *)
(* was registered (early, of which there can be several at once); and as   *)
(* soon as anybody is registered there is an admin, until one is removed.  *)
Bootstrap ==
  /\ \A m \in members : m.group = AdminsGroup => m.user \in early \cup appointed
  /\ users # {PublicUser} /\ ~dismissed => \E m \in members : m.group = AdminsGroup

(* The collection that was checked is gone, and a younger one of its name  *)
(* has its place: the handler looks the name up again.                     *)
Replaced(c) ==
  LET checked == req[c].checked
      on == req[c].on
  IN checked \notin Resources /\ on.name = checked.name /\ on.id > checked.id

(* The collection called "system" is deleted on a check of the system.     *)
Misnamed(c) == req[c].ask.op = "delete_collection" /\ req[c].ask.on = System

(* A request that changes groups, memberships, grants or a collection acts *)
(* on the very resource that was checked, and its user has at that moment  *)
(* the permission that the router asks for, although the names are looked  *)
(* up again after the check, whose queries saw different states; unless a  *)
(* membership or a grant was taken away while it ran.  Three requests are  *)
(* let through by the code, and named here: one whose collection was       *)
(* replaced after the check; one that deletes the collection called        *)
(* "system"; and create_collection, which nobody needs a permission for    *)
(* and whose grants are on its own collection, or on the system if it is   *)
(* called so.                                                              *)
OnlyWithPermission ==
  [][\A c \in Request :
       req[c].pc = "write" /\ req'[c].pc = "idle" /\ tables' # tables =>
         IF Open(req[c].ask)
         THEN \A g \in grants' \ grants :
                g.on \notin Resources \/ (req[c].ask.on = System /\ g.on = SystemResource)
         ELSE \/ Replaced(c)
              \/ /\ req[c].on = req[c].checked \/ Misnamed(c)
                 /\ req[c].shaken \/ Holds(req[c].user, Needed(req[c].ask), req[c].checked)]_vars
=============================================================================
