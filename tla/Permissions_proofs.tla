------------------------- MODULE Permissions_proofs -------------------------
(***************************************************************************)
(* Theorems about Permissions, for any number of users, requests, groups   *)
(* and collections.                                                        *)
(***************************************************************************)
EXTENDS Permissions, TLAPS

(* A login that found nobody else began when nobody else was registered,   *)
(* and one that found somebody can still find them.                        *)
Setup ==
  \A c \in Request :
    LET others == ~(users \subseteq {PublicUser, req[c].user})
    IN /\ req[c].pc = "counting" /\ ~others => req[c].user \in early
       /\ req[c].pc = "entering" /\ req[c].first => req[c].user \in early
       /\ req[c].pc = "entering" /\ ~req[c].first => others

(* What a request that reached its handler was asked for.                  *)
Asked(c) ==
  /\ req[c].pc = "write" /\ req[c].ask.op = "delete_group" =>
       req[c].group \notin {PublicGroup, AdminsGroup}
  /\ req[c].pc = "write" /\ req[c].ask.op = "add_member" => req[c].ask.who \in users
  /\ req[c].pc # "write" => req[c].on = SystemResource
  /\ req[c].ask.op = "create_group" => req[c].pc # "names" /\ req[c].on = SystemResource

(* A request that was let in goes on with a resource of the name that was  *)
(* checked: the same, or a younger one.                                    *)
Younger(k, checked) == k.name = checked.name /\ k.id > checked.id
LetInBy(c) == req[c].pc \in {"names", "write"} /\ ~Open(req[c].ask)
Named(c) ==
  LET checked == req[c].checked
      name == Resource(req[c].ask)
  IN /\ checked.name = name /\ checked.id \in 0..ids
     /\ name = System => checked = SystemResource
     /\ name # System =>
          \A k \in collections : k.name = name => k = checked \/ Younger(k, checked)
     /\ req[c].pc = "write" /\ ~Misnamed(c) =>
          \/ req[c].on = checked
          \/ name # System /\ Younger(req[c].on, checked)

(* What the check of a request found and nobody took away since.           *)
Found(c) ==
  \E g \in grants :
    /\ \E m \in members : m.user = req[c].user /\ m.group = g.group
    /\ g.permission \in Sufficient(Needed(req[c].ask))
    /\ g.on = req[c].checked
Stays(c) == Found(c) \/ req[c].checked \notin Resources

LetIn ==
  \A c \in Request :
    /\ LetInBy(c) => Named(c)
    /\ ~req[c].shaken =>
         /\ req[c].pc = "grants" => \A g \in req[c].held :
              \E m \in members : m.user = req[c].user /\ m.group = g
         /\ LetInBy(c) => Stays(c)

PermissionsInv ==
  /\ TypeOK /\ (\A k \in collections : k.id > 0)
  /\ (\A c \in Request : Asked(c)) /\ Setup /\ Bootstrap /\ LetIn

-----------------------------------------------------------------------------
LEMMA IdleTyped == Idle \in Records /\ Idle.pc = "idle" /\ Idle.on = SystemResource
BY PermissionsAssumption DEF Idle, Records, Ids, PublicGroup, SystemResource

LEMMA InitInv == Init => PermissionsInv
<1> SUFFICES ASSUME Init PROVE PermissionsInv
    OBVIOUS
<1>2. TypeOK
    BY IdleTyped, PermissionsAssumption
    DEF Init, TypeOK, Ids, PublicGroup, AdminsGroup, SystemResource, Resources, Permission
<1>3. \A c \in Request : Asked(c)
    BY DEF Init, Asked, Idle, NoAsk
<1>4. Setup /\ LetIn /\ \A k \in collections : k.id > 0
    BY DEF Init, Setup, LetIn, LetInBy, Idle
<1>5. Bootstrap
    BY PermissionsAssumption DEF Init, Bootstrap, PublicGroup, AdminsGroup
<1> QED
    BY <1>2, <1>3, <1>4, <1>5 DEF PermissionsInv

-----------------------------------------------------------------------------
(* A step that changes the record of one request, and no table.            *)
LEMMA MoveKeeps ==
  ASSUME PermissionsInv, NEW c \in Request, NEW rec \in Records,
         Becomes(c, rec), UNCHANGED <<users, tables, ids, appointed, dismissed>>,
         early' = early \/ early' = early \cup {req[c].user},
         Asked(c)', 
         LET others == ~(users \subseteq {PublicUser, rec.user})
         IN /\ rec.pc = "counting" /\ ~others => rec.user \in early'
            /\ rec.pc = "entering" /\ rec.first => rec.user \in early'
            /\ rec.pc = "entering" /\ ~rec.first => others,
         ~rec.shaken =>
           /\ rec.pc = "grants" => \A g \in rec.held :
                \E m \in members : m.user = rec.user /\ m.group = g
           /\ LetInBy(c)' => Stays(c)',
         LetInBy(c)' => Named(c)'
  PROVE  PermissionsInv'
<1>0. /\ req' \in [Request -> Records] /\ req'[c] = rec
      /\ \A d \in Request \ {c} : req'[d] = req[d]
      /\ users' = users /\ groups' = groups /\ collections' = collections
      /\ members' = members /\ grants' = grants /\ ids' = ids
    BY DEF PermissionsInv, TypeOK, Becomes, tables
<1>1. TypeOK'
    BY <1>0 DEF PermissionsInv, TypeOK, Resources
<1>2. ASSUME NEW d \in Request PROVE Asked(d)'
    <2>1. CASE d = c
        BY <2>1
    <2>2. CASE d # c
        BY <2>2, <1>0 DEF PermissionsInv, Asked
    <2> QED  BY <2>1, <2>2
<1>3. Setup'
    BY <1>0 DEF PermissionsInv, Setup
<1>4. Bootstrap'
    BY <1>0 DEF PermissionsInv, Bootstrap
<1>5. ASSUME NEW d \in Request
      PROVE  /\ LetInBy(d)' => Named(d)'
             /\ ~req'[d].shaken =>
                  /\ req'[d].pc = "grants" => \A g \in req'[d].held :
                       \E m \in members' : m.user = req'[d].user /\ m.group = g
                  /\ LetInBy(d)' => Stays(d)'
    <2>1. CASE d = c
        BY <2>1, <1>0
    <2>2. CASE d # c
        BY <2>2, <1>0
        DEF PermissionsInv, LetIn, LetInBy, Named, Misnamed, Stays, Found, Resources
    <2> QED  BY <2>1, <2>2
<1>6. LetIn' /\ \A k \in collections' : k.id > 0
    BY <1>0, <1>5 DEF LetIn, PermissionsInv
<1> QED
    BY <1>1, <1>2, <1>3, <1>4, <1>6 DEF PermissionsInv

(* The records that a request moves through.                               *)
LEMMA SendKeeps == ASSUME PermissionsInv, NEW c \in Request, Send(c) PROVE PermissionsInv'
<1>1. ASSUME NEW ask \in Ask, Becomes(c, [Idle EXCEPT !.pc = Entered(ask), !.ask = ask])
      PROVE  PermissionsInv'
    <2> DEFINE rec == [Idle EXCEPT !.pc = Entered(ask), !.ask = ask]
    <2>1. rec \in Records
        BY IdleTyped DEF Entered, Records
    <2>2. /\ rec.pc = (IF Open(ask) THEN "write" ELSE "groups") /\ rec.ask = ask
          /\ rec.on = SystemResource
        BY DEF Idle, Entered
    <2>3. Becomes(c, rec)
        BY <1>1
    <2>4. req'[c] = rec
        BY <2>3 DEF PermissionsInv, TypeOK, Becomes
    <2> HIDE DEF rec
    <2>5. Asked(c)' /\ ~LetInBy(c)'
        BY <2>2, <2>4 DEF Asked, Open, LetInBy
    <2> QED
        BY <2>1, <2>2, <2>3, <2>5, MoveKeeps DEF Send
<1>2. ASSUME NEW ask \in Ask, NEW user \in User,
             Becomes(c, [Idle EXCEPT !.pc = "login", !.user = user, !.ask = ask])
      PROVE  PermissionsInv'
    <2> DEFINE rec == [Idle EXCEPT !.pc = "login", !.user = user, !.ask = ask]
    <2>1. rec \in Records
        BY IdleTyped DEF Records
    <2>2. rec.pc = "login" /\ rec.on = SystemResource
        BY DEF Idle
    <2>3. Becomes(c, rec)
        BY <1>2
    <2>4. req'[c] = rec
        BY <2>3 DEF PermissionsInv, TypeOK, Becomes
    <2> HIDE DEF rec
    <2>5. Asked(c)' /\ ~LetInBy(c)'
        BY <2>2, <2>4 DEF Asked, LetInBy
    <2> QED
        BY <2>1, <2>2, <2>3, <2>5, MoveKeeps DEF Send
<1> QED
    BY <1>1, <1>2 DEF Send

LEMMA UpsertKeeps == ASSUME PermissionsInv, NEW c \in Request, Upsert(c) PROVE PermissionsInv'
<1> DEFINE rec == [req[c] EXCEPT !.pc = "counting"]
<1>1. req[c] \in Records
    BY DEF PermissionsInv, TypeOK
<1>2. /\ rec \in Records /\ rec.pc = "counting" /\ rec.user = req[c].user
      /\ rec.ask = req[c].ask /\ rec.on = req[c].on
    BY <1>1 DEF Records
<1>3. req'[c] = rec
    BY DEF PermissionsInv, TypeOK, Becomes, Upsert
<1> HIDE DEF rec
<1>4. Asked(c)' /\ ~LetInBy(c)'
    BY <1>2, <1>3 DEF Asked, LetInBy, PermissionsInv, Upsert
<1>5. /\ early' = early \/ early' = early \cup {req[c].user}
      /\ users \subseteq {PublicUser, rec.user} => rec.user \in early'
    BY <1>2 DEF Upsert
<1> QED
    BY <1>2, <1>4, <1>5, MoveKeeps DEF Upsert, rec

LEMMA CountOthersKeeps ==
  ASSUME PermissionsInv, NEW c \in Request, CountOthers(c) PROVE PermissionsInv'
<1> DEFINE rec == [req[c] EXCEPT !.pc = "entering",
                                 !.first = users \subseteq {PublicUser, req[c].user}]
<1>1. req[c] \in Records
    BY DEF PermissionsInv, TypeOK
<1>2. /\ rec \in Records /\ rec.pc = "entering" /\ rec.user = req[c].user
      /\ rec.ask = req[c].ask /\ rec.on = req[c].on
      /\ rec.first = (users \subseteq {PublicUser, rec.user})
    BY <1>1 DEF Records
<1>3. req'[c] = rec
    BY DEF PermissionsInv, TypeOK, Becomes, CountOthers
<1> HIDE DEF rec
<1>4. Asked(c)' /\ ~LetInBy(c)'
    BY <1>2, <1>3 DEF Asked, LetInBy, PermissionsInv, CountOthers
<1>5. rec.first => rec.user \in early
    BY <1>2 DEF CountOthers, PermissionsInv, Setup
<1> QED
    BY <1>2, <1>4, <1>5, MoveKeeps DEF CountOthers, Unchanged, rec

LEMMA RaiseKeeps == ASSUME PermissionsInv, NEW c \in Request, Raise(c) PROVE PermissionsInv'
<1>2. req'[c] = Idle
    BY DEF PermissionsInv, TypeOK, Becomes, Raise
<1>3. Asked(c)' /\ ~LetInBy(c)'
    BY IdleTyped, <1>2 DEF Asked, LetInBy
<1> QED
    BY IdleTyped, <1>3, MoveKeeps DEF Raise, Unchanged

LEMMA CheckGroupsKeeps ==
  ASSUME PermissionsInv, NEW c \in Request, CheckGroups(c) PROVE PermissionsInv'
<1> DEFINE rec == [req[c] EXCEPT !.pc = "grants", !.held = GroupsOf(req[c].user),
                                 !.shaken = FALSE]
<1>1. req[c] \in Records /\ GroupsOf(req[c].user) \in SUBSET Ids(GroupName)
    BY DEF PermissionsInv, TypeOK, GroupsOf
<1>2. /\ rec \in Records /\ rec.pc = "grants" /\ rec.user = req[c].user
      /\ rec.ask = req[c].ask /\ rec.on = req[c].on /\ rec.held = GroupsOf(rec.user)
    BY <1>1 DEF Records
<1>3. req'[c] = rec
    BY DEF PermissionsInv, TypeOK, Becomes, CheckGroups
<1> HIDE DEF rec
<1>4. Asked(c)' /\ ~LetInBy(c)'
    BY <1>2, <1>3 DEF Asked, LetInBy, PermissionsInv, CheckGroups
<1>5. \A g \in rec.held : \E m \in members : m.user = rec.user /\ m.group = g
    BY <1>2 DEF GroupsOf
<1> QED
    BY <1>2, <1>4, <1>5, MoveKeeps DEF CheckGroups, Unchanged, rec

LEMMA CheckGrantKeeps ==
  ASSUME PermissionsInv, NEW c \in Request, CheckGrant(c) PROVE PermissionsInv'
<1> PICK r \in Denoted(Resource(req[c].ask)) :
      /\ \E g \in grants : g.on = r /\ g.group \in req[c].held
                           /\ g.permission \in Sufficient(Needed(req[c].ask))
      /\ Becomes(c, [req[c] EXCEPT !.checked = r,
           !.pc = IF req[c].ask.op = "create_group" THEN "write" ELSE "names"])
    BY DEF CheckGrant
<1> DEFINE rec == [req[c] EXCEPT !.checked = r,
                     !.pc = IF req[c].ask.op = "create_group" THEN "write" ELSE "names"]
<1>0. /\ r \in Resources /\ r.name = Resource(req[c].ask)
      /\ Resource(req[c].ask) = System => r = SystemResource
    BY DEF Denoted, Collection, Resources, SystemResource
<1>1. req[c] \in Records /\ r \in Ids(CollectionName \cup {System}) /\ r.id \in 0..ids
    BY <1>0, PermissionsAssumption DEF PermissionsInv, TypeOK, Resources, SystemResource, Ids
<1>2. /\ rec \in Records /\ rec.user = req[c].user
      /\ rec.pc = (IF req[c].ask.op = "create_group" THEN "write" ELSE "names")
      /\ rec.ask = req[c].ask /\ rec.on = req[c].on /\ rec.shaken = req[c].shaken
      /\ rec.checked = r
    BY <1>1 DEF Records
<1>3. /\ req'[c] = rec /\ members' = members /\ grants' = grants
      /\ collections' = collections /\ ids' = ids
    BY DEF PermissionsInv, TypeOK, Becomes, CheckGrant, Unchanged, tables
<1> HIDE DEF rec
<1>4. Asked(c) /\ req[c].pc = "grants" /\ rec.on = SystemResource
    BY <1>2 DEF Asked, PermissionsInv, CheckGrant
<1>5. Asked(c)'
    BY <1>2, <1>3, <1>4 DEF Asked
<1>6. ASSUME ~rec.shaken PROVE Found(c)'
    <2>1. PICK g \in grants : /\ g.on = r /\ g.group \in req[c].held
                              /\ g.permission \in Sufficient(Needed(req[c].ask))
        OBVIOUS
    <2>2. \E m \in members : m.user = req[c].user /\ m.group = g.group
        BY <1>2, <1>4, <1>6, <2>1 DEF PermissionsInv, LetIn
    <2> QED
        BY <1>2, <1>3, <2>1, <2>2 DEF Found
<1>7. Named(c)'
    <2>1. Resource(rec.ask) # System =>
            \A k \in collections : k.name = Resource(rec.ask) => k = r
        BY <1>0, <1>2 DEF PermissionsInv, TypeOK, Resources, SystemResource
    <2>2. rec.pc = "write" => rec.on = r
        <3>1. rec.pc = "write" => Resource(req[c].ask) = System
            BY <1>2 DEF Resource, GroupOps
        <3> QED  BY <1>0, <1>4, <3>1
    <2> QED
        BY <1>0, <1>1, <1>2, <1>3, <2>1, <2>2 DEF Named
<1>8. /\ Becomes(c, rec) /\ UNCHANGED <<users, tables, ids, appointed, dismissed>>
      /\ early' = early /\ rec.pc \in {"names", "write"}
    BY <1>2 DEF CheckGrant, Unchanged, rec
<1> QED
    BY <1>2, <1>5, <1>6, <1>7, <1>8, MoveKeeps DEF Stays

LEMMA LookUpKeeps == ASSUME PermissionsInv, NEW c \in Request, LookUp(c) PROVE PermissionsInv'
<1> DEFINE ask == req[c].ask
<1> PICK g \in groups,
         r \in IF ask.op = "delete_collection" THEN Collection(ask.on) ELSE Denoted(Resource(ask)) :
      /\ g.name = ask.group
      /\ Becomes(c, [req[c] EXCEPT !.pc = "write", !.group = g, !.on = r])
    BY DEF LookUp
<1> DEFINE rec == [req[c] EXCEPT !.pc = "write", !.group = g, !.on = r]
<1>0. /\ r \in Resources /\ r.name = Resource(ask)
      /\ Resource(ask) = System /\ ~Misnamed(c) => r = SystemResource
      /\ Resource(ask) # System => r \in collections
    BY DEF Denoted, Collection, Resources, SystemResource, Misnamed, Resource, GroupOps
<1>1. req[c] \in Records /\ g \in Ids(GroupName) /\ r \in Ids(CollectionName \cup {System})
    BY <1>0, PermissionsAssumption DEF PermissionsInv, TypeOK, Resources, SystemResource, Ids
<1>2. /\ rec \in Records /\ rec.user = req[c].user /\ rec.pc = "write"
      /\ rec.ask = req[c].ask /\ rec.on = r /\ rec.group = g /\ rec.shaken = req[c].shaken
      /\ rec.checked = req[c].checked
    BY <1>1 DEF Records
<1>3. /\ req'[c] = rec /\ members' = members /\ grants' = grants /\ users' = users
      /\ collections' = collections /\ ids' = ids
    BY DEF PermissionsInv, TypeOK, Becomes, LookUp, Unchanged, tables
<1> HIDE DEF rec
<1>4. Asked(c) /\ req[c].pc = "names"
    BY DEF Asked, PermissionsInv, LookUp
<1>5. Asked(c)'
    BY <1>2, <1>3, <1>4 DEF Asked, LookUp, PublicGroup, AdminsGroup
<1>6. ASSUME ~Open(rec.ask) PROVE Named(c)' /\ (~rec.shaken => Stays(c)')
    <2>1. Named(c) /\ (~req[c].shaken => Stays(c))
        BY <1>2, <1>4, <1>6 DEF PermissionsInv, LetIn, LetInBy
    <2>2. Stays(c) => Stays(c)'
        BY <1>2, <1>3 DEF Stays, Found, Resources
    <2>3. Misnamed(c)' <=> Misnamed(c)
        BY <1>2, <1>3 DEF Misnamed
    <2>4. ~Misnamed(c) => \/ r = req[c].checked
                          \/ Resource(ask) # System /\ Younger(r, req[c].checked)
        BY <1>0, <2>1 DEF Named
    <2> QED
        BY <1>2, <1>3, <2>1, <2>2, <2>3, <2>4 DEF Named
<1>7. LetInBy(c)' => ~Open(rec.ask)
    BY <1>3 DEF LetInBy
<1> QED
    BY <1>2, <1>5, <1>6, <1>7, MoveKeeps DEF LookUp, Unchanged, rec

-----------------------------------------------------------------------------
(* The commit of a login.                                                  *)
LEMMA EnterKeeps == ASSUME PermissionsInv, NEW c \in Request, Enter(c) PROVE PermissionsInv'
<1> DEFINE user == req[c].user
           rec == IF req[c].ask.op = "login" THEN Idle
                  ELSE [req[c] EXCEPT !.pc = Entered(req[c].ask)]
<1>1. req[c] \in Records /\ req \in [Request -> Records]
    BY DEF PermissionsInv, TypeOK
<1>2. /\ rec \in Records /\ rec.pc \in {"idle", "groups", "write"}
      /\ rec.pc = "write" => Open(rec.ask)
      /\ rec.on = SystemResource
    BY <1>1, IdleTyped DEF Records, Entered, PermissionsInv, Asked, Enter
<1>3. /\ req' \in [Request -> Records] /\ req'[c] = rec
      /\ \A d \in Request \ {c} : req'[d] = req[d]
    BY <1>1, <1>2 DEF Becomes, Enter
<1>4. /\ users' = users \cup {user} /\ user \in User \cup {PublicUser}
      /\ members \subseteq members' /\ early' = early /\ appointed' = appointed
      /\ groups' = groups /\ collections' = collections /\ grants' = grants /\ ids' = ids
      /\ dismissed' = dismissed
      /\ \A m \in members' \ members :
           /\ m.user = user /\ m.group \in {PublicGroup, AdminsGroup}
           /\ m.group = AdminsGroup => req[c].first
      /\ req[c].first => \E m \in members' : m.group = AdminsGroup
    <2> DEFINE joined == {PublicGroup} \cup (IF req[c].first THEN {AdminsGroup} ELSE {})
               new == {[user |-> user, group |-> g] : g \in joined}
    <2>1. /\ users' = users \cup {user} /\ members' = members \cup new
          /\ UNCHANGED <<groups, collections, grants, ids, early, appointed, dismissed>>
        BY DEF Enter
    <2>2. user \in User \cup {PublicUser}
        BY <1>1 DEF Records
    <2>3. PublicGroup # AdminsGroup
        BY PermissionsAssumption DEF PublicGroup, AdminsGroup
    <2>4. \A m \in new : /\ m.user = user /\ m.group \in {PublicGroup, AdminsGroup}
                         /\ m.group = AdminsGroup => req[c].first
        BY <2>3
    <2>5. ASSUME req[c].first PROVE \E m \in new : m.group = AdminsGroup
        <3>1. [user |-> user, group |-> AdminsGroup] \in new
            BY <2>5
        <3> QED  BY <3>1
    <2> HIDE DEF new
    <2> QED
        BY <2>1, <2>2, <2>4, <2>5
<1> HIDE DEF rec
<1>5. TypeOK'
    BY <1>3, <1>4 DEF PermissionsInv, TypeOK, Resources
<1>6. ASSUME NEW d \in Request PROVE Asked(d)'
    <2>1. CASE d = c
        BY <2>1, <1>2, <1>3 DEF Asked, Open
    <2>2. CASE d # c
        BY <2>2, <1>3, <1>4 DEF PermissionsInv, Asked
    <2> QED  BY <2>1, <2>2
<1>7. Setup'
    <2> SUFFICES ASSUME NEW d \in Request
        PROVE  LET others == ~(users' \subseteq {PublicUser, req'[d].user})
               IN /\ req'[d].pc = "counting" /\ ~others => req'[d].user \in early'
                  /\ req'[d].pc = "entering" /\ req'[d].first => req'[d].user \in early'
                  /\ req'[d].pc = "entering" /\ ~req'[d].first => others
        BY DEF Setup
    <2>1. CASE d = c
        BY <2>1, <1>2, <1>3
    <2>2. CASE d # c
        BY <2>2, <1>3, <1>4 DEF PermissionsInv, Setup
    <2> QED  BY <2>1, <2>2
<1>8. Bootstrap'
    <2>1. ASSUME NEW m \in members', m.group = AdminsGroup PROVE m.user \in early' \cup appointed'
        BY <2>1, <1>4 DEF PermissionsInv, Bootstrap, Setup, Enter
    <2>2. ASSUME ~dismissed' PROVE \E m \in members' : m.group = AdminsGroup
        <3>1. CASE req[c].first
            BY <3>1, <1>4
        <3>2. CASE ~req[c].first
            BY <3>2, <2>2, <1>4 DEF PermissionsInv, Bootstrap, Setup, Enter
        <3> QED  BY <3>1, <3>2
    <2> QED
        BY <2>1, <2>2 DEF Bootstrap
<1>9. LetIn' /\ \A k \in collections' : k.id > 0
    <2>1. ASSUME NEW d \in Request
          PROVE  /\ LetInBy(d)' => Named(d)'
                 /\ ~req'[d].shaken =>
                      /\ req'[d].pc = "grants" => \A g \in req'[d].held :
                           \E m \in members' : m.user = req'[d].user /\ m.group = g
                      /\ LetInBy(d)' => Stays(d)'
        <3>1. CASE d = c
            BY <3>1, <1>2, <1>3 DEF LetInBy
        <3>2. CASE d # c
            BY <3>2, <1>3, <1>4
            DEF PermissionsInv, LetIn, LetInBy, Named, Misnamed, Stays, Found, Resources
        <3> QED  BY <3>1, <3>2
    <2> QED
        BY <1>4, <2>1 DEF LetIn, PermissionsInv
<1> QED
    BY <1>5, <1>6, <1>7, <1>8, <1>9 DEF PermissionsInv

-----------------------------------------------------------------------------
(* What a write leaves to the other requests, whatever the operation.      *)
LEMMA WriteKeeps ==
  ASSUME PermissionsInv, NEW c \in Request, NEW G, NEW K, NEW M, NEW R,
         Write(c, G, K, M, R), ids' \in Nat, ids <= ids',
         \A k \in K \ collections : k.id \in Nat /\ k.id > ids
  PROVE  /\ req' \in [Request -> Records]
         /\ \A d \in Request : Asked(d)'
         /\ Setup' /\ LetIn' /\ \A k \in collections' : k.id > 0
<1> DEFINE Other(d) == [req[d] EXCEPT !.shaken = req[d].shaken \/ Shakes(d, K, M, R)]
<1>1. ASSUME NEW d \in Request
      PROVE  /\ req'[d] \in Records
             /\ \/ req'[d] = Idle
                \/ /\ req'[d].pc = req[d].pc /\ req'[d].user = req[d].user
                   /\ req'[d].ask = req[d].ask /\ req'[d].held = req[d].held
                   /\ req'[d].first = req[d].first /\ req'[d].checked = req[d].checked
                   /\ req'[d].group = req[d].group /\ req'[d].on = req[d].on
                   /\ ~req'[d].shaken => ~req[d].shaken /\ ~Shakes(d, K, M, R)
    <2>1. req[d] \in Records
        BY DEF PermissionsInv, TypeOK
    <2>2. CASE d = c \/ req[d].pc = "idle"
        BY <2>2, IdleTyped DEF Write
    <2>3. CASE ~(d = c \/ req[d].pc = "idle")
        <3>1. req'[d] = Other(d)
            BY <2>3 DEF Write
        <3>2. (req[d].shaken \/ Shakes(d, K, M, R)) \in BOOLEAN
            BY <2>1 DEF Records, Shakes
        <3> DEFINE shaken == req[d].shaken \/ Shakes(d, K, M, R)
        <3>3. Other(d) = [req[d] EXCEPT !.shaken = shaken] /\ shaken \in BOOLEAN
            BY <3>2
        <3>4. ~shaken => ~req[d].shaken /\ ~Shakes(d, K, M, R)
            OBVIOUS
        <3> HIDE DEF shaken
        <3> QED
            BY <2>1, <3>1, <3>3, <3>4 DEF Records
    <2> QED
        BY <2>2, <2>3
<1>2. req' \in [Request -> Records]
    BY <1>1 DEF Write
<1>3. /\ users' = users /\ early' = early /\ members' = M /\ grants' = R /\ collections' = K
    BY DEF Write
<1>4. ASSUME NEW d \in Request PROVE Asked(d)'
    BY <1>1, <1>3, IdleTyped DEF PermissionsInv, Asked
<1>5. Setup'
    BY <1>1, <1>3, IdleTyped DEF PermissionsInv, Setup
<1>6. /\ ids \in Nat /\ \A k \in collections : k.id \in Nat /\ k.id > 0
      /\ \A d \in Request : req[d].on.id \in Nat
    BY PermissionsAssumption DEF PermissionsInv, TypeOK, Ids, Records
<1>7. ASSUME NEW d \in Request, LetInBy(d)'
      PROVE  Named(d)' /\ (~req'[d].shaken => Stays(d)')
    <2>1. /\ req'[d].pc = req[d].pc /\ req'[d].user = req[d].user
          /\ req'[d].ask = req[d].ask /\ req'[d].on = req[d].on
          /\ req'[d].checked = req[d].checked
          /\ ~req'[d].shaken => ~req[d].shaken /\ ~Shakes(d, K, M, R)
        BY <1>1, <1>7, IdleTyped DEF LetInBy
    <2>2. LetInBy(d) /\ Named(d)
        BY <1>7, <2>1 DEF LetInBy, PermissionsInv, LetIn
    <2>3. req[d].checked.id \in Nat /\ req[d].checked.id <= ids
        BY <1>6, <2>2 DEF Named
    <2>4. \A k \in K \ collections : k.id > req[d].checked.id /\ k # req[d].checked
        BY <1>6, <2>3
    <2>5. Named(d)'
        <3>1. ASSUME Resource(req[d].ask) # System, NEW k \in K, k.name = Resource(req[d].ask)
              PROVE  k = req[d].checked \/ Younger(k, req[d].checked)
            <4>1. CASE k \in collections
                BY <2>2, <3>1, <4>1 DEF Named
            <4>2. CASE k \notin collections
                BY <2>2, <2>4, <3>1, <4>2 DEF Named, Younger
            <4> QED  BY <4>1, <4>2
        <3>2. req[d].checked.id \in 0..ids'
            BY <1>6, <2>3
        <3> QED
            BY <1>3, <2>1, <2>2, <3>1, <3>2 DEF Named, Misnamed
    <2>6. ASSUME ~req'[d].shaken PROVE Stays(d)'
        <3>1. Stays(d) /\ ~Shakes(d, K, M, R) /\ req[d].pc \in {"names", "write"}
            BY <2>1, <2>2, <2>6 DEF PermissionsInv, LetIn, LetInBy
        <3>2. CASE req[d].checked \in K \cup {SystemResource}
            <4>1. req[d].checked \in Resources
                BY <2>4, <3>2 DEF Resources
            <4>2. PICK g \in grants :
                    /\ \E m \in members : m.user = req[d].user /\ m.group = g.group
                    /\ g.permission \in Sufficient(Needed(req[d].ask))
                    /\ g.on = req[d].checked
                BY <3>1, <4>1 DEF Stays, Found
            <4>3. g \in R /\ \A m \in members : m.user = req[d].user => m \in M
                BY <3>1, <3>2, <4>2 DEF Shakes
            <4> QED
                BY <1>3, <2>1, <4>2, <4>3 DEF Stays, Found
        <3>3. CASE req[d].checked \notin K \cup {SystemResource}
            BY <1>3, <2>1, <3>3 DEF Stays, Resources
        <3> QED  BY <3>2, <3>3
    <2> QED  BY <2>5, <2>6
<1>8. ASSUME NEW d \in Request, ~req'[d].shaken, req'[d].pc = "grants", NEW g \in req'[d].held
      PROVE  \E m \in members' : m.user = req'[d].user /\ m.group = g
    <2>1. /\ req'[d].pc = req[d].pc /\ req'[d].user = req[d].user /\ req'[d].held = req[d].held
          /\ ~req[d].shaken /\ ~Shakes(d, K, M, R)
        BY <1>1, <1>8, IdleTyped
    <2>2. PICK m \in members : m.user = req[d].user /\ m.group = g
        BY <1>8, <2>1 DEF PermissionsInv, LetIn
    <2> QED
        BY <1>3, <2>1, <2>2 DEF Shakes
<1>9. LetIn' /\ \A k \in collections' : k.id > 0
    BY <1>3, <1>6, <1>7, <1>8 DEF LetIn
<1> QED
    BY <1>2, <1>4, <1>5, <1>9

(* Members of admins come from setup logins and requests, and while nobody *)
(* was removed they all stay.                                              *)
LEMMA AdminsKeep ==
  ASSUME PermissionsInv, NEW c \in Request, Handler(c)
  PROVE  Bootstrap'
<1>1. users' = users /\ early' = early
    BY DEF Handler, CreateGroup, DeleteGroup, AddMember, RemoveMember, CreateCollection,
           DeleteCollection, GrantPermission, RevokePermission, Write
<1>2. CASE members' = members /\ Ghosts
    BY <1>1, <1>2 DEF PermissionsInv, Bootstrap, Ghosts
<1>3. CASE DeleteGroup(c)
    <2>1. members' = {m \in members : m.group # req[c].group} /\ Ghosts
        BY <1>3 DEF DeleteGroup, Write
    <2>2. req[c].group # AdminsGroup
        BY <1>3 DEF PermissionsInv, Asked, DeleteGroup, Writes
    <2> QED
        BY <1>1, <2>1, <2>2 DEF PermissionsInv, Bootstrap, Ghosts
<1>4. CASE AddMember(c)
    <2> DEFINE new == [user |-> req[c].ask.who, group |-> req[c].group]
    <2>1. /\ members' = members \cup {new} /\ dismissed' = dismissed
          /\ appointed' = IF req[c].group = AdminsGroup THEN appointed \cup {req[c].ask.who}
                          ELSE appointed
        BY <1>4 DEF AddMember, Write
    <2>2. new.user = req[c].ask.who /\ new.group = req[c].group
        OBVIOUS
    <2> HIDE DEF new
    <2> QED
        BY <1>1, <2>1, <2>2 DEF PermissionsInv, Bootstrap
<1>5. CASE RemoveMember(c)
    <2> DEFINE old == [user |-> req[c].ask.who, group |-> req[c].group]
    <2>1. /\ members' = members \ {old} /\ appointed' = appointed
          /\ dismissed' = (dismissed \/ req[c].group = AdminsGroup)
        BY <1>5 DEF RemoveMember, Write
    <2>2. old.group = req[c].group
        OBVIOUS
    <2> HIDE DEF old
    <2> QED
        BY <1>1, <2>1, <2>2 DEF PermissionsInv, Bootstrap
<1> QED
    BY <1>2, <1>3, <1>4, <1>5
    DEF Handler, CreateGroup, CreateCollection, DeleteCollection, GrantPermission,
        RevokePermission, Write

(* Names stay unique, and what is taken away goes with what refers to it.  *)
LEMMA HandlerTyped ==
  ASSUME PermissionsInv, NEW c \in Request, Handler(c), req' \in [Request -> Records]
  PROVE  TypeOK'
<1> USE DEF PermissionsInv
<1>0. req[c] \in Records /\ req[c].ask \in Ask \cup {NoAsk}
    BY DEF TypeOK, Records
<1>1. CASE CreateGroup(c)
    <2> DEFINE new == [name |-> req[c].ask.group, id |-> ids + 1]
    <2>1. /\ groups' = groups \cup {new} /\ collections' = collections /\ users' = users
          /\ members' = members /\ grants' = grants /\ ids' = ids + 1 /\ ids < MaxIds
          /\ \A g \in groups : g.name # req[c].ask.group
        BY <1>1 DEF CreateGroup, Write, Fresh
    <2>2. /\ new \in Ids(GroupName) /\ new.name = req[c].ask.group /\ new.id = ids'
          /\ ids' \in 0..MaxIds
        BY <1>0, <2>1, PermissionsAssumption DEF TypeOK, Ids, NoAsk
    <2>3. \A k \in groups \cup collections : k.id <= ids'
        BY <2>1, PermissionsAssumption DEF TypeOK, Ids
    <2> HIDE DEF new
    <2> QED
        BY <2>1, <2>2, <2>3, PermissionsAssumption DEF TypeOK, Resources
<1>2. CASE DeleteGroup(c)
    <2>1. /\ groups' = groups \ {req[c].group} /\ collections' = collections /\ users' = users
          /\ members' = {m \in members : m.group # req[c].group}
          /\ grants' = {g \in grants : g.group # req[c].group} /\ ids' = ids
        BY <1>2 DEF DeleteGroup, Write
    <2>2. req[c].group \notin {PublicGroup, AdminsGroup}
        BY <1>2 DEF Asked, DeleteGroup, Writes
    <2> QED
        BY <2>1, <2>2 DEF TypeOK, Resources
<1>3. CASE AddMember(c)
    <2> DEFINE new == [user |-> req[c].ask.who, group |-> req[c].group]
    <2>1. /\ groups' = groups /\ collections' = collections /\ users' = users
          /\ members' = members \cup {new} /\ grants' = grants /\ ids' = ids
          /\ req[c].group \in groups
        BY <1>3 DEF AddMember, Write
    <2>2. new.user \in users /\ new.group \in groups
        BY <1>3, <2>1 DEF Asked, AddMember, Writes
    <2> HIDE DEF new
    <2> QED
        BY <2>1, <2>2 DEF TypeOK, Resources
<1>4. CASE RemoveMember(c)
    <2>1. /\ groups' = groups /\ collections' = collections /\ users' = users
          /\ members' \subseteq members /\ grants' = grants /\ ids' = ids
        BY <1>4 DEF RemoveMember, Write
    <2> QED
        BY <2>1 DEF TypeOK, Resources
<1>5. CASE CreateCollection(c)
    <2> DEFINE new == [name |-> req[c].ask.on, id |-> ids + 1]
               on == IF req[c].ask.on = System THEN SystemResource ELSE new
               first(g) == [group |-> g, permission |-> req[c].ask.permission, on |-> on]
    <2>1. PICK g \in groups :
             /\ groups' = groups /\ collections' = collections \cup {new} /\ users' = users
             /\ members' = members /\ grants' = grants \cup {first(g)}
             /\ ids' = ids + 1 /\ ids < MaxIds
             /\ \A k \in collections : k.name # req[c].ask.on
        BY <1>5 DEF CreateCollection, Collection, Write, Fresh
    <2>2. req[c].ask.op = "create_collection" /\ req[c].ask \in Ask
        BY <1>0, <1>5 DEF CreateCollection, Writes, NoAsk
    <2>3. req[c].ask.on \in CollectionName /\ req[c].ask.permission \in Permission
        BY <2>2, PermissionsAssumption
    <2>4. /\ new \in Ids(CollectionName) /\ new.name = req[c].ask.on /\ new.id = ids'
          /\ ids' \in 0..MaxIds
        BY <2>1, <2>3, PermissionsAssumption DEF TypeOK, Ids
    <2>5. \A k \in groups \cup collections : k.id <= ids'
        BY <2>1, PermissionsAssumption DEF TypeOK, Ids
    <2>6. /\ first(g).group = g /\ first(g).on \in {new, SystemResource}
          /\ first(g).permission \in Permission
        BY <2>3
    <2> HIDE DEF new, first, on
    <2> QED
        BY <2>1, <2>4, <2>5, <2>6, PermissionsAssumption DEF TypeOK, Resources
<1>6. CASE DeleteCollection(c)
    <2>1. /\ groups' = groups /\ collections' = collections \ {req[c].on} /\ users' = users
          /\ members' = members /\ grants' = {g \in grants : g.on # req[c].on} /\ ids' = ids
        BY <1>6 DEF DeleteCollection, Write
    <2> QED
        BY <2>1 DEF TypeOK, Resources
<1>7. CASE GrantPermission(c)
    <2> DEFINE new == [group |-> req[c].group, permission |-> req[c].ask.permission,
                       on |-> req[c].on]
    <2>1. /\ groups' = groups /\ collections' = collections /\ users' = users
          /\ members' = members /\ grants' = grants \cup {new} /\ ids' = ids
          /\ req[c].group \in groups /\ req[c].on \in Resources
        BY <1>7 DEF GrantPermission, Write
    <2>2. /\ new.group \in groups /\ new.on \in Resources /\ new.permission \in Permission
        BY <1>0, <2>1, PermissionsAssumption DEF NoAsk, Permission
    <2> HIDE DEF new
    <2> QED
        BY <2>1, <2>2 DEF TypeOK, Resources
<1>8. CASE RevokePermission(c)
    <2>1. /\ groups' = groups /\ collections' = collections /\ users' = users
          /\ members' = members /\ grants' \subseteq grants /\ ids' = ids
        BY <1>8 DEF RevokePermission, Write
    <2> QED
        BY <2>1 DEF TypeOK, Resources
<1> QED
    BY <1>1, <1>2, <1>3, <1>4, <1>5, <1>6, <1>7, <1>8 DEF Handler

(* Ids are given out once.                                                 *)
LEMMA HandlerWrites ==
  ASSUME PermissionsInv, NEW c \in Request, Handler(c)
  PROVE  \E G, K, M, R : /\ Write(c, G, K, M, R) /\ ids' \in Nat /\ ids <= ids'
                         /\ \A k \in K \ collections : k.id \in Nat /\ k.id > ids
<1>1. ids \in Nat
    BY PermissionsAssumption DEF PermissionsInv, TypeOK
<1>2. CASE CreateGroup(c)
    BY <1>1, <1>2 DEF CreateGroup, Fresh
<1>3. CASE CreateCollection(c)
    <2> DEFINE new == [name |-> req[c].ask.on, id |-> ids + 1]
    <2>1. ids' = ids + 1 /\ \E R : Write(c, groups, collections \cup {new}, members, R)
        BY <1>3 DEF CreateCollection, Fresh
    <2>2. new.id = ids + 1
        OBVIOUS
    <2> HIDE DEF new
    <2> QED  BY <1>1, <2>1, <2>2
<1>4. CASE ids' = ids /\ \E G, M, R : \E K \in SUBSET collections : Write(c, G, K, M, R)
    BY <1>1, <1>4
<1>5. DeleteGroup(c) \/ AddMember(c) \/ RemoveMember(c) \/ DeleteCollection(c)
      \/ GrantPermission(c) \/ RevokePermission(c) =>
        ids' = ids /\ \E G, M, R : \E K \in SUBSET collections : Write(c, G, K, M, R)
    BY DEF DeleteGroup, AddMember, RemoveMember, DeleteCollection, GrantPermission,
           RevokePermission
<1> QED
    BY <1>2, <1>3, <1>4, <1>5 DEF Handler

LEMMA HandlerKeeps == ASSUME PermissionsInv, NEW c \in Request, Handler(c) PROVE PermissionsInv'
<1>1. PICK G, K, M, R : /\ Write(c, G, K, M, R) /\ ids' \in Nat /\ ids <= ids'
                        /\ \A k \in K \ collections : k.id \in Nat /\ k.id > ids
    BY HandlerWrites
<1>2. /\ req' \in [Request -> Records]
      /\ \A d \in Request : Asked(d)'
      /\ Setup' /\ LetIn' /\ \A k \in collections' : k.id > 0
    BY <1>1, WriteKeeps
<1> QED
    BY <1>2, AdminsKeep, HandlerTyped DEF PermissionsInv

LEMMA NextInv == PermissionsInv /\ [Next]_vars => PermissionsInv'
<1> SUFFICES ASSUME PermissionsInv, [Next]_vars PROVE PermissionsInv'
    OBVIOUS
<1>1. ASSUME NEW c \in Request,
             \/ Send(c) \/ Upsert(c) \/ CountOthers(c) \/ Enter(c)
             \/ CheckGroups(c) \/ CheckGrant(c) \/ LookUp(c) \/ Raise(c)
             \/ Handler(c)
      PROVE  PermissionsInv'
    BY <1>1, SendKeeps, UpsertKeeps, CountOthersKeeps, EnterKeeps, CheckGroupsKeeps,
       CheckGrantKeeps, LookUpKeeps, RaiseKeeps, HandlerKeeps
<1>2. CASE UNCHANGED vars
    BY <1>2 DEF vars, tables, PermissionsInv, TypeOK, Resources, Asked, Setup, Bootstrap,
                LetIn, LetInBy, Named, Misnamed, Stays, Found
<1> QED
    BY <1>1, <1>2 DEF Next

(* A request that is done with its write, and changed a table by it, is    *)
(* the one whose handler ran.                                              *)
LEMMA HandlerRan ==
  ASSUME PermissionsInv, [Next]_vars, NEW c \in Request,
         req[c].pc = "write", req'[c].pc = "idle", tables' # tables
  PROVE  Handler(c)
<1>1. PICK d \in Request : Enter(d) \/ Handler(d)
    BY DEF Next, vars, Send, Upsert, CountOthers, CheckGroups, CheckGrant, LookUp, Raise,
           Unchanged
<1>2. CASE Enter(d)
    <2>1. d # c
        BY <1>2 DEF Enter
    <2>2. req'[c] = req[c]
        BY <1>2, <2>1 DEF Enter, Becomes, PermissionsInv, TypeOK
    <2> QED  BY <2>2
<1>3. ASSUME Handler(d), d # c PROVE FALSE
    <2>1. PICK G, K, M, R : Write(d, G, K, M, R)
        BY <1>3, HandlerWrites
    <2> DEFINE shaken == req[c].shaken \/ Shakes(c, K, M, R)
    <2>2. req'[c] = [req[c] EXCEPT !.shaken = shaken]
        BY <1>3, <2>1 DEF Write
    <2>3. req[c] \in Records
        BY DEF PermissionsInv, TypeOK
    <2> HIDE DEF shaken
    <2> QED  BY <2>2, <2>3 DEF Records
<1> QED
    BY <1>1, <1>2, <1>3

(* create_collection grants on what it creates, or on the system.          *)
LEMMA OpenGrants ==
  ASSUME PermissionsInv, NEW c \in Request, Handler(c), Open(req[c].ask),
         NEW g \in grants' \ grants
  PROVE  g.on \notin Resources \/ (req[c].ask.on = System /\ g.on = SystemResource)
<1> DEFINE name == req[c].ask.on
           new == [name |-> name, id |-> ids + 1]
           on == IF name = System THEN SystemResource ELSE new
<1>1. CreateCollection(c)
    BY DEF Handler, Open, CreateGroup, DeleteGroup, AddMember, RemoveMember, DeleteCollection,
           GrantPermission, RevokePermission, Writes
<1>2. g.on = on
    <2>1. PICK h \in groups :
            grants' = grants \cup {[group |-> h, permission |-> req[c].ask.permission, on |-> on]}
        BY <1>1 DEF CreateCollection, Write
    <2> HIDE DEF on
    <2> QED  BY <2>1
<1>3. new \notin Resources
    <2>1. ids \in Nat /\ \A k \in collections : k.id \in Nat /\ k.id <= ids
        BY PermissionsAssumption DEF PermissionsInv, TypeOK, Ids
    <2>2. new.id = ids + 1 /\ SystemResource.id = 0
        BY DEF SystemResource
    <2> HIDE DEF new
    <2> QED  BY <2>1, <2>2 DEF Resources
<1> HIDE DEF new
<1> QED
    BY <1>2, <1>3

(* What a handler of the others changes is on a resource that exists.      *)
LEMMA ActsOnWhatExists ==
  ASSUME PermissionsInv, NEW c \in Request, Handler(c), ~Open(req[c].ask), tables' # tables
  PROVE  req[c].on \in Resources
<1>1. Named(c) /\ Asked(c) /\ req[c].pc = "write" /\ \A g \in grants : g.on \in Resources
    BY DEF PermissionsInv, LetIn, LetInBy, TypeOK, Handler, CreateGroup, DeleteGroup, AddMember,
           RemoveMember, CreateCollection, DeleteCollection, GrantPermission, RevokePermission,
           Writes
<1>2. CASE req[c].ask.op \in GroupOps
    <2>1. Resource(req[c].ask) = System /\ ~Misnamed(c)
        BY <1>2 DEF Resource, Misnamed, GroupOps
    <2> QED  BY <1>1, <2>1 DEF Named, Resources
<1>3. CASE DeleteCollection(c)
    <2>1. ASSUME req[c].on \notin Resources PROVE tables' = tables
        BY <1>1, <1>3, <2>1 DEF DeleteCollection, Write, tables, Resources
    <2> QED  BY <2>1
<1>4. CASE GrantPermission(c)
    BY <1>4 DEF GrantPermission
<1>5. CASE RevokePermission(c)
    <2> DEFINE old == [group |-> req[c].group, permission |-> req[c].ask.permission,
                       on |-> req[c].on]
    <2>1. /\ groups' = groups /\ collections' = collections /\ members' = members
          /\ grants' = grants \ {old}
        BY <1>5 DEF RevokePermission, Write
    <2>2. old.on = req[c].on
        OBVIOUS
    <2> HIDE DEF old
    <2>3. old \in grants
        BY <2>1 DEF tables
    <2> QED  BY <1>1, <2>2, <2>3
<1> QED
    BY <1>2, <1>3, <1>4, <1>5
    DEF Handler, Open, GroupOps, CreateGroup, DeleteGroup, AddMember, RemoveMember,
        CreateCollection, Writes

LEMMA HandlerHolds ==
  ASSUME PermissionsInv, NEW c \in Request, req[c].pc = "write", ~Open(req[c].ask),
         req[c].on \in Resources
  PROVE  \/ Replaced(c)
         \/ /\ req[c].on = req[c].checked \/ Misnamed(c)
            /\ req[c].shaken \/ Holds(req[c].user, Needed(req[c].ask), req[c].checked)
<1> DEFINE checked == req[c].checked
           on == req[c].on
<1>1. Named(c) /\ (~req[c].shaken => Stays(c))
    BY DEF PermissionsInv, LetIn, LetInBy
<1>2. Found(c) => Holds(req[c].user, Needed(req[c].ask), checked)
    BY DEF Found, Holds
<1>3. CASE checked \in Resources
    <2>1. ASSUME ~Misnamed(c), on # checked PROVE FALSE
        <3>1. on.name = checked.name /\ checked.name # System
            BY <1>1, <2>1 DEF Named, Younger
        <3> QED
            BY <1>3, <2>1, <3>1 DEF PermissionsInv, TypeOK, Resources, SystemResource
    <2> QED
        BY <1>1, <1>2, <1>3, <2>1 DEF Stays
<1>4. CASE checked \notin Resources
    <2>1. checked # SystemResource /\ on # checked /\ ~Misnamed(c)
        BY <1>1, <1>4 DEF Resources, Named, Misnamed, Resource, GroupOps
    <2> QED
        BY <1>1, <1>4, <2>1 DEF Named, Younger, Replaced
<1> QED
    BY <1>3, <1>4

LEMMA StepPermitted == PermissionsInv /\ [Next]_vars =>
  \A c \in Request :
    req[c].pc = "write" /\ req'[c].pc = "idle" /\ tables' # tables =>
      IF Open(req[c].ask)
      THEN \A g \in grants' \ grants :
             g.on \notin Resources \/ (req[c].ask.on = System /\ g.on = SystemResource)
      ELSE \/ Replaced(c)
           \/ /\ req[c].on = req[c].checked \/ Misnamed(c)
              /\ req[c].shaken \/ Holds(req[c].user, Needed(req[c].ask), req[c].checked)
BY HandlerRan, OpenGrants, ActsOnWhatExists, HandlerHolds

-----------------------------------------------------------------------------
(* The invariant of every state: what a login, a check and a handler know  *)
(* of the tables while others change them; what a collection is called     *)
(* does not matter.                                                        *)
THEOREM PermissionsInvariant == Spec => []PermissionsInv
<1> QED
    BY InitInv, NextInv, PTL DEF Spec

(* Memberships and grants belong to users, groups and collections that     *)
(* exist, and names are unique, whatever is deleted and created again.     *)
THEOREM PermissionsTyped == Spec => []TypeOK
<1>1. PermissionsInv => TypeOK
    BY DEF PermissionsInv
<1> QED
    BY <1>1, PermissionsInvariant, PTL

(* Only a login that began when nobody else was registered, or a request   *)
(* that was let in, makes an admin; and somebody is one from the first     *)
(* login on, until one is removed.                                         *)
THEOREM BootstrapHolds == Spec => []Bootstrap
<1>1. PermissionsInv => Bootstrap
    BY DEF PermissionsInv
<1> QED
    BY <1>1, PermissionsInvariant, PTL

(* A change is made on the very resource that was checked, by a user who   *)
(* has the permission that the router asks for on it, unless a membership  *)
(* or a grant was taken away while the request ran.  Without a permission  *)
(* for what they change are create_collection, and requests whose          *)
(* collection was replaced by a younger one of its name (Replaced) or is   *)
(* called "system" (Misnamed).                                             *)
THEOREM ChangesArePermitted == Spec => OnlyWithPermission
<1> QED
    BY PermissionsInvariant, StepPermitted, PTL DEF Spec, OnlyWithPermission
=============================================================================
