SPECIFICATION Spec
CONSTANTS
  u = u
  v = v
  c1 = c1
  c2 = c2
  User = {u, v}
  PublicUser = "nobody"
  Request = {c1, c2}
  Public = "public"
  Admins = "admins"
  System = "system"
  GroupName = {"public", "admins", "editors"}
  CollectionName = {"companies", "system"}
  Ask <- MCAsk
  MaxRequests = 4
  MaxIds = 3
SYMMETRY Symmetry
CHECK_DEADLOCK FALSE
INVARIANTS TypeOK Bootstrap
PROPERTIES OnlyWithPermission
