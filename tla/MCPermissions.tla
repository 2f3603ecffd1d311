--------------------------- MODULE MCPermissions ---------------------------
(* Two users and whoever has no token, two requests at a time, a group of  *)
(* editors and a collection, both of which may be deleted and made again,  *)
(* and a collection that is called "system".                               *)
EXTENDS Permissions, TLC
CONSTANTS u, v, c1, c2

Asked(op, group, who, on, permission) ==
  [op |-> op, group |-> group, who |-> who, on |-> on, permission |-> permission]

MCAsk ==
  {Asked("login", "public", "nobody", "system", "read"),
   Asked("create_group", "editors", "nobody", "system", "read"),
   Asked("delete_group", "editors", "nobody", "system", "read"),
   Asked("add_member", "editors", v, "system", "read"),
   Asked("add_member", "admins", v, "system", "read"),
   Asked("remove_member", "admins", u, "system", "read"),
   Asked("create_collection", "editors", "nobody", "companies", "write"),
   Asked("delete_collection", "public", "nobody", "companies", "read"),
   Asked("create_collection", "public", "nobody", "companies", "admin"),
   Asked("grant_permission", "editors", "nobody", "companies", "admin"),
   Asked("revoke_permission", "public", "nobody", "companies", "admin"),
   Asked("grant_permission", "editors", "nobody", "system", "admin"),
   Asked("create_collection", "editors", "nobody", "system", "admin"),
   Asked("delete_collection", "public", "nobody", "system", "read")}

Symmetry == Permutations({c1, c2})
=============================================================================
