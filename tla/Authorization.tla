--------------------------- MODULE Authorization ---------------------------
(***************************************************************************)
(* Who may do what: claims and their validity (crates/auth/src/claims.rs), *)
(* the decision and its explanation (crates/auth/src/authorize.rs), and    *)
(* the mapping of roles to permissions the API uses for both               *)
(* (crates/api/src/authz.rs, crates/infra/src/projections/users.rs).       *)
(***************************************************************************)
EXTENDS Naturals

(* default_role_permissions.  Roles it does not know grant nothing. *)
RolePermissions ==
    [admin |-> {"*"},
     manager |-> {"inventory.read", "inventory.write", "products.read", "products.write",
                  "sales.read", "sales.write", "invoices.read", "invoices.write",
                  "purchases.read", "purchases.write", "parties.read", "parties.write",
                  "ledger.read", "admin.users.list", "admin.users.read"},
     accountant |-> {"inventory.read", "products.read", "sales.read", "purchases.read",
                     "parties.read", "ledger.read", "ledger.write", "invoices.read",
                     "invoices.write"},
     salesperson |-> {"parties.read", "parties.write", "products.read", "sales.read",
                      "sales.write", "invoices.read"},
     warehouse |-> {"inventory.read", "inventory.write", "products.read", "purchases.read",
                    "purchases.write"},
     user |-> {"inventory.read", "products.read"}]

DefaultRolePermissions(role) ==
    IF role \in DOMAIN RolePermissions THEN RolePermissions[role] ELSE {}

PermissionsFromRoles(roles) == UNION {DefaultRolePermissions(r) : r \in roles}

(* all_user_permissions, and those of the routes for products and parties. *)
AllUserPermissions ==
    {"admin.users.create", "admin.users.list", "admin.users.read", "admin.users.assign_role",
     "admin.users.revoke_role", "admin.users.suspend", "admin.users.activate"}

CatalogPermissions ==
    {"products.create", "products.activate", "products.archive",
     "customers.register", "customers.update", "customers.suspend",
     "suppliers.register", "suppliers.update", "suppliers.suspend"}

(* RbacRegistry::from_role_mapping: the permissions of the known roles. *)
RbacRegistry == [roles |-> DOMAIN RolePermissions,
                 permissions |-> PermissionsFromRoles(DOMAIN RolePermissions)]

-----------------------------------------------------------------------------
(* Mutant: the token is still good at the second it expires. *)
ValidateClaimsLate(claims, now) ==
    /\ claims.expires_at > claims.issued_at
    /\ now >= claims.issued_at
    /\ now <= claims.expires_at

(* validate_claims *)
ValidateClaims(claims, now) ==
    /\ claims.expires_at > claims.issued_at
    /\ now >= claims.issued_at
    /\ now < claims.expires_at

(* authorize_command builds the principal from the token: the tenant of    *)
(* the membership is the active one.                                       *)
PrincipalOf(claims) ==
    [active_tenant |-> claims.tenant, tenant |-> claims.tenant, roles |-> claims.roles,
     permissions |-> PermissionsFromRoles(claims.roles)]

Authorize(principal, required) ==
    /\ principal.active_tenant = principal.tenant
    /\ "*" \in principal.permissions \/ required \in principal.permissions

AuthorizeCommand(claims, required) ==
    \A permission \in required : Authorize(PrincipalOf(claims), permission)

(* Mutant: the wildcard is shown and does not count. *)
ExplainWithoutWildcard(principal, required) ==
    LET effective == PermissionsFromRoles(principal.roles) \cup principal.permissions IN
    IF principal.active_tenant # principal.tenant
    THEN [granted |-> FALSE, kind |-> "TenantMismatch"]
    ELSE IF required \in effective THEN [granted |-> TRUE, kind |-> "None"]
    ELSE [granted |-> FALSE, kind |-> "MissingPermission"]

(* explain_authorization unites the permissions of the roles anew. *)
ExplainAuthorization(principal, required) ==
    LET effective == PermissionsFromRoles(principal.roles) \cup principal.permissions IN
    IF principal.active_tenant # principal.tenant
    THEN [granted |-> FALSE, kind |-> "TenantMismatch"]
    ELSE IF {"*", required} \cap effective # {} THEN [granted |-> TRUE, kind |-> "None"]
    ELSE [granted |-> FALSE, kind |-> "MissingPermission"]

=============================================================================
