-------------------------------- MODULE User --------------------------------
(***************************************************************************)
(* The User aggregate (crates/auth/src/user.rs) and its row in the user    *)
(* directory (crates/infra/src/projections/users.rs).  Roles are a set:    *)
(* every test and every removal looks at all of the vector's copies.  The  *)
(* address and the name are tested on creation and never again.            *)
(***************************************************************************)
EXTENDS Naturals

EmptyUser == [created |-> FALSE, roles |-> {}, status |-> "Active"]

UserCreated(roles) == [type |-> "UserCreated", roles |-> roles]
RoleAssigned(role) == [type |-> "RoleAssigned", role |-> role]
RoleRevoked(role) == [type |-> "RoleRevoked", role |-> role]
UserSuspended == [type |-> "UserSuspended"]
UserActivated == [type |-> "UserActivated"]

(* User::apply *)
ApplyUser(user, event) ==
    CASE event.type = "UserCreated" ->
             [created |-> TRUE, roles |-> event.roles, status |-> "Active"]
      [] event.type = "RoleAssigned"  -> [user EXCEPT !.roles = @ \cup {event.role}]
      [] event.type = "RoleRevoked"   -> [user EXCEPT !.roles = @ \ {event.role}]
      [] event.type = "UserSuspended" -> [user EXCEPT !.status = "Suspended"]
      [] event.type = "UserActivated" -> [user EXCEPT !.status = "Active"]

(* handle_create and the others: when each is accepted. *)
CanCreateUser(user, valid) == ~user.created /\ valid

CanAssignRole(user, role, actorRoles) ==
    /\ user.created
    /\ user.status # "Suspended"
    /\ role \notin user.roles
    /\ "admin" \in actorRoles \/ role \in actorRoles

CanRevokeRole(user, role) == user.created /\ role \in user.roles

CanSuspendUser(user) == user.created /\ user.status # "Suspended"

CanActivateUser(user) == user.created /\ user.status # "Active"

(***************************************************************************)
(* The row after an event.  No cursor is kept; what comes before the       *)
(* creation is dropped.                                                    *)
(***************************************************************************)
NoUserRow == [roles |-> {}, status |-> "NoRow"]

(* Mutant: a revoked role stays. *)
UserRowKeepsRoles(row, event) ==
    IF event.type = "UserCreated" THEN [roles |-> event.roles, status |-> "Active"]
    ELSE IF row = NoUserRow THEN row
    ELSE CASE event.type = "RoleAssigned"  -> [row EXCEPT !.roles = @ \cup {event.role}]
           [] event.type = "RoleRevoked"   -> row
           [] event.type = "UserSuspended" -> [row EXCEPT !.status = "Suspended"]
           [] event.type = "UserActivated" -> [row EXCEPT !.status = "Active"]

UserRowAfter(row, event) ==
    IF event.type = "UserCreated" THEN [roles |-> event.roles, status |-> "Active"]
    ELSE IF row = NoUserRow THEN row
    ELSE CASE event.type = "RoleAssigned"  -> [row EXCEPT !.roles = @ \cup {event.role}]
           [] event.type = "RoleRevoked"   -> [row EXCEPT !.roles = @ \ {event.role}]
           [] event.type = "UserSuspended" -> [row EXCEPT !.status = "Suspended"]
           [] event.type = "UserActivated" -> [row EXCEPT !.status = "Active"]

=============================================================================
