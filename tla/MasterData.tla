----------------------------- MODULE MasterData -----------------------------
(***************************************************************************)
(* Products, customers, suppliers and users behind their HTTP routes       *)
(* (crates/api/src/app/routes), with the authorization of each request     *)
(* and the projection loop of build_in_memory_services.                    *)
(*                                                                         *)
(* As in OrderFlows a dispatch decides and appends in one step and         *)
(* publishes in a later one, so events are published in any order, and     *)
(* requests that are refused change nothing and are left out.  Routes      *)
(* that only read are the operators under "Replies".                       *)
(*                                                                         *)
(* Tokens come from an issuer outside the repository; it is taken to give  *)
(* an active user a token of a fixed lifetime with the roles the user has  *)
(* then.  The tenant is fixed.                                             *)
(***************************************************************************)
EXTENDS Integers, Sequences, FiniteSets, FiniteSetsExt, Product, Party, User,
        Authorization, ProjectionCursor

CONSTANTS
    Products, Parties, Users,  \* aggregate ids
    Texts,         \* names and SKUs, Blank among them
    Contacts,      \* contact information
    Roles,         \* role names callers send
    Lifetime,      \* how long the issuer's tokens are valid
    MaxTime,       \* bound on the clock
    MaxTokens,     \* bound on the tokens issued to users
    MaxPassed,     \* bound on the requests told apart between guard and dispatch
    MaxInFlight,   \* dispatches between append and publish at a time
    MaxQueued,     \* bound on what waits in the subscription
    MaxEvents      \* bound on the events of a behaviour

Streams == Products \cup Parties \cup Users

ASSUME MasterDataAssumption ==
    /\ Products \cap Parties = {} /\ Users \cap (Products \cup Parties) = {}  \* ids are UUIDs
    /\ "root" \notin Users
    /\ Blank = NoName /\ Blank \in Texts /\ NoContact \in Contacts
    /\ Lifetime \in Nat \ {0}
    /\ {MaxTime, MaxTokens, MaxPassed, MaxInFlight, MaxQueued, MaxEvents} \subseteq Nat

VARIABLES
    products, parties, users,  \* the aggregates, as their streams fold
    version,       \* the length of each stream
    inFlight,      \* envelopes appended and not published
    channel,       \* the projection loop's subscription
    cursor,        \* the cursors of the catalog and the directory
    productRows, partyRows, userRows,  \* the read models
    tokens,        \* the claims of the tokens given out
    now,           \* the clock
    seen,          \* history: the numbers of a stream's events in order of delivery
    passed,        \* requests past the guard on the kind and not dispatched
    touched,       \* history: the requests a party was changed by
    lostAt         \* history: when a user last lost a role or was suspended

aggregates == <<products, parties, users, version>>
readModels == <<cursor, productRows, partyRows, userRows, seen>>
identity == <<tokens, now>>
vars == <<aggregates, inFlight, channel, readModels, identity, passed, touched, lostAt>>

Claims == [sub : Users \cup {"root"}, tenant : {"tenant"}, roles : (SUBSET Roles) \cup {{"admin"}},
           issued_at : Nat, expires_at : Nat]

ProductEvent == {ProductCreated(sku, name, NoPricing) : sku, name \in Texts}
                    \cup {ProductActivated, ProductArchived}
PartyEvent == {PartyRegistered(kind, name, contact) :
                   kind \in PartyKind, name \in Texts, contact \in Contacts}
                  \cup {PartyUpdated(name, contact) : name \in Texts, contact \in Contacts}
                  \cup {PartySuspended}
UserEvent == {UserCreated(roles) : roles \in SUBSET Roles}
                 \cup {RoleAssigned(role) : role \in Roles} \cup {RoleRevoked(role) : role \in Roles}
                 \cup {UserSuspended, UserActivated}

EventsOf(s) == IF s \in Products THEN ProductEvent ELSE IF s \in Parties THEN PartyEvent ELSE UserEvent
Envelope == {e \in [stream : Streams, seq : Nat \ {0},
                     event : ProductEvent \cup PartyEvent \cup UserEvent] :
                 e.event \in EventsOf(e.stream)}

(* What a request to change a party is told apart by: the kind of its      *)
(* route and, as history, what the directory showed when it was asked.     *)
Asker == [kind : PartyKind, shown : BOOLEAN]

TypeOK ==
    /\ products \in [Products -> [created : BOOLEAN, sku : Texts, name : Texts,
                                  status : ProductStatus, pricing : {NoPricing}]]
    /\ parties \in [Parties -> [created : BOOLEAN, kind : PartyKind, name : Texts,
                                contact : Contacts, status : {"Active", "Suspended"}]]
    /\ users \in [Users -> [created : BOOLEAN, roles : SUBSET Roles,
                            status : {"Active", "Suspended"}]]
    /\ version \in [Streams -> Nat]
    /\ inFlight \subseteq Envelope
    /\ channel \in Seq(Envelope)
    /\ cursor \in [Streams -> Nat]
    /\ productRows \in [Products -> [sku : Texts, name : Texts, status : ProductStatus \cup {"NoRow"},
                                     pricing : {NoPricing}]]
    /\ partyRows \in [Parties -> [kind : PartyKind, name : Texts, contact : Contacts,
                                  status : {"Active", "Suspended", "NoRow"}]]
    /\ userRows \in [Users -> [roles : SUBSET Roles, status : {"Active", "Suspended", "NoRow"}]]
    /\ tokens \subseteq Claims
    /\ now \in 0 .. MaxTime
    /\ seen \in [Streams -> Seq(Nat)]
    /\ passed \in [Parties -> SUBSET Asker]
    /\ touched \in [Parties -> SUBSET Asker]
    /\ lostAt \in [Users -> Nat]

(* An administrator's token exists from the start. *)
RootToken == [sub |-> "root", tenant |-> "tenant", roles |-> {"admin"}, issued_at |-> 0,
              expires_at |-> MaxTime + 1]

Init ==
    /\ products = [p \in Products |-> EmptyProduct]
    /\ parties = [p \in Parties |-> EmptyParty]
    /\ users = [u \in Users |-> EmptyUser]
    /\ version = [s \in Streams |-> 0]
    /\ inFlight = {} /\ channel = <<>>
    /\ cursor = [s \in Streams |-> 0]
    /\ productRows = [p \in Products |-> NoProductRow]
    /\ partyRows = [p \in Parties |-> NoPartyRow]
    /\ userRows = [u \in Users |-> NoUserRow]
    /\ tokens = {RootToken} /\ now = 0
    /\ seen = [s \in Streams |-> <<>>]
    /\ passed = [p \in Parties |-> {}]
    /\ touched = [p \in Parties |-> {}]
    /\ lostAt = [u \in Users |-> 0]

-----------------------------------------------------------------------------
(* Requests *)

(* auth_middleware: the token is good now.  CmdAuth: it carries the        *)
(* permission of the route.                                                *)
Request(claims, required) ==
    /\ ValidateClaims(claims, now)
    /\ AuthorizeCommand(claims, {required})

Requested(required) == \E claims \in tokens : Request(claims, required)

(* append *)
AppendEvent(s, event) ==
    /\ MapThenSumSet(LAMBDA r : version[r], Streams) < MaxEvents
    /\ Cardinality(inFlight) < MaxInFlight
    /\ version' = [version EXCEPT ![s] = @ + 1]
    /\ inFlight' = inFlight \cup {[stream |-> s, seq |-> version[s] + 1, event |-> event]}

(* publish *)
Publish(envelope) ==
    /\ Len(channel) < MaxQueued
    /\ inFlight' = inFlight \ {envelope}
    /\ channel' = Append(channel, envelope)
    /\ UNCHANGED <<aggregates, readModels, identity, passed, touched, lostAt>>

-----------------------------------------------------------------------------
(* Routes of products *)

DispatchProduct(p, event) ==
    /\ AppendEvent(p, event)
    /\ products' = [products EXCEPT ![p] = ApplyProduct(@, event)]
    /\ UNCHANGED <<parties, users, channel, readModels, identity, passed, touched, lostAt>>

CreateProduct(p) ==
    /\ Requested("products.create")
    /\ \E sku, name \in Texts :
          /\ CanCreateProduct(products[p], sku, name)
          /\ DispatchProduct(p, ProductCreated(sku, name, NoPricing))

ActivateProduct(p) ==
    /\ Requested("products.activate")
    /\ CanActivate(products[p])
    /\ DispatchProduct(p, ProductActivated)

ArchiveProduct(p) ==
    /\ Requested("products.archive")
    /\ CanArchive(products[p])
    /\ DispatchProduct(p, ProductArchived)

-----------------------------------------------------------------------------
(* Routes of customers and suppliers *)

DispatchParty(p, asker, event) ==
    /\ AppendEvent(p, event)
    /\ parties' = [parties EXCEPT ![p] = ApplyParty(@, event)]
    /\ touched' = [touched EXCEPT ![p] = @ \cup {asker}]
    /\ UNCHANGED <<products, users, channel, readModels, identity, passed, lostAt>>

RegisterParty(p, kind, permission) ==
    /\ Requested(permission)
    /\ \E name \in Texts, contact \in Contacts \cup {NotSent} :
          /\ CanRegister(parties[p], name)
          /\ DispatchParty(p, [kind |-> kind, shown |-> FALSE],
                           PartyRegistered(kind, name, OrElse(contact, NoContact)))

(* Mutant: the directory is not asked. *)
KindAllowsAny(p, kind) == TRUE

(* The guard on the kind: a row of the other kind is "not found". *)
KindAllows(p, kind) == partyRows[p] # NoPartyRow => partyRows[p].kind = kind

(* The directory was first given the party's first event, the registration. *)
RegistrationShown(p) == seen[p] # <<>> /\ seen[p][1] = 1

(* update_party and suspend_party, first half: the token is good and the   *)
(* guard lets the request through.  A member of passed stands for any      *)
(* number of requests at this place, so a dispatch does not use it up.     *)
AskDirectory(p, kind) ==
    /\ \E claims \in tokens : ValidateClaims(claims, now)
    /\ KindAllows(p, kind)
    /\ Cardinality(passed[p]) < MaxPassed
    /\ passed' = [passed EXCEPT ![p] = @ \cup {[kind |-> kind, shown |-> RegistrationShown(p)]}]
    /\ UNCHANGED <<aggregates, inFlight, channel, readModels, identity, touched, lostAt>>

(* Second half: the permission, which is the token's, and the dispatch.    *)
(* The directory is not asked again.                                       *)
Permitted(required) == \E claims \in tokens : AuthorizeCommand(claims, {required})

UpdateParty(p, kind, permission) ==
    /\ Permitted(permission)
    /\ \E asker \in passed[p], name \in Texts \cup {NotSent}, contact \in Contacts \cup {NotSent} :
          /\ asker.kind = kind
          /\ CanUpdate(parties[p], name)
          /\ DispatchParty(p, asker, UpdateOf(parties[p], name, contact))

SuspendParty(p, kind, permission) ==
    /\ Permitted(permission)
    /\ \E asker \in passed[p] :
          /\ asker.kind = kind
          /\ CanSuspend(parties[p])
          /\ DispatchParty(p, asker, PartySuspended)

RegisterCustomer(p) == RegisterParty(p, "Customer", "customers.register")
UpdateCustomer(p) == UpdateParty(p, "Customer", "customers.update")
SuspendCustomer(p) == SuspendParty(p, "Customer", "customers.suspend")
RegisterSupplier(p) == RegisterParty(p, "Supplier", "suppliers.register")
UpdateSupplier(p) == UpdateParty(p, "Supplier", "suppliers.update")
SuspendSupplier(p) == SuspendParty(p, "Supplier", "suppliers.suspend")

-----------------------------------------------------------------------------
(* Routes of users *)

DispatchUser(u, event) ==
    /\ AppendEvent(u, event)
    /\ users' = [users EXCEPT ![u] = ApplyUser(@, event)]
    /\ UNCHANGED <<products, parties, channel, readModels, identity, passed, touched>>

(* create_user: initial roles are the caller's own or "user", unless the   *)
(* caller is an administrator.                                             *)
CreateUser(u) ==
    /\ \E claims \in tokens, roles \in SUBSET Roles :
          /\ "admin" \in claims.roles \/ roles \subseteq claims.roles \cup {"user"}
          /\ Request(claims, "admin.users.create")
          /\ \E valid \in BOOLEAN : CanCreateUser(users[u], valid)
          /\ DispatchUser(u, UserCreated(roles))
    /\ UNCHANGED lostAt

AssignRole(u, role) ==
    /\ \E claims \in tokens :
          /\ Request(claims, "admin.users.assign_role")
          /\ CanAssignRole(users[u], role, claims.roles)
    /\ DispatchUser(u, RoleAssigned(role))
    /\ UNCHANGED lostAt

RevokeRole(u, role) ==
    /\ Requested("admin.users.revoke_role")
    /\ CanRevokeRole(users[u], role)
    /\ DispatchUser(u, RoleRevoked(role))
    /\ lostAt' = [lostAt EXCEPT ![u] = now]

SuspendUser(u) ==
    /\ Requested("admin.users.suspend")
    /\ CanSuspendUser(users[u])
    /\ DispatchUser(u, UserSuspended)
    /\ lostAt' = [lostAt EXCEPT ![u] = now]

ActivateUser(u) ==
    /\ Requested("admin.users.activate")
    /\ CanActivateUser(users[u])
    /\ DispatchUser(u, UserActivated)
    /\ UNCHANGED lostAt

(* The issuer, and time. *)
Issued(u) == [sub |-> u, tenant |-> "tenant", roles |-> users[u].roles, issued_at |-> now,
              expires_at |-> now + Lifetime]

IssueToken(u) ==
    /\ Cardinality(tokens) <= MaxTokens
    /\ users[u].created /\ users[u].status = "Active"
    /\ tokens' = tokens \cup {Issued(u)}
    /\ UNCHANGED <<aggregates, inFlight, channel, readModels, now, passed, touched, lostAt>>

Tick ==
    /\ now < MaxTime
    /\ now' = now + 1
    /\ UNCHANGED <<aggregates, inFlight, channel, readModels, tokens, passed, touched, lostAt>>

-----------------------------------------------------------------------------
(* The projection loop *)

(* apply_envelope of the catalog and the directory tests the cursor, that  *)
(* of the users applies what comes.                                        *)
Applies(s, seq) == s \in Users \/ CursorVerdict(cursor[s], seq) = "Next"

Deliver ==
    /\ channel # <<>>
    /\ channel' = Tail(channel)
    /\ LET s == Head(channel).stream
           seq == Head(channel).seq
           event == Head(channel).event IN
       /\ seen' = [seen EXCEPT ![s] = Append(@, seq)]
       /\ cursor' = IF s \notin Users /\ Applies(s, seq) THEN [cursor EXCEPT ![s] = seq] ELSE cursor
       /\ productRows' = [p \in Products |->
              IF p = s /\ Applies(s, seq) THEN ProductRowAfter(productRows[p], event)
              ELSE productRows[p]]
       /\ partyRows' = [p \in Parties |->
              IF p = s /\ Applies(s, seq) THEN PartyRowAfter(partyRows[p], event)
              ELSE partyRows[p]]
       /\ userRows' = [u \in Users |->
              IF u = s THEN UserRowAfter(userRows[u], event) ELSE userRows[u]]
    /\ UNCHANGED <<aggregates, inFlight, identity, passed, touched, lostAt>>

-----------------------------------------------------------------------------
(* Replies *)

(* list_customers and list_suppliers, and get_party_by_kind. *)
ListParties(kind) == {p \in Parties : partyRows[p] # NoPartyRow /\ partyRows[p].kind = kind}

(* effective_permissions of a user's row, as GET /users/:id/permissions    *)
(* shows them.                                                             *)
EffectivePermissions(u) == PermissionsFromRoles(userRows[u].roles)

(* explain_authorization_decision: about the caller. *)
ExplainSelf(claims, permission) == ExplainAuthorization(PrincipalOf(claims), permission)

(* explain_user_authorization: about a user, from the user's row. *)
ExplainUser(u, permission) ==
    ExplainAuthorization([active_tenant |-> "tenant", tenant |-> "tenant",
                          roles |-> userRows[u].roles,
                          permissions |-> EffectivePermissions(u)], permission)

-----------------------------------------------------------------------------
Next ==
    \/ \E p \in Products : CreateProduct(p) \/ ActivateProduct(p) \/ ArchiveProduct(p)
    \/ \E p \in Parties : \/ RegisterCustomer(p) \/ UpdateCustomer(p) \/ SuspendCustomer(p)
                          \/ RegisterSupplier(p) \/ UpdateSupplier(p) \/ SuspendSupplier(p)
    \/ \E p \in Parties, kind \in PartyKind : AskDirectory(p, kind)
    \/ \E u \in Users : CreateUser(u) \/ SuspendUser(u) \/ ActivateUser(u) \/ IssueToken(u)
    \/ \E u \in Users, role \in Roles : AssignRole(u, role) \/ RevokeRole(u, role)
    \/ Tick
    \/ \E envelope \in inFlight : Publish(envelope)
    \/ Deliver

Spec == Init /\ [][Next]_vars

-----------------------------------------------------------------------------
(* Properties *)

(* A stream's events were all delivered, in their order. *)
InOrder(s) == seen[s] = [i \in 1 .. version[s] |-> i]

(***************************************************************************)
(* Whatever was interleaved with it, a stream that reached the loop        *)
(* complete and in order is shown as apply folds it, and a party is listed *)
(* by the routes of its own kind and by no other.                          *)
(***************************************************************************)
DirectoriesMatch ==
    /\ \A p \in Products : InOrder(p) /\ version[p] > 0 =>
           productRows[p] = [sku |-> products[p].sku, name |-> products[p].name,
                             status |-> products[p].status, pricing |-> products[p].pricing]
    /\ \A p \in Parties : InOrder(p) /\ version[p] > 0 =>
           /\ partyRows[p] = [kind |-> parties[p].kind, name |-> parties[p].name,
                              contact |-> parties[p].contact, status |-> parties[p].status]
           /\ \A kind \in PartyKind : p \in ListParties(kind) <=> kind = parties[p].kind
    /\ \A u \in Users : InOrder(u) /\ version[u] > 0 =>
           userRows[u] = [roles |-> users[u].roles, status |-> users[u].status]

(***************************************************************************)
(* "Guard kind (read model) so /customers can't mutate a supplier": no     *)
(* request that asked the directory after it had shown a party's           *)
(* registration has changed a party of the other kind, however much later  *)
(* it was dispatched.  A request that asked before may: the guard lets     *)
(* through what the directory does not have and is not repeated at the     *)
(* dispatch.                                                               *)
(***************************************************************************)
KindGuard ==
    \A p \in Parties : \A asker \in touched[p] : asker.shown => asker.kind = parties[p].kind

(***************************************************************************)
(* The roles a request is judged by are those of its token, not those of   *)
(* the directory.  So what a user has lost still works for a while, but    *)
(* never longer than a token lives after the user last lost something.     *)
(***************************************************************************)
PowerExpires ==
    \A claims \in tokens :
        (/\ ValidateClaims(claims, now)
         /\ claims.sub \in Users
         /\ \/ ~ claims.roles \subseteq users[claims.sub].roles
            \/ users[claims.sub].status = "Suspended")
            => now < lostAt[claims.sub] + Lifetime

(***************************************************************************)
(* The audit routes tell what the guard does: about the caller always, and *)
(* about another user, once the user's events have come in order, what a   *)
(* token given to that user now would get.                                 *)
(***************************************************************************)
ExplainedAsEnforced ==
    \A permission \in RbacRegistry.permissions \cup AllUserPermissions \cup CatalogPermissions :
        /\ \A claims \in tokens :
               ExplainSelf(claims, permission).granted <=> AuthorizeCommand(claims, {permission})
        /\ \A u \in Users : InOrder(u) =>
               (ExplainUser(u, permission).granted <=> AuthorizeCommand(Issued(u), {permission}))

=============================================================================
