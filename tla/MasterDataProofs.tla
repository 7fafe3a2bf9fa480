-------------------------- MODULE MasterDataProofs --------------------------
(***************************************************************************)
(* Proofs of the safety properties of MasterData for any products,         *)
(* parties, users, roles and interleaving of requests and deliveries.      *)
(*                                                                         *)
(* The argument for the directories: a stream has a history of rows, one   *)
(* per event, that starts with no row and ends with what the aggregate     *)
(* folds to; every envelope on its way takes one row of the history to the *)
(* next (Followed).  A read model that was given the first n events in     *)
(* order therefore shows the history's n-th row.                           *)
(*                                                                         *)
(* The argument for tokens: a token carries what its user still has, or    *)
(* the user lost something after it was issued (TokensTold).               *)
(***************************************************************************)
EXTENDS MasterData, TLAPS

ProductState == [created : BOOLEAN, sku : Texts, name : Texts, status : ProductStatus,
                 pricing : {NoPricing}]
PartyState == [created : BOOLEAN, kind : PartyKind, name : Texts, contact : Contacts,
               status : {"Active", "Suspended"}]
UserState == [created : BOOLEAN, roles : SUBSET Roles, status : {"Active", "Suspended"}]

ProductRowType == [sku : Texts, name : Texts, status : ProductStatus \cup {"NoRow"},
                   pricing : {NoPricing}]
PartyRowType == [kind : PartyKind, name : Texts, contact : Contacts,
                 status : {"Active", "Suspended", "NoRow"}]
UserRowType == [roles : SUBSET Roles, status : {"Active", "Suspended", "NoRow"}]

(* The row an aggregate's state amounts to. *)
ProductRow(x) ==
    IF x.created THEN [sku |-> x.sku, name |-> x.name, status |-> x.status, pricing |-> x.pricing]
    ELSE NoProductRow

PartyRow(x) ==
    IF x.created THEN [kind |-> x.kind, name |-> x.name, contact |-> x.contact, status |-> x.status]
    ELSE NoPartyRow

UserRow(x) == IF x.created THEN [roles |-> x.roles, status |-> x.status] ELSE NoUserRow

(* The same for a stream of whatever kind: what its aggregate amounts to,  *)
(* what the read models show, and what an event makes of a row.            *)
Folded(s) ==
    IF s \in Products THEN ProductRow(products[s])
    ELSE IF s \in Parties THEN PartyRow(parties[s]) ELSE UserRow(users[s])

Shown(s) ==
    IF s \in Products THEN productRows[s]
    ELSE IF s \in Parties THEN partyRows[s] ELSE userRows[s]

RowAfter(s, row, event) ==
    IF s \in Products THEN ProductRowAfter(row, event)
    ELSE IF s \in Parties THEN PartyRowAfter(row, event) ELSE UserRowAfter(row, event)

NoRow(s) ==
    IF s \in Products THEN NoProductRow ELSE IF s \in Parties THEN NoPartyRow ELSE NoUserRow

-----------------------------------------------------------------------------
(* The invariant *)

(* Envelopes that have not been delivered. *)
Waiting == inFlight \cup {channel[i] : i \in 1 .. Len(channel)}

(* What was delivered of a stream are its first events, in order. *)
InPlace(s) == \A i \in 1 .. Len(seen[s]) : seen[s][i] = i

(* An aggregate exists exactly if it has an event. *)
CreatedByEvents ==
    /\ \A p \in Products : products[p].created <=> version[p] > 0
    /\ \A p \in Parties : parties[p].created <=> version[p] > 0
    /\ \A u \in Users : /\ users[u].created <=> version[u] > 0
                        /\ ~users[u].created => users[u].roles = {}

(* Envelopes carry numbers their stream has given out. *)
NumbersGivenOut ==
    /\ \A e \in Waiting : e.seq <= version[e.stream]
    /\ \A s \in Streams : \A i \in 1 .. Len(seen[s]) : 1 <= seen[s][i] /\ seen[s][i] <= version[s]

(* As long as events come in order, the cursor counts them. *)
CursorFollows == \A s \in Streams \ Users : InPlace(s) => cursor[s] = Len(seen[s])

(* r is the stream's history of rows. *)
History(s, r) ==
    /\ r[0] = NoRow(s) /\ r[version[s]] = Folded(s)
    /\ \A e \in Waiting : e.stream = s => r[e.seq] = RowAfter(s, r[e.seq - 1], e.event)
    /\ InPlace(s) => Shown(s) = r[Len(seen[s])]

Followed == \A s \in Streams : \E r : History(s, r)

(* A party's first event registers it, with its kind, and once the         *)
(* directory has seen that event its row keeps the kind.                   *)
KindShown ==
    \A p \in Parties :
        /\ \A e \in Waiting : e.stream = p =>
              /\ e.seq = 1 => e.event.type = "PartyRegistered"
              /\ e.event.type = "PartyRegistered" => e.event.kind = parties[p].kind
        /\ seen[p] # <<>> /\ seen[p][1] = 1 =>
              partyRows[p].status # "NoRow" /\ partyRows[p].kind = parties[p].kind

(* A token carries what its user still has, or the user lost something     *)
(* when it had been issued.                                                *)
TokensTold ==
    \A claims \in tokens : claims.sub \in Users =>
        /\ users[claims.sub].created
        /\ claims.issued_at <= now /\ claims.expires_at = claims.issued_at + Lifetime
        /\ \/ claims.roles \subseteq users[claims.sub].roles /\ users[claims.sub].status = "Active"
           \/ lostAt[claims.sub] >= claims.issued_at

MasterInv ==
    /\ TypeOK
    /\ CreatedByEvents
    /\ NumbersGivenOut
    /\ CursorFollows
    /\ Followed
    /\ KindShown
    /\ TokensTold

-----------------------------------------------------------------------------
(* Aggregates and rows, event by event *)

(* The catalog's step agrees with Product::apply. *)
LEMMA ProductRowFollows ==
    ASSUME NEW x \in ProductState, NEW event \in ProductEvent,
           event.type = "ProductCreated" \/ x.created
    PROVE  /\ ApplyProduct(x, event) \in ProductState /\ ApplyProduct(x, event).created
           /\ ProductRow(ApplyProduct(x, event)) = ProductRowAfter(ProductRow(x), event)
  <1>1. CASE event.type = "ProductCreated"
    <2>1. PICK sku \in Texts, name \in Texts : event = ProductCreated(sku, name, NoPricing)
      BY <1>1 DEF ProductEvent, ProductActivated, ProductArchived
    <2> QED
      BY <1>1, <2>1 DEF ProductCreated, ApplyProduct, ProductRowAfter, ProductRow, ProductState,
         ProductStatus
  <1>2. CASE event.type # "ProductCreated"
    <2>1. event.type \in {"ProductActivated", "ProductArchived"} /\ x.created
      BY <1>2 DEF ProductEvent, ProductCreated, ProductActivated, ProductArchived
    <2> QED
      BY <2>1 DEF ApplyProduct, ProductRowAfter, ProductRow, ProductState, ProductStatus
  <1> QED
    BY <1>1, <1>2

(* The party directory's step agrees with Party::apply. *)
LEMMA PartyRowFollows ==
    ASSUME NEW x \in PartyState, NEW event \in PartyEvent,
           event.type = "PartyRegistered" \/ x.created
    PROVE  /\ ApplyParty(x, event) \in PartyState /\ ApplyParty(x, event).created
           /\ PartyRow(ApplyParty(x, event)) = PartyRowAfter(PartyRow(x), event)
           /\ event.type # "PartyRegistered" => ApplyParty(x, event).kind = x.kind
           /\ event.type = "PartyRegistered" => ApplyParty(x, event).kind = event.kind
  <1>1. CASE event.type = "PartyRegistered"
    <2>1. PICK kind \in PartyKind, name \in Texts, contact \in Contacts :
              event = PartyRegistered(kind, name, contact)
      BY <1>1 DEF PartyEvent, PartyUpdated, PartySuspended
    <2> QED
      BY <1>1, <2>1 DEF PartyRegistered, ApplyParty, PartyRowAfter, PartyRow, PartyState
  <1>2. CASE event.type = "PartyUpdated"
    <2>1. PICK name \in Texts, contact \in Contacts : event = PartyUpdated(name, contact)
      BY <1>2 DEF PartyEvent, PartyRegistered, PartySuspended
    <2> QED
      BY <1>2, <2>1 DEF PartyUpdated, ApplyParty, PartyRowAfter, Present, NoPartyRow, PartyRow, PartyState
  <1>3. CASE event.type = "PartySuspended"
    BY <1>3 DEF ApplyParty, PartyRowAfter, Present, NoPartyRow, PartyRow, PartyState
  <1> QED
    BY <1>1, <1>2, <1>3 DEF PartyEvent, PartyRegistered, PartyUpdated, PartySuspended

(* The user directory's step agrees with User::apply. *)
LEMMA UserRowFollows ==
    ASSUME NEW x \in UserState, NEW event \in UserEvent,
           event.type = "UserCreated" \/ x.created
    PROVE  /\ ApplyUser(x, event) \in UserState /\ ApplyUser(x, event).created
           /\ UserRow(ApplyUser(x, event)) = UserRowAfter(UserRow(x), event)
  <1>1. CASE event.type = "UserCreated"
    <2>1. PICK roles \in SUBSET Roles : event = UserCreated(roles)
      BY <1>1 DEF UserEvent, RoleAssigned, RoleRevoked, UserSuspended, UserActivated
    <2>2. event.roles = roles
      BY <2>1 DEF UserCreated
    <2>3. /\ ApplyUser(x, event) = [created |-> TRUE, roles |-> roles, status |-> "Active"]
          /\ UserRowAfter(UserRow(x), event) = [roles |-> roles, status |-> "Active"]
      BY <1>1, <2>2 DEF ApplyUser, UserRowAfter
    <2> QED
      BY <2>3 DEF UserRow, UserState
  <1>2. CASE event.type = "RoleAssigned"
    <2>1. PICK role \in Roles : event = RoleAssigned(role)
      BY <1>2 DEF UserEvent, UserCreated, RoleRevoked, UserSuspended, UserActivated
    <2> QED
      BY <1>2, <2>1 DEF RoleAssigned, ApplyUser, UserRowAfter, NoUserRow, UserRow, UserState
  <1>3. CASE event.type = "RoleRevoked"
    <2>1. PICK role \in Roles : event = RoleRevoked(role)
      BY <1>3 DEF UserEvent, UserCreated, RoleAssigned, UserSuspended, UserActivated
    <2> QED
      BY <1>3, <2>1 DEF RoleRevoked, ApplyUser, UserRowAfter, NoUserRow, UserRow, UserState
  <1>4. CASE event.type = "UserSuspended"
    BY <1>4 DEF ApplyUser, UserRowAfter, NoUserRow, UserRow, UserState
  <1>5. CASE event.type = "UserActivated"
    BY <1>5 DEF ApplyUser, UserRowAfter, NoUserRow, UserRow, UserState
  <1> QED
    BY <1>1, <1>2, <1>3, <1>4, <1>5
       DEF UserEvent, UserCreated, RoleAssigned, RoleRevoked, UserSuspended, UserActivated

-----------------------------------------------------------------------------
(* Dispatches *)

(* Ids of different kinds are different. *)
LEMMA StreamKinds ==
    /\ \A p \in Products : p \in Streams /\ p \notin Parties /\ p \notin Users
    /\ \A p \in Parties : p \in Streams /\ p \notin Products /\ p \notin Users
    /\ \A u \in Users : u \in Streams /\ u \notin Products /\ u \notin Parties
    /\ \A s \in Streams : s \in Products \/ s \in Parties \/ s \in Users
  BY MasterDataAssumption DEF Streams

(* An envelope's parts. *)
LEMMA EnvelopeParts ==
    ASSUME TypeOK, NEW e \in Waiting
    PROVE  e \in Envelope /\ e.stream \in Streams /\ e.seq \in Nat \ {0} /\ e.event \in EventsOf(e.stream)
  <1>1. e \in Envelope
    BY DEF TypeOK, Waiting
  <1> QED
    BY <1>1 DEF Envelope

(* Once an event is appended, and the aggregate folds it, the stream's     *)
(* history has one row more.                                               *)
LEMMA AppendFollows ==
    ASSUME TypeOK, NumbersGivenOut, CursorFollows, Followed,
           NEW s \in Streams, NEW event \in EventsOf(s), AppendEvent(s, event),
           UNCHANGED <<channel, readModels>>,
           Folded(s)' = RowAfter(s, Folded(s), event),
           \A t \in Streams \ {s} : Folded(t)' = Folded(t)
    PROVE  /\ version' \in [Streams -> Nat] /\ version'[s] = version[s] + 1
           /\ \A t \in Streams \ {s} : version'[t] = version[t]
           /\ inFlight' \subseteq Envelope
           /\ Waiting' = Waiting \cup {[stream |-> s, seq |-> version[s] + 1, event |-> event]}
           /\ NumbersGivenOut' /\ CursorFollows' /\ Followed'
  <1> DEFINE new == [stream |-> s, seq |-> version[s] + 1, event |-> event]
  <1>1. /\ version' = [version EXCEPT ![s] = @ + 1] /\ inFlight' = inFlight \cup {new}
        /\ UNCHANGED <<channel, cursor, productRows, partyRows, userRows, seen>>
    BY DEF AppendEvent, readModels
  <1>2. version[s] \in Nat /\ version \in [Streams -> Nat]
    BY DEF TypeOK
  <1>3. /\ version' \in [Streams -> Nat] /\ version'[s] = version[s] + 1
        /\ \A t \in Streams \ {s} : version'[t] = version[t]
    BY <1>1, <1>2
  <1>4. new \in Envelope /\ new.stream = s /\ new.seq = version[s] + 1 /\ new.event = event
    <2>1. event \in ProductEvent \cup PartyEvent \cup UserEvent
      BY DEF EventsOf
    <2> QED
      BY <1>2, <2>1 DEF Envelope
  <1>5. inFlight' \subseteq Envelope
    BY <1>1, <1>4 DEF TypeOK
  <1>6. Waiting' = Waiting \cup {new}
    BY <1>1 DEF Waiting
  <1> HIDE DEF new
  <1>7. \A e \in Waiting : e.stream \in Streams /\ e.seq \in Nat \ {0} /\ e.event \in EventsOf(e.stream)
                           /\ e.seq <= version[e.stream]
    BY EnvelopeParts DEF NumbersGivenOut
  <1>8. NumbersGivenOut'
    <2>1. \A e \in Waiting' : e.seq <= version'[e.stream]
      <3> TAKE e \in Waiting'
      <3>1. CASE e = new
        BY <1>2, <1>3, <1>4, <3>1
      <3>2. CASE e \in Waiting
        <4>1. PICK t \in Streams : t = e.stream
          BY <1>7, <3>2
        <4>2. version[t] \in Nat /\ e.seq \in Nat /\ e.seq <= version[t]
          BY <1>2, <1>7, <3>2, <4>1
        <4>3. CASE t = s
          BY <1>2, <1>3, <4>1, <4>2, <4>3
        <4>4. CASE t # s
          BY <1>3, <4>1, <4>2, <4>4
        <4> QED
          BY <4>3, <4>4
      <3> QED
        BY <1>6, <3>1, <3>2
    <2>2. ASSUME NEW t \in Streams, NEW i \in 1 .. Len(seen[t])
          PROVE  1 <= seen[t][i] /\ seen[t][i] <= version'[t]
      <3>1. 1 <= seen[t][i] /\ seen[t][i] <= version[t] /\ seen[t][i] \in Nat /\ version[t] \in Nat
        BY DEF NumbersGivenOut, TypeOK
      <3> QED
        BY <1>2, <1>3, <3>1
    <2> QED
      BY <1>1, <2>1, <2>2 DEF NumbersGivenOut
  <1>9. CursorFollows'
    BY <1>1 DEF CursorFollows, InPlace
  <1>10. ASSUME NEW t \in Streams PROVE \E r : History(t, r)'
    <2>1. PICK r : History(t, r)
      BY DEF Followed
    <2>2. CASE t # s
      <3>1. \A e \in Waiting' : e.stream = t => e \in Waiting
        BY <1>4, <1>6, <2>2
      <3>2. version'[t] = version[t] /\ Folded(t)' = Folded(t)
        BY <1>3, <2>2
      <3>3. Shown(t)' = Shown(t) /\ (InPlace(t)' <=> InPlace(t)) /\ seen'[t] = seen[t]
        BY <1>1 DEF Shown, InPlace
      <3>4. History(t, r)'
        BY <2>1, <3>1, <3>2, <3>3 DEF History
      <3> QED
        BY <3>4
    <2>3. CASE t = s
      <3>1. PICK q : /\ q[version[s] + 1] = RowAfter(s, Folded(s), event)
                     /\ \A n \in Nat : n <= version[s] => q[n] = r[n]
        <4> DEFINE q == [n \in 0 .. version[s] + 1 |->
                            IF n = version[s] + 1 THEN RowAfter(s, Folded(s), event) ELSE r[n]]
        <4>1. /\ q[version[s] + 1] = RowAfter(s, Folded(s), event)
              /\ \A n \in Nat : n <= version[s] => q[n] = r[n]
          BY <1>2
        <4> HIDE DEF q
        <4> QED
          BY <4>1
      <3>2. q[0] = NoRow(s) /\ q[version'[s]] = Folded(s)'
        BY <1>2, <1>3, <2>1, <2>3, <3>1 DEF History
      <3>3. ASSUME NEW e \in Waiting', e.stream = s
            PROVE  q[e.seq] = RowAfter(s, q[e.seq - 1], e.event)
        <4>1. CASE e = new
          <5>1. e.seq = version[s] + 1 /\ e.seq - 1 = version[s] /\ e.event = event
            BY <1>2, <1>4, <4>1
          <5>2. q[version[s]] = Folded(s)
            BY <1>2, <2>1, <2>3, <3>1 DEF History
          <5> QED
            BY <3>1, <5>1, <5>2
        <4>2. CASE e \in Waiting
          <5>1. e.seq \in Nat /\ e.seq - 1 \in Nat /\ e.seq <= version[s] /\ e.seq - 1 <= version[s]
            BY <1>2, <1>7, <3>3, <4>2
          <5>2. r[e.seq] = RowAfter(s, r[e.seq - 1], e.event)
            BY <2>1, <2>3, <3>3, <4>2 DEF History
          <5> QED
            BY <3>1, <5>1, <5>2
        <4> QED
          BY <1>6, <4>1, <4>2
      <3>4. ASSUME InPlace(s)' PROVE Shown(s)' = q[Len(seen'[s])]
        <4>1. Shown(s)' = Shown(s) /\ InPlace(s) /\ seen'[s] = seen[s]
          BY <1>1, <3>4 DEF Shown, InPlace
        <4>2. Len(seen[s]) \in Nat /\ seen[s] \in Seq(Nat)
          BY DEF TypeOK
        <4>3. Len(seen[s]) <= version[s]
          BY <1>2, <4>1, <4>2 DEF InPlace, NumbersGivenOut
        <4> QED
          BY <2>1, <2>3, <3>1, <4>1, <4>2, <4>3 DEF History
      <3>5. History(s, q)'
        BY <3>2, <3>3, <3>4 DEF History
      <3> QED
        BY <2>3, <3>5
    <2> QED
      BY <2>2, <2>3
  <1>11. Followed'
    BY <1>10 DEF Followed
  <1> QED
    BY <1>3, <1>5, <1>6, <1>8, <1>9, <1>11 DEF new


(* A product's event is appended and folded. *)
LEMMA DispatchProductInv ==
    ASSUME MasterInv, NEW p \in Products, NEW event \in ProductEvent,
           event.type = "ProductCreated" \/ products[p].created,
           DispatchProduct(p, event)
    PROVE  MasterInv'
  <1> USE DEF MasterInv
  <1>1. /\ AppendEvent(p, event) /\ products' = [products EXCEPT ![p] = ApplyProduct(products[p], event)]
        /\ UNCHANGED <<parties, users, channel, readModels, identity, passed, touched, lostAt>>
        /\ UNCHANGED <<cursor, productRows, partyRows, userRows, seen, tokens, now>>
    BY DEF DispatchProduct, readModels, identity
  <1>2. p \in Streams /\ p \notin Parties /\ p \notin Users /\ event \in EventsOf(p)
    BY StreamKinds DEF EventsOf
  <1>3. products \in [Products -> ProductState] /\ products[p] \in ProductState
    BY DEF TypeOK, ProductState
  <1>4. /\ ApplyProduct(products[p], event) \in ProductState
        /\ ApplyProduct(products[p], event).created
        /\ ProductRow(ApplyProduct(products[p], event)) = ProductRowAfter(ProductRow(products[p]), event)
    BY <1>3, ProductRowFollows
  <1>5. /\ products' \in [Products -> ProductState] /\ products'[p] = ApplyProduct(products[p], event)
        /\ \A q \in Products \ {p} : products'[q] = products[q]
    BY <1>1, <1>3, <1>4
  <1>6. /\ Folded(p)' = RowAfter(p, Folded(p), event)
        /\ \A t \in Streams \ {p} : Folded(t)' = Folded(t)
    BY <1>1, <1>4, <1>5 DEF Folded, RowAfter
  <1>7. /\ version' \in [Streams -> Nat] /\ version'[p] = version[p] + 1
        /\ \A t \in Streams \ {p} : version'[t] = version[t]
        /\ inFlight' \subseteq Envelope
        /\ Waiting' = Waiting \cup {[stream |-> p, seq |-> version[p] + 1, event |-> event]}
        /\ NumbersGivenOut' /\ CursorFollows' /\ Followed'
    BY <1>1, <1>2, <1>6, AppendFollows
  <1>8. TypeOK'
    BY <1>1, <1>5, <1>7 DEF TypeOK, ProductState
  <1>9. CreatedByEvents'
    <2>1. version[p] \in Nat
      BY <1>2 DEF TypeOK
    <2>2. \A q \in Products : products'[q].created <=> version'[q] > 0
      BY <1>4, <1>5, <1>7, <2>1, StreamKinds DEF CreatedByEvents
    <2>3. \A t \in Parties \cup Users : version'[t] = version[t]
      BY <1>2, <1>7, StreamKinds
    <2> QED
      BY <1>1, <2>2, <2>3 DEF CreatedByEvents
  <1>10. KindShown'
    <2>1. \A e \in Waiting' : e.stream \in Parties => e \in Waiting
      BY <1>2, <1>7
    <2> QED
      BY <1>1, <2>1 DEF KindShown
  <1>11. TokensTold'
    BY <1>1 DEF TokensTold
  <1> QED
    BY <1>7, <1>8, <1>9, <1>10, <1>11

(* A party's event is appended and folded; it registers the party exactly  *)
(* if there was none.                                                      *)
LEMMA DispatchPartyInv ==
    ASSUME MasterInv, NEW p \in Parties, NEW asker \in Asker, NEW event \in PartyEvent,
           event.type = "PartyRegistered" <=> ~parties[p].created,
           DispatchParty(p, asker, event)
    PROVE  /\ MasterInv'
           /\ \A q \in Parties : parties[q].created =>
                  parties'[q].created /\ parties'[q].kind = parties[q].kind
  <1> USE DEF MasterInv
  <1>1. /\ AppendEvent(p, event) /\ parties' = [parties EXCEPT ![p] = ApplyParty(parties[p], event)]
        /\ touched' = [touched EXCEPT ![p] = touched[p] \cup {asker}]
        /\ UNCHANGED <<products, users, channel, readModels, identity, passed, lostAt>>
        /\ UNCHANGED <<cursor, productRows, partyRows, userRows, seen, tokens, now>>
    BY DEF DispatchParty, readModels, identity
  <1>2. p \in Streams /\ p \notin Products /\ p \notin Users /\ event \in EventsOf(p)
    BY StreamKinds DEF EventsOf
  <1>3. parties \in [Parties -> PartyState] /\ parties[p] \in PartyState /\ parties[p].created \in BOOLEAN
    BY DEF TypeOK, PartyState
  <1>4. /\ ApplyParty(parties[p], event) \in PartyState
        /\ ApplyParty(parties[p], event).created
        /\ PartyRow(ApplyParty(parties[p], event)) = PartyRowAfter(PartyRow(parties[p]), event)
        /\ event.type # "PartyRegistered" => ApplyParty(parties[p], event).kind = parties[p].kind
        /\ event.type = "PartyRegistered" => ApplyParty(parties[p], event).kind = event.kind
    BY <1>3, PartyRowFollows
  <1>5. /\ parties' \in [Parties -> PartyState] /\ parties'[p] = ApplyParty(parties[p], event)
        /\ \A q \in Parties \ {p} : parties'[q] = parties[q]
    BY <1>1, <1>3, <1>4
  <1>6. /\ Folded(p)' = RowAfter(p, Folded(p), event)
        /\ \A t \in Streams \ {p} : Folded(t)' = Folded(t)
    BY <1>1, <1>2, <1>4, <1>5 DEF Folded, RowAfter
  <1> DEFINE new == [stream |-> p, seq |-> version[p] + 1, event |-> event]
  <1>7. /\ version' \in [Streams -> Nat] /\ version'[p] = version[p] + 1
        /\ \A t \in Streams \ {p} : version'[t] = version[t]
        /\ inFlight' \subseteq Envelope
        /\ Waiting' = Waiting \cup {new}
        /\ NumbersGivenOut' /\ CursorFollows' /\ Followed'
    BY <1>1, <1>2, <1>6, AppendFollows
  <1>8. TypeOK'
    <2>1. touched' \in [Parties -> SUBSET Asker]
      BY <1>1 DEF TypeOK
    <2> QED
      BY <1>1, <1>5, <1>7, <2>1 DEF TypeOK, PartyState
  <1>9. version[p] \in Nat /\ (parties[p].created <=> version[p] > 0)
    BY <1>2 DEF TypeOK, CreatedByEvents
  <1>10. CreatedByEvents'
    <2>1. \A q \in Parties : parties'[q].created <=> version'[q] > 0
      BY <1>4, <1>5, <1>7, <1>9, StreamKinds DEF CreatedByEvents
    <2>2. \A t \in Products \cup Users : version'[t] = version[t]
      BY <1>2, <1>7, StreamKinds
    <2> QED
      BY <1>1, <2>1, <2>2 DEF CreatedByEvents
  <1>11. ASSUME parties[p].created PROVE parties'[p].kind = parties[p].kind
    BY <1>4, <1>5, <1>11
  <1>12. KindShown'
    <2> SUFFICES ASSUME NEW q \in Parties
                 PROVE  /\ \A e \in Waiting' : e.stream = q =>
                              /\ e.seq = 1 => e.event.type = "PartyRegistered"
                              /\ e.event.type = "PartyRegistered" => e.event.kind = parties'[q].kind
                        /\ seen[q] # <<>> /\ seen[q][1] = 1 =>
                              partyRows[q].status # "NoRow" /\ partyRows[q].kind = parties'[q].kind
      BY <1>1 DEF KindShown
    <2>1. CASE q # p
      <3>1. \A e \in Waiting' : e.stream = q => e \in Waiting
        BY <1>7, <2>1
      <3> QED
        BY <1>5, <2>1, <3>1 DEF KindShown
    <2>2. CASE q = p
      <3>1. ASSUME NEW e \in Waiting', e.stream = p
            PROVE  /\ e.seq = 1 => e.event.type = "PartyRegistered"
                   /\ e.event.type = "PartyRegistered" => e.event.kind = parties'[p].kind
        <4>1. CASE e = new
          <5>1. e.seq = version[p] + 1 /\ e.event = event
            BY <4>1
          <5> QED
            BY <1>4, <1>5, <1>9, <5>1
        <4>2. CASE e \in Waiting
          <5>1. e.seq \in Nat \ {0} /\ e.seq <= version[p]
            BY <3>1, <4>2, EnvelopeParts DEF NumbersGivenOut
          <5>2. parties'[p].kind = parties[p].kind
            BY <1>9, <1>11, <5>1
          <5> QED
            BY <3>1, <4>2, <5>2 DEF KindShown
        <4> QED
          BY <1>7, <4>1, <4>2
      <3>2. ASSUME seen[p] # <<>>, seen[p][1] = 1
            PROVE  partyRows[p].status # "NoRow" /\ partyRows[p].kind = parties'[p].kind
        <4>1. seen[p] \in Seq(Nat)
          BY <1>2 DEF TypeOK
        <4>2. 1 \in 1 .. Len(seen[p])
          BY <3>2, <4>1
        <4>3. version[p] > 0
          BY <1>2, <1>9, <3>2, <4>2 DEF NumbersGivenOut
        <4> QED
          BY <1>9, <1>11, <3>2, <4>3 DEF KindShown
      <3> QED
        BY <2>2, <3>1, <3>2
    <2> QED
      BY <2>1, <2>2
  <1>13. TokensTold'
    BY <1>1 DEF TokensTold
  <1>14. \A q \in Parties : parties[q].created =>
             parties'[q].created /\ parties'[q].kind = parties[q].kind
    BY <1>4, <1>5, <1>11
  <1> QED
    BY <1>7, <1>8, <1>10, <1>12, <1>13, <1>14

(* A user's event is appended and folded; what it means for tokens is the  *)
(* caller's matter.                                                        *)
LEMMA DispatchUserInv ==
    ASSUME MasterInv, NEW u \in Users, NEW event \in UserEvent,
           event.type = "UserCreated" \/ users[u].created,
           DispatchUser(u, event), lostAt' \in [Users -> Nat], TokensTold'
    PROVE  MasterInv'
  <1> USE DEF MasterInv
  <1>1. /\ AppendEvent(u, event) /\ users' = [users EXCEPT ![u] = ApplyUser(users[u], event)]
        /\ UNCHANGED <<products, parties, channel, readModels, identity, passed, touched>>
        /\ UNCHANGED <<cursor, productRows, partyRows, userRows, seen, tokens, now>>
    BY DEF DispatchUser, readModels, identity
  <1>2. u \in Streams /\ u \notin Parties /\ u \notin Products /\ event \in EventsOf(u)
    BY StreamKinds DEF EventsOf
  <1>3. users \in [Users -> UserState] /\ users[u] \in UserState
    BY DEF TypeOK, UserState
  <1>4. /\ ApplyUser(users[u], event) \in UserState
        /\ ApplyUser(users[u], event).created
        /\ UserRow(ApplyUser(users[u], event)) = UserRowAfter(UserRow(users[u]), event)
    BY <1>3, UserRowFollows
  <1>5. /\ users' \in [Users -> UserState] /\ users'[u] = ApplyUser(users[u], event)
        /\ \A q \in Users \ {u} : users'[q] = users[q]
    BY <1>1, <1>3, <1>4
  <1>6. /\ Folded(u)' = RowAfter(u, Folded(u), event)
        /\ \A t \in Streams \ {u} : Folded(t)' = Folded(t)
    BY <1>1, <1>2, <1>4, <1>5, StreamKinds DEF Folded, RowAfter
  <1>7. /\ version' \in [Streams -> Nat] /\ version'[u] = version[u] + 1
        /\ \A t \in Streams \ {u} : version'[t] = version[t]
        /\ inFlight' \subseteq Envelope
        /\ Waiting' = Waiting \cup {[stream |-> u, seq |-> version[u] + 1, event |-> event]}
        /\ NumbersGivenOut' /\ CursorFollows' /\ Followed'
    BY <1>1, <1>2, <1>6, AppendFollows
  <1>8. TypeOK'
    BY <1>1, <1>5, <1>7 DEF TypeOK, UserState
  <1>9. CreatedByEvents'
    <2>1. version[u] \in Nat
      BY <1>2 DEF TypeOK
    <2>2. \A q \in Users : /\ users'[q].created <=> version'[q] > 0
                           /\ ~users'[q].created => users'[q].roles = {}
      BY <1>4, <1>5, <1>7, <2>1, StreamKinds DEF CreatedByEvents
    <2>3. \A t \in Parties \cup Products : version'[t] = version[t]
      BY <1>2, <1>7, StreamKinds
    <2> QED
      BY <1>1, <2>2, <2>3 DEF CreatedByEvents
  <1>10. KindShown'
    <2>1. \A e \in Waiting' : e.stream \in Parties => e \in Waiting
      BY <1>2, <1>7
    <2> QED
      BY <1>1, <2>1 DEF KindShown
  <1> QED
    BY <1>7, <1>8, <1>9, <1>10


-----------------------------------------------------------------------------
(* Requests *)

(* The routes of products. *)
LEMMA ProductRoutesInv ==
    ASSUME MasterInv, NEW p \in Products, CreateProduct(p) \/ ActivateProduct(p) \/ ArchiveProduct(p)
    PROVE  MasterInv'
  <1>1. CASE CreateProduct(p)
    <2>1. PICK sku \in Texts, name \in Texts : DispatchProduct(p, ProductCreated(sku, name, NoPricing))
      BY <1>1 DEF CreateProduct
    <2>2. /\ ProductCreated(sku, name, NoPricing) \in ProductEvent
          /\ ProductCreated(sku, name, NoPricing).type = "ProductCreated"
      BY DEF ProductEvent, ProductCreated
    <2> QED
      BY <2>1, <2>2, DispatchProductInv
  <1>2. CASE ActivateProduct(p)
    <2>1. DispatchProduct(p, ProductActivated) /\ products[p].created
      BY <1>2 DEF ActivateProduct, CanActivate
    <2>2. ProductActivated \in ProductEvent
      BY DEF ProductEvent
    <2> QED
      BY <2>1, <2>2, DispatchProductInv
  <1>3. CASE ArchiveProduct(p)
    <2>1. DispatchProduct(p, ProductArchived) /\ products[p].created
      BY <1>3 DEF ArchiveProduct, CanArchive
    <2>2. ProductArchived \in ProductEvent
      BY DEF ProductEvent
    <2> QED
      BY <2>1, <2>2, DispatchProductInv
  <1> QED
    BY <1>1, <1>2, <1>3

(* What a route for parties does. *)
PartyRoute(p, kind) ==
    \E permission : \/ RegisterParty(p, kind, permission) \/ UpdateParty(p, kind, permission)
                    \/ SuspendParty(p, kind, permission)

(* The routes of customers and suppliers. *)
LEMMA PartyRoutes ==
    ASSUME NEW p \in Parties,
           \/ RegisterCustomer(p) \/ UpdateCustomer(p) \/ SuspendCustomer(p)
           \/ RegisterSupplier(p) \/ UpdateSupplier(p) \/ SuspendSupplier(p)
    PROVE  \E kind \in PartyKind : PartyRoute(p, kind)
  <1>1. "Customer" \in PartyKind /\ "Supplier" \in PartyKind
    BY DEF PartyKind
  <1>2. CASE RegisterCustomer(p) \/ UpdateCustomer(p) \/ SuspendCustomer(p)
    BY <1>1, <1>2 DEF PartyRoute, RegisterCustomer, UpdateCustomer, SuspendCustomer
  <1>3. CASE RegisterSupplier(p) \/ UpdateSupplier(p) \/ SuspendSupplier(p)
    BY <1>1, <1>3 DEF PartyRoute, RegisterSupplier, UpdateSupplier, SuspendSupplier
  <1> QED
    BY <1>2, <1>3

(* Each appends an event that registers the party exactly if there was     *)
(* none.                                                                   *)
LEMMA PartyRouteDispatches ==
    ASSUME MasterInv, NEW p \in Parties, NEW kind \in PartyKind, PartyRoute(p, kind)
    PROVE  \E event \in PartyEvent, asker \in Asker :
               /\ event.type = "PartyRegistered" <=> ~parties[p].created
               /\ DispatchParty(p, asker, event)
               /\ asker.shown => asker \in passed[p]
  <1>1. parties[p] \in PartyState /\ parties[p].created \in BOOLEAN
        /\ parties[p].name \in Texts /\ parties[p].contact \in Contacts
        /\ passed[p] \subseteq Asker
    BY DEF MasterInv, TypeOK, PartyState
  <1>2. PICK permission : \/ RegisterParty(p, kind, permission) \/ UpdateParty(p, kind, permission)
                          \/ SuspendParty(p, kind, permission)
    BY DEF PartyRoute
  <1>3. CASE RegisterParty(p, kind, permission)
    <2>0. PICK asker \in Asker : asker = [kind |-> kind, shown |-> FALSE] /\ ~asker.shown
      <3>1. PICK a : a = [kind |-> kind, shown |-> FALSE]
        OBVIOUS
      <3>2. a \in Asker /\ a.shown = FALSE
        BY <3>1 DEF Asker
      <3> QED
        BY <3>1, <3>2
    <2>1. PICK name \in Texts, contact \in Contacts \cup {NotSent} :
            /\ ~parties[p].created
            /\ DispatchParty(p, asker, PartyRegistered(kind, name, OrElse(contact, NoContact)))
      BY <1>3, <2>0 DEF RegisterParty, CanRegister
    <2>2. OrElse(contact, NoContact) \in Contacts
      BY MasterDataAssumption DEF OrElse
    <2>3. PICK event : event = PartyRegistered(kind, name, OrElse(contact, NoContact))
      OBVIOUS
    <2>4. event \in PartyEvent /\ event.type = "PartyRegistered"
      BY <2>2, <2>3 DEF PartyEvent, PartyRegistered
    <2> QED
      BY <2>0, <2>1, <2>3, <2>4
  <1>4. CASE UpdateParty(p, kind, permission)
    <2>1. PICK asker \in passed[p], name \in Texts \cup {NotSent}, contact \in Contacts \cup {NotSent} :
            parties[p].created /\ DispatchParty(p, asker, UpdateOf(parties[p], name, contact))
      BY <1>4 DEF UpdateParty, CanUpdate
    <2>2. PICK n \in Texts, c \in Contacts :
            n = OrElse(name, parties[p].name) /\ c = OrElse(contact, parties[p].contact)
      BY <1>1 DEF OrElse
    <2>3. PICK event : event = UpdateOf(parties[p], name, contact)
      OBVIOUS
    <2>4. event \in PartyEvent /\ event.type = "PartyUpdated"
      BY <2>2, <2>3 DEF PartyEvent, UpdateOf, PartyUpdated
    <2> QED
      BY <1>1, <2>1, <2>3, <2>4
  <1>5. CASE SuspendParty(p, kind, permission)
    <2>1. PICK asker \in passed[p] : parties[p].created /\ DispatchParty(p, asker, PartySuspended)
      BY <1>5 DEF SuspendParty, CanSuspend
    <2>2. PartySuspended \in PartyEvent /\ PartySuspended.type = "PartySuspended"
      BY DEF PartyEvent, PartySuspended
    <2> QED
      BY <1>1, <2>1, <2>2
  <1> QED
    BY <1>2, <1>3, <1>4, <1>5

(* So they keep the invariant. *)
LEMMA PartyRouteInv ==
    ASSUME MasterInv, NEW p \in Parties, NEW kind \in PartyKind, PartyRoute(p, kind)
    PROVE  MasterInv'
  <1>1. PICK event \in PartyEvent, asker \in Asker :
               /\ event.type = "PartyRegistered" <=> ~parties[p].created
               /\ DispatchParty(p, asker, event)
    BY PartyRouteDispatches
  <1> QED
    BY <1>1, DispatchPartyInv

(* The guard on the kind only notes who passed. *)
LEMMA AskDirectoryInv ==
    ASSUME MasterInv, NEW p \in Parties, NEW kind \in PartyKind, AskDirectory(p, kind)
    PROVE  MasterInv'
  <1>1. PICK asker : asker = [kind |-> kind, shown |-> RegistrationShown(p)]
    OBVIOUS
  <1>2. asker \in Asker
    BY <1>1 DEF Asker, RegistrationShown
  <1>3. /\ passed' = [passed EXCEPT ![p] = passed[p] \cup {asker}]
        /\ UNCHANGED <<products, parties, users, version, inFlight, channel, cursor>>
        /\ UNCHANGED <<productRows, partyRows, userRows, seen, tokens, now, touched, lostAt>>
    BY <1>1 DEF AskDirectory, aggregates, readModels, identity
  <1>4. passed' \in [Parties -> SUBSET Asker]
    BY <1>2, <1>3 DEF MasterInv, TypeOK
  <1>5. /\ TypeOK' /\ CreatedByEvents' /\ NumbersGivenOut' /\ CursorFollows' /\ KindShown'
        /\ TokensTold'
    BY <1>3, <1>4 DEF MasterInv, TypeOK, CreatedByEvents, NumbersGivenOut, CursorFollows,
       KindShown, TokensTold, Waiting, InPlace
  <1>6. Followed'
    <2> SUFFICES ASSUME NEW s \in Streams PROVE \E r : History(s, r)'
      BY DEF Followed
    <2>1. PICK r : History(s, r)
      BY DEF MasterInv, Followed
    <2>2. History(s, r)'
      BY <1>3, <2>1 DEF History, Folded, Shown, Waiting, InPlace
    <2> QED
      BY <2>2
  <1> QED
    BY <1>5, <1>6 DEF MasterInv

(* The routes of users: only what takes a role away or suspends makes a    *)
(* token say more than the user has, and it notes the time.                *)
LEMMA UserRoutesInv ==
    ASSUME MasterInv, NEW u \in Users,
           \/ CreateUser(u) \/ SuspendUser(u) \/ ActivateUser(u)
           \/ \E role \in Roles : AssignRole(u, role) \/ RevokeRole(u, role)
    PROVE  MasterInv'
  <1> USE DEF MasterInv
  <1>1. users[u] \in UserState /\ users \in [Users -> UserState] /\ users[u].roles \subseteq Roles
    BY DEF TypeOK, UserState
  <1>2. /\ \A claims \in tokens : claims.sub \in Users =>
             lostAt[claims.sub] \in Nat /\ claims.issued_at \in Nat /\ now \in Nat
        /\ lostAt \in [Users -> Nat] /\ now \in Nat
    BY MasterDataAssumption DEF TypeOK, Claims
  <1>3. ASSUME NEW event \in UserEvent, DispatchUser(u, event), lostAt' = lostAt,
               event.type = "UserCreated" => ~users[u].created,
               event.type # "UserCreated" => /\ users[u].created
                                             /\ users[u].roles \subseteq users'[u].roles
                                             /\ users'[u].created
                                             /\ users[u].status = "Active" => users'[u].status = "Active"
        PROVE  MasterInv'
    <2>1. UNCHANGED <<tokens, now>> /\ \A q \in Users \ {u} : users'[q] = users[q]
      BY <1>1, <1>3 DEF DispatchUser, identity
    <2>2. TokensTold'
      <3> SUFFICES ASSUME NEW claims \in tokens, claims.sub \in Users
                   PROVE  /\ users'[claims.sub].created
                          /\ claims.issued_at <= now /\ claims.expires_at = claims.issued_at + Lifetime
                          /\ \/ /\ claims.roles \subseteq users'[claims.sub].roles
                                /\ users'[claims.sub].status = "Active"
                             \/ lostAt[claims.sub] >= claims.issued_at
        BY <1>3, <2>1 DEF TokensTold
      <3>1. CASE claims.sub = u
        BY <1>3, <3>1 DEF TokensTold
      <3>2. CASE claims.sub # u
        BY <2>1, <3>2 DEF TokensTold
      <3> QED
        BY <3>1, <3>2
    <2>3. event.type = "UserCreated" \/ users[u].created
      BY <1>3
    <2> QED
      BY <1>2, <1>3, <2>2, <2>3, DispatchUserInv
  <1>4. ASSUME NEW event \in UserEvent, DispatchUser(u, event),
               lostAt' = [lostAt EXCEPT ![u] = now], users[u].created, users'[u].created
        PROVE  MasterInv'
    <2>1. UNCHANGED <<tokens, now>> /\ \A q \in Users \ {u} : users'[q] = users[q]
      BY <1>1, <1>4 DEF DispatchUser, identity
    <2>2. TokensTold'
      <3> SUFFICES ASSUME NEW claims \in tokens, claims.sub \in Users
                   PROVE  /\ users'[claims.sub].created
                          /\ claims.issued_at <= now /\ claims.expires_at = claims.issued_at + Lifetime
                          /\ \/ /\ claims.roles \subseteq users'[claims.sub].roles
                                /\ users'[claims.sub].status = "Active"
                             \/ lostAt'[claims.sub] >= claims.issued_at
        BY <2>1 DEF TokensTold
      <3>1. CASE claims.sub = u
        <4>1. lostAt'[u] = now
          BY <1>2, <1>4
        <4> QED
          BY <1>2, <1>4, <3>1, <4>1 DEF TokensTold
      <3>2. CASE claims.sub # u
        BY <1>2, <1>4, <2>1, <3>2 DEF TokensTold
      <3> QED
        BY <3>1, <3>2
    <2>3. lostAt' \in [Users -> Nat]
      BY <1>2, <1>4
    <2> QED
      BY <1>4, <2>2, <2>3, DispatchUserInv
  <1>5. ASSUME NEW event, DispatchUser(u, event)
        PROVE  users'[u] = ApplyUser(users[u], event)
    BY <1>1, <1>5 DEF DispatchUser
  <1>6. CASE CreateUser(u)
    <2>1. PICK roles \in SUBSET Roles : DispatchUser(u, UserCreated(roles)) /\ ~users[u].created
      BY <1>6 DEF CreateUser, CanCreateUser
    <2>2. UserCreated(roles) \in UserEvent /\ UserCreated(roles).type = "UserCreated"
      BY DEF UserEvent, UserCreated
    <2>3. lostAt' = lostAt
      BY <1>6 DEF CreateUser
    <2> QED
      BY <1>3, <2>1, <2>2, <2>3
  <1>7. ASSUME NEW role \in Roles, AssignRole(u, role) PROVE MasterInv'
    <2>1. DispatchUser(u, RoleAssigned(role)) /\ users[u].created /\ lostAt' = lostAt
      BY <1>7 DEF AssignRole, CanAssignRole
    <2>2. RoleAssigned(role) \in UserEvent /\ RoleAssigned(role).type = "RoleAssigned"
      BY DEF UserEvent, RoleAssigned
    <2>3. users'[u] = [users[u] EXCEPT !.roles = users[u].roles \cup {role}]
      <3>1. users'[u] = ApplyUser(users[u], RoleAssigned(role))
        BY <1>5, <2>1
      <3> QED
        BY <3>1 DEF ApplyUser, RoleAssigned
    <2>4. /\ users[u].roles \subseteq users'[u].roles /\ users'[u].created
          /\ users'[u].status = users[u].status
      BY <1>1, <2>1, <2>3 DEF UserState
    <2> QED
      BY <1>3, <2>1, <2>2, <2>4
  <1>8. ASSUME NEW role \in Roles, RevokeRole(u, role) PROVE MasterInv'
    <2>1. /\ DispatchUser(u, RoleRevoked(role)) /\ users[u].created
          /\ lostAt' = [lostAt EXCEPT ![u] = now]
      BY <1>8 DEF RevokeRole, CanRevokeRole
    <2>2. RoleRevoked(role) \in UserEvent
      BY DEF UserEvent
    <2>3. users'[u] = [users[u] EXCEPT !.roles = users[u].roles \ {role}]
      <3>1. users'[u] = ApplyUser(users[u], RoleRevoked(role))
        BY <1>5, <2>1
      <3> QED
        BY <3>1 DEF ApplyUser, RoleRevoked
    <2>4. users'[u].created
      BY <1>1, <2>1, <2>3 DEF UserState
    <2> QED
      BY <1>4, <2>1, <2>2, <2>4
  <1>9. CASE SuspendUser(u)
    <2>1. /\ DispatchUser(u, UserSuspended) /\ users[u].created
          /\ lostAt' = [lostAt EXCEPT ![u] = now]
      BY <1>9 DEF SuspendUser, CanSuspendUser
    <2>2. UserSuspended \in UserEvent
      BY DEF UserEvent
    <2>3. users'[u] = [users[u] EXCEPT !.status = "Suspended"]
      <3>1. users'[u] = ApplyUser(users[u], UserSuspended)
        BY <1>5, <2>1
      <3> QED
        BY <3>1 DEF ApplyUser, UserSuspended
    <2>4. users'[u].created
      BY <1>1, <2>1, <2>3 DEF UserState
    <2> QED
      BY <1>4, <2>1, <2>2, <2>4
  <1>10. CASE ActivateUser(u)
    <2>1. DispatchUser(u, UserActivated) /\ users[u].created /\ lostAt' = lostAt
      BY <1>10 DEF ActivateUser, CanActivateUser
    <2>2. UserActivated \in UserEvent /\ UserActivated.type = "UserActivated"
      BY DEF UserEvent, UserActivated
    <2>3. users'[u] = [users[u] EXCEPT !.status = "Active"]
      <3>1. users'[u] = ApplyUser(users[u], UserActivated)
        BY <1>5, <2>1
      <3> QED
        BY <3>1 DEF ApplyUser, UserActivated
    <2>4. /\ users[u].roles \subseteq users'[u].roles /\ users'[u].created
          /\ users'[u].status = "Active"
      BY <1>1, <2>1, <2>3 DEF UserState
    <2> QED
      BY <1>3, <2>1, <2>2, <2>4
  <1> QED
    BY <1>6, <1>7, <1>8, <1>9, <1>10


-----------------------------------------------------------------------------
(* Tokens and time *)

(* A new token carries what its user has; time only passes. *)
LEMMA IdentityInv ==
    ASSUME MasterInv, Tick \/ \E u \in Users : IssueToken(u)
    PROVE  MasterInv'
  <1> USE DEF MasterInv
  <1>1. /\ UNCHANGED <<aggregates, inFlight, channel, readModels, passed, touched, lostAt>>
        /\ UNCHANGED <<products, parties, users, version, cursor, productRows, partyRows, userRows, seen>>
    BY DEF Tick, IssueToken, aggregates, readModels
  <1>2. now \in Nat /\ Lifetime \in Nat /\ MaxTime \in Nat
    BY MasterDataAssumption DEF TypeOK
  <1>3. CreatedByEvents' /\ NumbersGivenOut' /\ CursorFollows' /\ KindShown'
    BY <1>1 DEF CreatedByEvents, NumbersGivenOut, CursorFollows, KindShown, Waiting, InPlace
  <1>4. Followed'
    <2> SUFFICES ASSUME NEW s \in Streams PROVE \E r : History(s, r)'
      BY DEF Followed
    <2>1. PICK r : History(s, r)
      BY DEF Followed
    <2>2. History(s, r)'
      BY <1>1, <2>1 DEF History, Folded, Shown, Waiting, InPlace
    <2> QED
      BY <2>2
  <1>5. CASE Tick
    <2>1. now' = now + 1 /\ now' \in 0 .. MaxTime /\ tokens' = tokens
      BY <1>2, <1>5 DEF Tick, TypeOK
    <2>2. TypeOK'
      BY <1>1, <2>1 DEF TypeOK
    <2>3. TokensTold'
      <3> SUFFICES ASSUME NEW claims \in tokens, claims.sub \in Users
                   PROVE  /\ users[claims.sub].created
                          /\ claims.issued_at <= now + 1
                          /\ claims.expires_at = claims.issued_at + Lifetime
                          /\ \/ /\ claims.roles \subseteq users[claims.sub].roles
                                /\ users[claims.sub].status = "Active"
                             \/ lostAt[claims.sub] >= claims.issued_at
        BY <1>1, <2>1 DEF TokensTold
      <3>1. claims.issued_at \in Nat
        BY DEF TypeOK, Claims
      <3> QED
        BY <1>2, <3>1 DEF TokensTold
    <2> QED
      BY <1>3, <1>4, <2>2, <2>3
  <1>6. ASSUME NEW u \in Users, IssueToken(u) PROVE MasterInv'
    <2>1. /\ users[u].created /\ users[u].status = "Active" /\ now' = now
          /\ tokens' = tokens \cup {Issued(u)}
      BY <1>6 DEF IssueToken
    <2>2. users[u].roles \in SUBSET Roles
      BY DEF TypeOK
    <2>3. PICK new : new = Issued(u)
      OBVIOUS
    <2>4. /\ new.sub = u /\ new.roles = users[u].roles /\ new.issued_at = now
          /\ new.expires_at = now + Lifetime /\ new \in Claims
      BY <1>2, <2>2, <2>3 DEF Issued, Claims
    <2>5. TypeOK'
      BY <1>1, <2>1, <2>3, <2>4 DEF TypeOK
    <2>6. TokensTold'
      <3> SUFFICES ASSUME NEW claims \in tokens', claims.sub \in Users
                   PROVE  /\ users[claims.sub].created
                          /\ claims.issued_at <= now
                          /\ claims.expires_at = claims.issued_at + Lifetime
                          /\ \/ /\ claims.roles \subseteq users[claims.sub].roles
                                /\ users[claims.sub].status = "Active"
                             \/ lostAt[claims.sub] >= claims.issued_at
        BY <1>1, <2>1 DEF TokensTold
      <3>1. CASE claims \in tokens
        BY <3>1 DEF TokensTold
      <3>2. CASE claims = new
        BY <1>2, <2>1, <2>4, <3>2
      <3> QED
        BY <2>1, <2>3, <3>1, <3>2
    <2> QED
      BY <1>3, <1>4, <2>5, <2>6
  <1> QED
    BY <1>5, <1>6

-----------------------------------------------------------------------------
(* Delivery *)

(* Publishing moves an envelope from one place to the other. *)
LEMMA PublishInv ==
    ASSUME MasterInv, NEW e \in inFlight, Publish(e)
    PROVE  MasterInv'
  <1> USE DEF MasterInv
  <1>1. /\ inFlight' = inFlight \ {e} /\ channel' = Append(channel, e)
        /\ UNCHANGED <<aggregates, readModels, identity, passed, touched, lostAt>>
        /\ UNCHANGED <<products, parties, users, version, cursor, productRows, partyRows, userRows,
                       seen, tokens, now>>
    BY DEF Publish, aggregates, readModels, identity
  <1>2. channel \in Seq(Envelope) /\ e \in Envelope
    BY DEF TypeOK
  <1>3. /\ channel' \in Seq(Envelope) /\ Len(channel') = Len(channel) + 1 /\ Len(channel) \in Nat
        /\ channel'[Len(channel) + 1] = e
        /\ \A i \in 1 .. Len(channel) : channel'[i] = channel[i]
    BY <1>1, <1>2
  <1>4. Waiting' = Waiting
    <2>1. \A x \in Waiting' : x \in Waiting
      BY <1>1, <1>3 DEF Waiting
    <2>2. \A x \in Waiting : x \in Waiting'
      <3> TAKE x \in Waiting
      <3>1. CASE x \in inFlight \ {e}
        BY <1>1, <3>1 DEF Waiting
      <3>2. CASE x = e
        <4>1. Len(channel) + 1 \in 1 .. Len(channel')
          BY <1>3
        <4> QED
          BY <1>3, <3>2, <4>1 DEF Waiting
      <3>3. ASSUME NEW i \in 1 .. Len(channel), x = channel[i] PROVE x \in Waiting'
        <4>1. i \in 1 .. Len(channel')
          BY <1>3
        <4> QED
          BY <1>3, <3>3, <4>1 DEF Waiting
      <3> QED
        BY <3>1, <3>2, <3>3 DEF Waiting
    <2> QED
      BY <2>1, <2>2
  <1>5. TypeOK'
    BY <1>1, <1>3 DEF TypeOK
  <1>6. CreatedByEvents' /\ NumbersGivenOut' /\ CursorFollows' /\ KindShown' /\ TokensTold'
    BY <1>1, <1>4 DEF CreatedByEvents, NumbersGivenOut, CursorFollows, KindShown, InPlace, TokensTold
  <1>7. Followed'
    <2> SUFFICES ASSUME NEW s \in Streams PROVE \E r : History(s, r)'
      BY DEF Followed
    <2>1. PICK r : History(s, r)
      BY DEF Followed
    <2>2. History(s, r)'
      BY <1>1, <1>4, <2>1 DEF History, Folded, Shown, InPlace
    <2> QED
      BY <2>2
  <1> QED
    BY <1>5, <1>6, <1>7

(* Rows stay rows whatever comes. *)
LEMMA RowTypes ==
    /\ \A row \in ProductRowType, event \in ProductEvent : ProductRowAfter(row, event) \in ProductRowType
    /\ \A row \in PartyRowType, event \in PartyEvent : PartyRowAfter(row, event) \in PartyRowType
    /\ \A row \in UserRowType, event \in UserEvent : UserRowAfter(row, event) \in UserRowType
  <1>1. ASSUME NEW row \in ProductRowType, NEW event \in ProductEvent
        PROVE  ProductRowAfter(row, event) \in ProductRowType
    <2>1. CASE event.type = "ProductCreated"
      <3>1. PICK sku \in Texts, name \in Texts : event = ProductCreated(sku, name, NoPricing)
        BY <2>1 DEF ProductEvent, ProductActivated, ProductArchived
      <3> QED
        BY <2>1, <3>1 DEF ProductCreated, ProductRowAfter, ProductRowType, ProductStatus
    <2>2. CASE event.type # "ProductCreated"
      <3>1. event.type \in {"ProductActivated", "ProductArchived"}
        BY <2>2 DEF ProductEvent, ProductCreated, ProductActivated, ProductArchived
      <3> QED
        BY <3>1 DEF ProductRowAfter, ProductRowType, ProductStatus
    <2> QED
      BY <2>1, <2>2
  <1>2. ASSUME NEW row \in PartyRowType, NEW event \in PartyEvent
        PROVE  PartyRowAfter(row, event) \in PartyRowType
    <2>1. CASE event.type = "PartyRegistered"
      <3>1. PICK kind \in PartyKind, name \in Texts, contact \in Contacts :
                event = PartyRegistered(kind, name, contact)
        BY <2>1 DEF PartyEvent, PartyUpdated, PartySuspended
      <3> QED
        BY <2>1, <3>1 DEF PartyRegistered, PartyRowAfter, PartyRowType
    <2>2. Present(row) \in PartyRowType
      BY DEF Present, PartyRowType
    <2>3. CASE event.type = "PartyUpdated"
      <3>1. PICK name \in Texts, contact \in Contacts : event = PartyUpdated(name, contact)
        BY <2>3 DEF PartyEvent, PartyRegistered, PartySuspended
      <3>2. PartyRowAfter(row, event) = [Present(row) EXCEPT !.name = name, !.contact = contact]
        BY <2>3, <3>1 DEF PartyUpdated, PartyRowAfter
      <3> QED
        BY <2>2, <3>2 DEF PartyRowType
    <2>4. CASE event.type = "PartySuspended"
      BY <2>2, <2>4 DEF PartyRowAfter, PartyRowType
    <2> QED
      BY <2>1, <2>3, <2>4 DEF PartyEvent, PartyRegistered, PartyUpdated, PartySuspended
  <1>3. ASSUME NEW row \in UserRowType, NEW event \in UserEvent
        PROVE  UserRowAfter(row, event) \in UserRowType
    <2>1. CASE event.type = "UserCreated"
      <3>1. PICK roles \in SUBSET Roles : event = UserCreated(roles)
        BY <2>1 DEF UserEvent, RoleAssigned, RoleRevoked, UserSuspended, UserActivated
      <3>2. event.roles = roles
        BY <3>1 DEF UserCreated
      <3> QED
        BY <2>1, <3>2 DEF UserRowAfter, UserRowType
    <2>2. CASE event.type = "RoleAssigned"
      <3>1. PICK role \in Roles : event = RoleAssigned(role)
        BY <2>2 DEF UserEvent, UserCreated, RoleRevoked, UserSuspended, UserActivated
      <3>2. event.role = role
        BY <3>1 DEF RoleAssigned
      <3> QED
        BY <2>2, <3>2 DEF UserRowAfter, UserRowType
    <2>3. CASE event.type \in {"RoleRevoked", "UserSuspended", "UserActivated"}
      BY <2>3 DEF UserRowAfter, UserRowType
    <2> QED
      BY <2>1, <2>2, <2>3
         DEF UserEvent, UserCreated, RoleAssigned, RoleRevoked, UserSuspended, UserActivated
  <1> QED
    BY <1>1, <1>2, <1>3

(* A row that is there keeps its kind unless the party is registered.      *)
LEMMA KindKept ==
    ASSUME NEW row \in PartyRowType, NEW event \in PartyEvent,
           row.status # "NoRow" \/ event.type = "PartyRegistered"
    PROVE  /\ PartyRowAfter(row, event).status # "NoRow"
           /\ PartyRowAfter(row, event).kind =
                  IF event.type = "PartyRegistered" THEN event.kind ELSE row.kind
  <1>1. CASE event.type = "PartyRegistered"
    BY <1>1 DEF PartyRowAfter
  <1>2. CASE event.type # "PartyRegistered"
    <2>1. Present(row) = row
      BY <1>2 DEF Present, NoPartyRow
    <2>2. CASE event.type = "PartyUpdated"
      <3>1. PartyRowAfter(row, event) = [row EXCEPT !.name = event.name, !.contact = event.contact]
        BY <2>1, <2>2 DEF PartyRowAfter
      <3> QED
        BY <1>2, <3>1 DEF PartyRowType
    <2>3. CASE event.type = "PartySuspended"
      <3>1. PartyRowAfter(row, event) = [row EXCEPT !.status = "Suspended"]
        BY <2>1, <2>3 DEF PartyRowAfter
      <3> QED
        BY <1>2, <3>1 DEF PartyRowType
    <2> QED
      BY <1>2, <2>2, <2>3 DEF PartyEvent, PartyRegistered, PartyUpdated, PartySuspended
  <1> QED
    BY <1>1, <1>2


(* The projection loop applies an envelope, or its cursor refuses it: what *)
(* comes in order is applied, and brings the row one step on.              *)
LEMMA DeliverInv ==
    ASSUME MasterInv, Deliver
    PROVE  MasterInv'
  <1> USE DEF MasterInv
  <1>1. channel \in Seq(Envelope) /\ channel # <<>>
    BY DEF TypeOK, Deliver
  <1>2. PICK e : e = Head(channel)
    OBVIOUS
  <1>3. e \in Waiting /\ channel' \in Seq(Envelope) /\ \A x \in Waiting' : x \in Waiting
    <2>1. channel' = Tail(channel) /\ inFlight' = inFlight
      BY DEF Deliver
    <2>2. /\ Len(channel) \in Nat /\ 1 \in 1 .. Len(channel) /\ e = channel[1]
          /\ channel' \in Seq(Envelope) /\ Len(channel') = Len(channel) - 1
          /\ \A i \in 1 .. Len(channel) - 1 : channel'[i] = channel[i + 1] /\ i + 1 \in 1 .. Len(channel)
      BY <1>1, <1>2, <2>1
    <2> QED
      BY <2>1, <2>2 DEF Waiting
  <1>4. PICK s, seq, event : s = e.stream /\ seq = e.seq /\ event = e.event
    OBVIOUS
  <1>5. s \in Streams /\ seq \in Nat \ {0} /\ event \in EventsOf(s) /\ seq <= version[s]
    BY <1>3, <1>4, EnvelopeParts DEF NumbersGivenOut
  <1>6. /\ seen' = [seen EXCEPT ![s] = Append(seen[s], seq)]
        /\ cursor' = IF s \notin Users /\ Applies(s, seq) THEN [cursor EXCEPT ![s] = seq] ELSE cursor
        /\ productRows' = [p \in Products |->
              IF p = s /\ Applies(s, seq) THEN ProductRowAfter(productRows[p], event)
              ELSE productRows[p]]
        /\ partyRows' = [p \in Parties |->
              IF p = s /\ Applies(s, seq) THEN PartyRowAfter(partyRows[p], event)
              ELSE partyRows[p]]
        /\ userRows' = [u \in Users |->
              IF u = s THEN UserRowAfter(userRows[u], event) ELSE userRows[u]]
    BY <1>2, <1>4 DEF Deliver
  <1>7. UNCHANGED <<inFlight, products, parties, users, version, tokens, now, passed, touched, lostAt>>
    BY DEF Deliver, aggregates, identity
  <1>8. /\ seen[s] \in Seq(Nat) /\ Len(seen[s]) \in Nat /\ cursor[s] \in Nat /\ version[s] \in Nat
        /\ seen'[s] = Append(seen[s], seq) /\ Len(seen'[s]) = Len(seen[s]) + 1
        /\ seen'[s] \in Seq(Nat) /\ seen'[s][Len(seen[s]) + 1] = seq
        /\ \A i \in 1 .. Len(seen[s]) : seen'[s][i] = seen[s][i]
        /\ \A t \in Streams \ {s} : seen'[t] = seen[t]
    <2>1. seen[s] \in Seq(Nat) /\ cursor[s] \in Nat /\ version[s] \in Nat /\ seen \in [Streams -> Seq(Nat)]
      BY <1>5 DEF TypeOK
    <2>2. seen'[s] = Append(seen[s], seq) /\ \A t \in Streams \ {s} : seen'[t] = seen[t]
      BY <1>5, <1>6, <2>1
    <2> QED
      BY <1>5, <2>1, <2>2
  <1>9. TypeOK'
    <2>1. seen' \in [Streams -> Seq(Nat)]
      <3>1. Append(seen[s], seq) \in Seq(Nat)
        BY <1>8
      <3> QED
        BY <1>6, <3>1 DEF TypeOK
    <2>2. cursor' \in [Streams -> Nat]
      BY <1>5, <1>6 DEF TypeOK
    <2>3. productRows' \in [Products -> ProductRowType]
      <3>1. productRows \in [Products -> ProductRowType]
        BY DEF TypeOK, ProductRowType
      <3>2. s \in Products => event \in ProductEvent
        BY <1>5 DEF EventsOf
      <3> QED
        BY <1>6, <3>1, <3>2, RowTypes
    <2>4. partyRows' \in [Parties -> PartyRowType]
      <3>1. partyRows \in [Parties -> PartyRowType]
        BY DEF TypeOK, PartyRowType
      <3>2. s \in Parties => event \in PartyEvent
        BY <1>5, StreamKinds DEF EventsOf
      <3> QED
        BY <1>6, <3>1, <3>2, RowTypes
    <2>5. userRows' \in [Users -> UserRowType]
      <3>1. userRows \in [Users -> UserRowType]
        BY DEF TypeOK, UserRowType
      <3>2. s \in Users => event \in UserEvent
        BY <1>5, StreamKinds DEF EventsOf
      <3> QED
        BY <1>6, <3>1, <3>2, RowTypes
    <2> QED
      BY <1>3, <1>7, <2>1, <2>2, <2>3, <2>4, <2>5
         DEF TypeOK, ProductRowType, PartyRowType, UserRowType
  <1>10. CreatedByEvents' /\ TokensTold'
    BY <1>7 DEF CreatedByEvents, TokensTold
  <1>11. NumbersGivenOut'
    <2>1. \A x \in Waiting' : x.seq <= version[x.stream]
      BY <1>3 DEF NumbersGivenOut
    <2>2. ASSUME NEW t \in Streams, NEW i \in 1 .. Len(seen'[t])
          PROVE  1 <= seen'[t][i] /\ seen'[t][i] <= version[t]
      <3>1. CASE t # s
        BY <1>8, <3>1 DEF NumbersGivenOut
      <3>2. CASE t = s /\ i = Len(seen[s]) + 1
        BY <1>5, <1>8, <3>2
      <3>3. CASE t = s /\ i # Len(seen[s]) + 1
        <4>1. i \in 1 .. Len(seen[s])
          BY <1>8, <3>3
        <4> QED
          BY <1>5, <1>8, <3>3, <4>1 DEF NumbersGivenOut
      <3> QED
        BY <3>1, <3>2, <3>3
    <2> QED
      BY <1>7, <2>1, <2>2 DEF NumbersGivenOut
  <1>12. \A t \in Streams \ {s} : /\ InPlace(t)' <=> InPlace(t)
                                  /\ Shown(t)' = Shown(t) /\ cursor'[t] = cursor[t]
    <2>1. cursor \in [Streams -> Nat]
      BY DEF TypeOK
    <2> QED
      BY <1>6, <1>8, <2>1, StreamKinds DEF InPlace, Shown
  <1>13. ASSUME InPlace(s)' PROVE InPlace(s) /\ seq = Len(seen[s]) + 1
    <2>1. \A i \in 1 .. Len(seen'[s]) : seen'[s][i] = i
      BY <1>13 DEF InPlace
    <2> QED
      BY <1>8, <2>1 DEF InPlace
  <1>14. ASSUME s \notin Users, cursor[s] = 0 \/ seq = cursor[s] + 1
         PROVE  Applies(s, seq) /\ cursor'[s] = seq
    <2>1. CursorVerdict(cursor[s], seq) = "Next"
      BY <1>5, <1>8, <1>14 DEF CursorVerdict
    <2> QED
      BY <1>5, <1>6, <1>14, <2>1 DEF Applies, TypeOK
  <1>15. CursorFollows'
    <2> SUFFICES ASSUME NEW t \in Streams \ Users, InPlace(t)' PROVE cursor'[t] = Len(seen'[t])
      BY DEF CursorFollows
    <2>1. CASE t # s
      BY <1>8, <1>12, <2>1 DEF CursorFollows
    <2>2. CASE t = s
      BY <1>8, <1>13, <1>14, <2>2 DEF CursorFollows
    <2> QED
      BY <2>1, <2>2
  <1>16. ASSUME InPlace(s)' PROVE Shown(s)' = RowAfter(s, Shown(s), event)
    <2>1. s \in Users \/ Applies(s, seq)
      BY <1>5, <1>13, <1>14, <1>16 DEF CursorFollows
    <2> QED
      BY <1>5, <1>6, <2>1, StreamKinds DEF Shown, RowAfter
  <1>17. Followed'
    <2> SUFFICES ASSUME NEW t \in Streams PROVE \E r : History(t, r)'
      BY DEF Followed
    <2>1. PICK r : History(t, r)
      BY DEF Followed
    <2>2. Folded(t)' = Folded(t) /\ version'[t] = version[t]
      BY <1>7 DEF Folded
    <2>3. \A x \in Waiting' : x.stream = t => r[x.seq] = RowAfter(t, r[x.seq - 1], x.event)
      BY <1>3, <2>1 DEF History
    <2>4. ASSUME InPlace(t)' PROVE Shown(t)' = r[Len(seen'[t])]
      <3>1. CASE t # s
        BY <1>8, <1>12, <2>1, <2>4, <3>1 DEF History
      <3>2. CASE t = s
        <4>1. InPlace(s) /\ seq = Len(seen[s]) + 1 /\ seq - 1 = Len(seen[s]) /\ Len(seen'[s]) = seq
          BY <1>8, <1>13, <2>4, <3>2
        <4>2. r[seq] = RowAfter(s, r[seq - 1], event)
          BY <1>3, <1>4, <2>1, <3>2 DEF History
        <4>3. Shown(s) = r[Len(seen[s])]
          BY <2>1, <3>2, <4>1 DEF History
        <4>4. Shown(s)' = RowAfter(s, Shown(s), event)
          BY <1>16, <2>4, <3>2
        <4> QED
          BY <3>2, <4>1, <4>2, <4>3, <4>4
      <3> QED
        BY <3>1, <3>2
    <2>5. History(t, r)'
      BY <2>1, <2>2, <2>3, <2>4 DEF History
    <2> QED
      BY <2>5
  <1>18. KindShown'
    <2> SUFFICES ASSUME NEW p \in Parties
                 PROVE  /\ \A x \in Waiting' : x.stream = p =>
                              /\ x.seq = 1 => x.event.type = "PartyRegistered"
                              /\ x.event.type = "PartyRegistered" => x.event.kind = parties[p].kind
                        /\ seen'[p] # <<>> /\ seen'[p][1] = 1 =>
                              partyRows'[p].status # "NoRow" /\ partyRows'[p].kind = parties[p].kind
      BY <1>7 DEF KindShown
    <2>1. \A x \in Waiting' : x.stream = p =>
              /\ x.seq = 1 => x.event.type = "PartyRegistered"
              /\ x.event.type = "PartyRegistered" => x.event.kind = parties[p].kind
      BY <1>3 DEF KindShown
    <2>2. CASE p # s
      BY <1>6, <1>8, <2>1, <2>2, StreamKinds DEF KindShown
    <2>3. CASE p = s
      <3>1. partyRows[p] \in PartyRowType /\ event \in PartyEvent /\ p \notin Users /\ p \in Streams
        BY <1>5, <2>3, StreamKinds DEF TypeOK, PartyRowType, EventsOf
      <3>2. /\ seq = 1 => event.type = "PartyRegistered"
            /\ event.type = "PartyRegistered" => event.kind = parties[p].kind
        BY <1>3, <1>4, <2>3 DEF KindShown
      <3>3. partyRows'[p] = IF Applies(s, seq) THEN PartyRowAfter(partyRows[p], event) ELSE partyRows[p]
        BY <1>6, <2>3
      <3>4. ASSUME seen'[p][1] = 1
            PROVE  partyRows'[p].status # "NoRow" /\ partyRows'[p].kind = parties[p].kind
        <4>1. CASE seen[p] = <<>>
          <5>1. Len(seen[p]) = 0 /\ InPlace(p)
            BY <4>1 DEF InPlace
          <5>2. cursor[s] = 0 /\ seq = 1
            BY <1>8, <2>3, <3>1, <3>4, <5>1 DEF CursorFollows
          <5>3. Applies(s, seq) /\ event.type = "PartyRegistered"
            BY <1>14, <2>3, <3>1, <3>2, <5>2
          <5> QED
            BY <3>1, <3>2, <3>3, <5>3, KindKept
        <4>2. CASE seen[p] # <<>>
          <5>1. 1 \in 1 .. Len(seen[s]) /\ seen[p][1] = 1
            <6>1. PICK l \in Seq(Nat) : l = seen[s] /\ l # <<>>
              BY <1>8, <2>3, <4>2
            <6>2. 1 \in 1 .. Len(l)
              BY <6>1
            <6>3. seen'[s][1] = seen[s][1]
              BY <1>8, <6>1, <6>2
            <6> QED
              BY <2>3, <3>4, <6>1, <6>2, <6>3
          <5>2. partyRows[p].status # "NoRow" /\ partyRows[p].kind = parties[p].kind
            BY <4>2, <5>1 DEF KindShown
          <5> QED
            BY <3>1, <3>2, <3>3, <5>2, KindKept
        <4> QED
          BY <4>1, <4>2
      <3> QED
        BY <2>1, <3>4
    <2> QED
      BY <2>2, <2>3
  <1> QED
    BY <1>9, <1>10, <1>11, <1>15, <1>17, <1>18

-----------------------------------------------------------------------------
(* The theorems *)

(* At the start there is nothing but the administrator's token. *)
LEMMA InitMaster == Init => MasterInv
  <1> SUFFICES ASSUME Init PROVE MasterInv
    OBVIOUS
  <1> USE MasterDataAssumption
  <1>1. TypeOK
    <2>1. products \in [Products -> ProductState] /\ productRows \in [Products -> ProductRowType]
      BY DEF Init, EmptyProduct, NoProductRow, ProductState, ProductRowType, ProductStatus
    <2>2. parties \in [Parties -> PartyState] /\ partyRows \in [Parties -> PartyRowType]
      BY DEF Init, EmptyParty, NoPartyRow, PartyState, PartyRowType, PartyKind
    <2>3. users \in [Users -> UserState] /\ userRows \in [Users -> UserRowType]
      BY DEF Init, EmptyUser, NoUserRow, UserState, UserRowType
    <2>4. tokens \subseteq Claims /\ now \in 0 .. MaxTime
      <3>1. RootToken \in Claims
        BY DEF RootToken, Claims
      <3> QED
        BY <3>1 DEF Init
    <2>5. channel \in Seq(Envelope) /\ seen \in [Streams -> Seq(Nat)]
      <3>1. <<>> \in Seq(Envelope) /\ <<>> \in Seq(Nat)
        OBVIOUS
      <3> QED
        BY <3>1 DEF Init
    <2> QED
      BY <2>1, <2>2, <2>3, <2>4, <2>5
         DEF TypeOK, Init, ProductState, ProductRowType, PartyState, PartyRowType, UserState, UserRowType
  <1>2. Waiting = {} /\ \A s \in Streams : seen[s] = <<>> /\ Len(seen[s]) = 0 /\ version[s] = 0
    BY DEF Init, Waiting
  <1>3. CreatedByEvents
    BY <1>2, StreamKinds DEF Init, CreatedByEvents, EmptyProduct, EmptyParty, EmptyUser
  <1>4. NumbersGivenOut /\ CursorFollows /\ KindShown
    BY <1>2, StreamKinds DEF Init, NumbersGivenOut, CursorFollows, KindShown
  <1>5. Followed
    <2> SUFFICES ASSUME NEW s \in Streams PROVE \E r : History(s, r)
      BY DEF Followed
    <2>1. Folded(s) = NoRow(s) /\ Shown(s) = NoRow(s)
      BY StreamKinds DEF Init, Folded, Shown, NoRow, ProductRow, PartyRow, UserRow,
         EmptyProduct, EmptyParty, EmptyUser
    <2>2. PICK r : r[0] = NoRow(s)
      <3>1. [n \in {0} |-> NoRow(s)][0] = NoRow(s)
        OBVIOUS
      <3> QED
        BY <3>1
    <2>3. History(s, r)
      BY <1>2, <2>1, <2>2 DEF History
    <2> QED
      BY <2>3
  <1>6. TokensTold
    BY DEF Init, TokensTold, RootToken
  <1> QED
    BY <1>1, <1>3, <1>4, <1>5, <1>6 DEF MasterInv

(* Every step keeps the invariant. *)
LEMMA NextMaster == MasterInv /\ [Next]_vars => MasterInv'
  <1> SUFFICES ASSUME MasterInv, [Next]_vars PROVE MasterInv'
    OBVIOUS
  <1>1. ASSUME NEW p \in Products, CreateProduct(p) \/ ActivateProduct(p) \/ ArchiveProduct(p)
        PROVE  MasterInv'
    BY <1>1, ProductRoutesInv
  <1>2. ASSUME NEW p \in Parties,
               \/ RegisterCustomer(p) \/ UpdateCustomer(p) \/ SuspendCustomer(p)
               \/ RegisterSupplier(p) \/ UpdateSupplier(p) \/ SuspendSupplier(p)
        PROVE  MasterInv'
    <2>1. PICK kind \in PartyKind : PartyRoute(p, kind)
      BY <1>2, PartyRoutes
    <2> QED
      BY <2>1, PartyRouteInv
  <1>9. ASSUME NEW p \in Parties, NEW kind \in PartyKind, AskDirectory(p, kind) PROVE MasterInv'
    BY <1>9, AskDirectoryInv
  <1>3. ASSUME NEW u \in Users, CreateUser(u) \/ SuspendUser(u) \/ ActivateUser(u)
        PROVE  MasterInv'
    BY <1>3, UserRoutesInv
  <1>4. ASSUME NEW u \in Users, NEW role \in Roles, AssignRole(u, role) \/ RevokeRole(u, role)
        PROVE  MasterInv'
    BY <1>4, UserRoutesInv
  <1>5. CASE Tick \/ \E u \in Users : IssueToken(u)
    BY <1>5, IdentityInv
  <1>6. ASSUME NEW e \in inFlight, Publish(e) PROVE MasterInv'
    BY <1>6, PublishInv
  <1>7. CASE Deliver
    BY <1>7, DeliverInv
  <1>8. CASE UNCHANGED vars
    <2>1. /\ UNCHANGED <<products, parties, users, version, inFlight, channel, cursor>>
          /\ UNCHANGED <<productRows, partyRows, userRows, seen, tokens, now, passed, touched, lostAt>>
      BY <1>8 DEF vars, aggregates, readModels, identity
    <2>2. /\ TypeOK' /\ CreatedByEvents' /\ NumbersGivenOut' /\ CursorFollows' /\ KindShown'
          /\ TokensTold'
      BY <2>1 DEF MasterInv, TypeOK, CreatedByEvents, NumbersGivenOut, CursorFollows, KindShown,
         TokensTold, Waiting, InPlace
    <2>3. Followed'
      <3> SUFFICES ASSUME NEW s \in Streams PROVE \E r : History(s, r)'
        BY DEF Followed
      <3>1. PICK r : History(s, r)
        BY DEF MasterInv, Followed
      <3>2. History(s, r)'
        BY <2>1, <3>1 DEF History, Folded, Shown, Waiting, InPlace
      <3> QED
        BY <3>2
    <2> QED
      BY <2>2, <2>3 DEF MasterInv
  <1> QED
    BY <1>1, <1>2, <1>3, <1>4, <1>5, <1>6, <1>7, <1>8, <1>9 DEF Next

(* The invariant holds of every behaviour of requests, publications and    *)
(* deliveries.                                                             *)
THEOREM MasterInvariance == Spec => []MasterInv
  BY InitMaster, NextMaster, PTL DEF Spec

(* A stream delivered in order is shown by the read models as the          *)
(* aggregates fold it (apply_envelope against apply), and parties are      *)
(* listed under their own kind.                                            *)
THEOREM DirectoriesAreFolds == Spec => []DirectoriesMatch
  <1>1. ASSUME MasterInv PROVE DirectoriesMatch
    <2> USE <1>1 DEF MasterInv
    <2>1. ASSUME NEW s \in Streams, InOrder(s) PROVE Shown(s) = Folded(s)
      <3>1. PICK r : History(s, r)
        BY DEF Followed
      <3>2. version[s] \in Nat /\ seen[s] = [i \in 1 .. version[s] |-> i]
        BY <2>1 DEF TypeOK, InOrder
      <3>3. Len(seen[s]) = version[s] /\ InPlace(s)
        BY <3>2 DEF InPlace
      <3> QED
        BY <3>1, <3>3 DEF History
    <2>2. ASSUME NEW p \in Products, InOrder(p), version[p] > 0
          PROVE  productRows[p] = [sku |-> products[p].sku, name |-> products[p].name,
                                   status |-> products[p].status, pricing |-> products[p].pricing]
      <3>1. Shown(p) = Folded(p) /\ products[p].created
        BY <2>1, <2>2, StreamKinds DEF CreatedByEvents
      <3> QED
        BY <3>1 DEF Shown, Folded, ProductRow
    <2>3. ASSUME NEW p \in Parties, InOrder(p), version[p] > 0
          PROVE  /\ partyRows[p] = [kind |-> parties[p].kind, name |-> parties[p].name,
                                    contact |-> parties[p].contact, status |-> parties[p].status]
                 /\ \A kind \in PartyKind : p \in ListParties(kind) <=> kind = parties[p].kind
      <3>1. Shown(p) = Folded(p) /\ parties[p].created /\ p \notin Products
        BY <2>1, <2>3, StreamKinds DEF CreatedByEvents
      <3>2. partyRows[p] = [kind |-> parties[p].kind, name |-> parties[p].name,
                            contact |-> parties[p].contact, status |-> parties[p].status]
        BY <3>1 DEF Shown, Folded, PartyRow
      <3>3. parties[p].status # "NoRow"
        BY DEF TypeOK
      <3>4. partyRows[p] # NoPartyRow /\ partyRows[p].kind = parties[p].kind
        BY <3>2, <3>3 DEF NoPartyRow
      <3> QED
        BY <3>2, <3>4 DEF ListParties
    <2>4. ASSUME NEW u \in Users, InOrder(u), version[u] > 0
          PROVE  userRows[u] = [roles |-> users[u].roles, status |-> users[u].status]
      <3>1. Shown(u) = Folded(u) /\ users[u].created /\ u \notin Products /\ u \notin Parties
        BY <2>1, <2>4, StreamKinds DEF CreatedByEvents
      <3> QED
        BY <3>1 DEF Shown, Folded, UserRow
    <2> QED
      BY <2>2, <2>3, <2>4 DEF DirectoriesMatch
  <1> QED
    BY <1>1, MasterInvariance, PTL

(* What a user has lost works no longer than a token issued before lives   *)
(* (the middleware judges by the token's claims alone).                    *)
THEOREM LostPowerExpires == Spec => []PowerExpires
  <1>1. ASSUME MasterInv PROVE PowerExpires
    <2> SUFFICES ASSUME NEW claims \in tokens, ValidateClaims(claims, now), claims.sub \in Users,
                        \/ ~ claims.roles \subseteq users[claims.sub].roles
                        \/ users[claims.sub].status = "Suspended"
                 PROVE  now < lostAt[claims.sub] + Lifetime
      BY DEF PowerExpires
    <2>1. /\ claims.expires_at = claims.issued_at + Lifetime
          /\ lostAt[claims.sub] >= claims.issued_at
      BY <1>1 DEF MasterInv, TokensTold
    <2>2. /\ lostAt[claims.sub] \in Nat /\ claims.issued_at \in Nat /\ now \in Nat /\ Lifetime \in Nat
      BY <1>1, MasterDataAssumption DEF MasterInv, TypeOK, Claims
    <2>3. now < claims.issued_at + Lifetime
      BY <2>1 DEF ValidateClaims
    <2> QED
      BY <2>1, <2>2, <2>3
  <1> QED
    BY <1>1, MasterInvariance, PTL

(* An explanation grants what the guard would grant for the same roles     *)
(* (explain_authorization against authorize).                              *)
LEMMA ExplanationAgrees ==
    ASSUME NEW roles, NEW permission
    PROVE  ExplainAuthorization([active_tenant |-> "tenant", tenant |-> "tenant", roles |-> roles,
                                 permissions |-> PermissionsFromRoles(roles)], permission).granted
             <=> "*" \in PermissionsFromRoles(roles) \/ permission \in PermissionsFromRoles(roles)
  <1> DEFINE granting == PermissionsFromRoles(roles)
             principal == [active_tenant |-> "tenant", tenant |-> "tenant", roles |-> roles,
                           permissions |-> granting]
  <1>1. /\ principal.active_tenant = principal.tenant /\ principal.roles = roles
        /\ principal.permissions = granting
    OBVIOUS
  <1> HIDE DEF granting, principal
  <1>2. {"*", permission} \cap (granting \cup granting) # {} <=> "*" \in granting \/ permission \in granting
    OBVIOUS
  <1>3. ExplainAuthorization(principal, permission).granted
            <=> {"*", permission} \cap (granting \cup granting) # {}
    <2>1. PermissionsFromRoles(principal.roles) = granting
      BY <1>1 DEF granting
    <2> QED
      BY <1>1, <2>1 DEF ExplainAuthorization
  <1> QED
    BY <1>2, <1>3 DEF granting, principal

(* The guard asks the same of the permissions of a token's roles. *)
LEMMA GuardAgrees ==
    ASSUME NEW claims, claims.tenant = "tenant", NEW permission
    PROVE  /\ AuthorizeCommand(claims, {permission})
                <=> \/ "*" \in PermissionsFromRoles(claims.roles)
                    \/ permission \in PermissionsFromRoles(claims.roles)
           /\ ExplainSelf(claims, permission).granted
                <=> \/ "*" \in PermissionsFromRoles(claims.roles)
                    \/ permission \in PermissionsFromRoles(claims.roles)
  <1>1. AuthorizeCommand(claims, {permission})
          <=> \/ "*" \in PermissionsFromRoles(claims.roles)
              \/ permission \in PermissionsFromRoles(claims.roles)
    BY DEF AuthorizeCommand, Authorize, PrincipalOf
  <1>2. PrincipalOf(claims) = [active_tenant |-> "tenant", tenant |-> "tenant", roles |-> claims.roles,
                               permissions |-> PermissionsFromRoles(claims.roles)]
    BY DEF PrincipalOf
  <1> QED
    BY <1>1, <1>2, ExplanationAgrees DEF ExplainSelf

(* The audit routes tell what the guard does. *)
THEOREM ExplanationsAreTrue == Spec => []ExplainedAsEnforced
  <1>1. ASSUME MasterInv, DirectoriesMatch PROVE ExplainedAsEnforced
    <2> SUFFICES ASSUME NEW permission
                 PROVE  /\ \A claims \in tokens :
                            ExplainSelf(claims, permission).granted <=> AuthorizeCommand(claims, {permission})
                        /\ \A u \in Users : InOrder(u) =>
                            (ExplainUser(u, permission).granted <=> AuthorizeCommand(Issued(u), {permission}))
      BY DEF ExplainedAsEnforced
    <2>1. ASSUME NEW claims \in tokens
          PROVE  ExplainSelf(claims, permission).granted <=> AuthorizeCommand(claims, {permission})
      <3>1. claims.tenant = "tenant"
        BY <1>1 DEF MasterInv, TypeOK, Claims
      <3> QED
        BY <3>1, GuardAgrees
    <2>2. ASSUME NEW u \in Users, InOrder(u)
          PROVE  ExplainUser(u, permission).granted <=> AuthorizeCommand(Issued(u), {permission})
      <3>1. userRows[u].roles = users[u].roles
        <4>1. version[u] \in Nat
          BY <1>1, StreamKinds DEF MasterInv, TypeOK
        <4>2. CASE version[u] > 0
          <5>1. userRows[u] = [roles |-> users[u].roles, status |-> users[u].status]
            BY <1>1, <2>2, <4>2, Zenon DEF DirectoriesMatch
          <5> QED
            BY <5>1
        <4>3. CASE ~(version[u] > 0)
          <5>1. users[u].roles = {} /\ ~users[u].created
            BY <1>1, <4>3 DEF MasterInv, CreatedByEvents
          <5>2. PICK r : History(u, r)
            BY <1>1, StreamKinds DEF MasterInv, Followed
          <5>3. version[u] = 0 /\ seen[u] = [i \in 1 .. 0 |-> i]
            BY <2>2, <4>1, <4>3 DEF InOrder
          <5>4. Len(seen[u]) = 0 /\ InPlace(u)
            BY <5>3 DEF InPlace
          <5>5. Shown(u) = NoRow(u) /\ u \notin Products /\ u \notin Parties
            BY <5>2, <5>4, StreamKinds DEF History
          <5> QED
            BY <5>1, <5>5 DEF Shown, NoRow, NoUserRow
        <4> QED
          BY <4>2, <4>3
      <3>2. Issued(u).tenant = "tenant" /\ Issued(u).roles = users[u].roles
        BY DEF Issued
      <3>3. ExplainUser(u, permission).granted
              <=> \/ "*" \in PermissionsFromRoles(userRows[u].roles)
                  \/ permission \in PermissionsFromRoles(userRows[u].roles)
        BY ExplanationAgrees DEF ExplainUser, EffectivePermissions
      <3>4. AuthorizeCommand(Issued(u), {permission})
              <=> \/ "*" \in PermissionsFromRoles(Issued(u).roles)
                  \/ permission \in PermissionsFromRoles(Issued(u).roles)
        BY <3>2, GuardAgrees
      <3> QED
        BY <3>1, <3>2, <3>3, <3>4
    <2> QED
      BY <2>1, <2>2
  <1> QED
    BY <1>1, MasterInvariance, DirectoriesAreFolds, PTL

(***************************************************************************)
(* The guard on the kind.  What it told a request stays true while the     *)
(* request is on its way, since a registered party keeps its kind.         *)
(***************************************************************************)
ToldTruth(p, asker) == asker.shown => parties[p].created /\ asker.kind = parties[p].kind

GuardInv == \A p \in Parties : \A asker \in passed[p] \cup touched[p] : ToldTruth(p, asker)

(* Parties that keep their kind keep what was told true. *)
LEMMA TruthStays ==
    ASSUME GuardInv,
           \A p \in Parties : parties[p].created =>
               parties'[p].created /\ parties'[p].kind = parties[p].kind,
           \A p \in Parties : \A asker \in passed'[p] \cup touched'[p] :
               asker \in passed[p] \cup touched[p] \/ ToldTruth(p, asker)
    PROVE  GuardInv'
  BY DEF GuardInv, ToldTruth

(* The guard lets a request through after the registration was shown only  *)
(* if the row, and so the party, is of its kind.                           *)
LEMMA AskDirectoryTold ==
    ASSUME MasterInv, GuardInv, NEW p \in Parties, NEW kind \in PartyKind, AskDirectory(p, kind)
    PROVE  GuardInv'
  <1> USE DEF MasterInv
  <1>1. PICK asker : asker = [kind |-> kind, shown |-> RegistrationShown(p)]
    OBVIOUS
  <1>2. /\ passed' = [passed EXCEPT ![p] = passed[p] \cup {asker}] /\ touched' = touched
        /\ parties' = parties /\ KindAllows(p, kind)
    BY <1>1 DEF AskDirectory, aggregates
  <1>3. ToldTruth(p, asker)
    <2> SUFFICES ASSUME RegistrationShown(p)
                 PROVE  parties[p].created /\ kind = parties[p].kind
      BY <1>1 DEF ToldTruth
    <2>1. seen[p] # <<>> /\ seen[p][1] = 1
      BY DEF RegistrationShown
    <2>2. partyRows[p].status # "NoRow" /\ partyRows[p].kind = parties[p].kind
      BY <2>1 DEF KindShown
    <2>3. seen[p] \in Seq(Nat) /\ version[p] \in Nat /\ p \in Streams
      BY StreamKinds DEF TypeOK
    <2>4. 1 \in 1 .. Len(seen[p])
      BY <2>1, <2>3
    <2>5. parties[p].created
      BY <2>1, <2>3, <2>4 DEF NumbersGivenOut, CreatedByEvents
    <2>6. partyRows[p] # NoPartyRow
      BY <2>2 DEF NoPartyRow
    <2> QED
      BY <1>2, <2>2, <2>5, <2>6 DEF KindAllows
  <1>4. \A q \in Parties : \A a \in passed'[q] \cup touched'[q] :
            a \in passed[q] \cup touched[q] \/ ToldTruth(q, a)
    BY <1>2, <1>3 DEF TypeOK
  <1> QED
    BY <1>2, <1>4, TruthStays

(* A dispatch changes the party in the name of a request that passed, or   *)
(* registers it.                                                           *)
LEMMA PartyRouteTold ==
    ASSUME MasterInv, GuardInv, NEW p \in Parties, NEW kind \in PartyKind, PartyRoute(p, kind)
    PROVE  GuardInv'
  <1>1. PICK event \in PartyEvent, asker \in Asker :
               /\ event.type = "PartyRegistered" <=> ~parties[p].created
               /\ DispatchParty(p, asker, event)
               /\ asker.shown => asker \in passed[p]
    BY PartyRouteDispatches
  <1>2. touched' = [touched EXCEPT ![p] = touched[p] \cup {asker}] /\ passed' = passed
    BY <1>1 DEF DispatchParty
  <1>3. ToldTruth(p, asker)
    BY <1>1 DEF GuardInv, ToldTruth
  <1>4. \A q \in Parties : \A a \in passed'[q] \cup touched'[q] :
            a \in passed[q] \cup touched[q] \/ ToldTruth(q, a)
    BY <1>2, <1>3 DEF MasterInv, TypeOK
  <1>5. \A q \in Parties : parties[q].created =>
            parties'[q].created /\ parties'[q].kind = parties[q].kind
    BY <1>1, DispatchPartyInv
  <1> QED
    BY <1>4, <1>5, TruthStays

(***************************************************************************)
(* update_party and suspend_party: whatever happens between the guard on   *)
(* the kind and the dispatch, a request that asked after the directory had *)
(* shown a party's registration changes only a party of its kind ("Guard   *)
(* kind (read model) so /customers can't mutate a supplier").              *)
(***************************************************************************)
THEOREM KindIsGuarded == Spec => []KindGuard
  <1>1. Init => GuardInv
    BY DEF Init, GuardInv
  <1>2. MasterInv /\ GuardInv /\ [Next]_vars => GuardInv'
    <2> SUFFICES ASSUME MasterInv, GuardInv, [Next]_vars PROVE GuardInv'
      OBVIOUS
    <2>1. ASSUME passed' = passed, touched' = touched, parties' = parties PROVE GuardInv'
      BY <2>1, TruthStays
    <2>2. CASE \E p \in Parties : \/ RegisterCustomer(p) \/ UpdateCustomer(p) \/ SuspendCustomer(p)
                                  \/ RegisterSupplier(p) \/ UpdateSupplier(p) \/ SuspendSupplier(p)
      BY <2>2, PartyRoutes, PartyRouteTold
    <2>3. CASE \E p \in Parties, kind \in PartyKind : AskDirectory(p, kind)
      BY <2>3, AskDirectoryTold
    <2>4. CASE \E p \in Products : CreateProduct(p) \/ ActivateProduct(p) \/ ArchiveProduct(p)
      BY <2>1, <2>4 DEF CreateProduct, ActivateProduct, ArchiveProduct, DispatchProduct
    <2>5. CASE \E u \in Users : CreateUser(u) \/ SuspendUser(u) \/ ActivateUser(u)
      BY <2>1, <2>5 DEF CreateUser, SuspendUser, ActivateUser, DispatchUser
    <2>6. CASE \E u \in Users, role \in Roles : AssignRole(u, role) \/ RevokeRole(u, role)
      BY <2>1, <2>6 DEF AssignRole, RevokeRole, DispatchUser
    <2>7. CASE Tick \/ Deliver \/ (\E e \in inFlight : Publish(e)) \/ \E u \in Users : IssueToken(u)
      BY <2>1, <2>7 DEF Tick, Deliver, Publish, IssueToken, aggregates
    <2>8. CASE UNCHANGED vars
      BY <2>1, <2>8 DEF vars, aggregates
    <2> QED
      BY <2>2, <2>3, <2>4, <2>5, <2>6, <2>7, <2>8 DEF Next
  <1>3. GuardInv => KindGuard
    BY DEF GuardInv, ToldTruth, KindGuard
  <1> QED
    BY <1>1, <1>2, <1>3, MasterInvariance, PTL DEF Spec

=============================================================================
