------------------------------- MODULE Party -------------------------------
(***************************************************************************)
(* The Party aggregate (crates/parties/src/party.rs), a customer or a      *)
(* supplier, and its row in the directory                                  *)
(* (crates/infra/src/projections/parties.rs).                              *)
(***************************************************************************)
EXTENDS Naturals

CONSTANTS
    NoName,     \* every text trim leaves empty
    NoContact,  \* ContactInfo::default()
    NotSent     \* an optional field the caller did not send

PartyKind == {"Customer", "Supplier"}

EmptyParty ==
    [created |-> FALSE, kind |-> "Customer", name |-> NoName, contact |-> NoContact,
     status |-> "Active"]

PartyRegistered(kind, name, contact) ==
    [type |-> "PartyRegistered", kind |-> kind, name |-> name, contact |-> contact]
PartyUpdated(name, contact) == [type |-> "PartyUpdated", name |-> name, contact |-> contact]
PartySuspended == [type |-> "PartySuspended"]

(* Party::apply *)
ApplyParty(party, event) ==
    CASE event.type = "PartyRegistered" ->
             [created |-> TRUE, kind |-> event.kind, name |-> event.name,
              contact |-> event.contact, status |-> "Active"]
      [] event.type = "PartyUpdated" ->
             [party EXCEPT !.name = event.name, !.contact = event.contact]
      [] event.type = "PartySuspended" -> [party EXCEPT !.status = "Suspended"]

OrElse(value, default) == IF value = NotSent THEN default ELSE value

(* handle_register, handle_update, handle_suspend: when each is accepted.  *)
(* A suspended party is updated like any other; nothing reactivates it.    *)
CanRegister(party, name) == ~party.created /\ name # NoName

CanUpdate(party, name) == party.created /\ OrElse(name, party.name) # NoName

(* The event of an accepted update. *)
UpdateOf(party, name, contact) ==
    PartyUpdated(OrElse(name, party.name), OrElse(contact, party.contact))

CanSuspend(party) == party.created /\ party.status # "Suspended"

(***************************************************************************)
(* The directory row after an event.  A row that is missing when another   *)
(* event comes first counts as a nameless customer.                        *)
(***************************************************************************)
NoPartyRow == [kind |-> "Customer", name |-> NoName, contact |-> NoContact, status |-> "NoRow"]

Present(row) == IF row = NoPartyRow THEN [row EXCEPT !.status = "Active"] ELSE row

PartyRowAfter(row, event) ==
    CASE event.type = "PartyRegistered" ->
             [kind |-> event.kind, name |-> event.name, contact |-> event.contact,
              status |-> "Active"]
      [] event.type = "PartyUpdated" ->
             [Present(row) EXCEPT !.name = event.name, !.contact = event.contact]
      [] event.type = "PartySuspended" -> [Present(row) EXCEPT !.status = "Suspended"]

=============================================================================
