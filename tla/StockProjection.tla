-------------------------- MODULE StockProjection --------------------------
(***************************************************************************)
(* The inventory.stock read model                                          *)
(* (crates/infra/src/projections/inventory_stock.rs): the cursor test that *)
(* decides whether a published envelope is applied, skipped as a duplicate *)
(* or refused as a gap, and the upsert an applied envelope performs.  The  *)
(* in-memory and the persistent service loops both feed it.                *)
(***************************************************************************)
EXTENDS InventoryItem, ProjectionCursor

(* No row for the item in the tenant's store. *)
NoModel == [present |-> FALSE, name |-> BlankName, quantity |-> 0]

ReadModel == [present : BOOLEAN, name : Names \cup {BlankName}, quantity : I64]

(***************************************************************************)
(* The whole test of apply_envelope: an envelope that passes the cursor    *)
(* must still carry an event of the stream's own tenant and item.          *)
(***************************************************************************)
Accepts(last, env) ==
    /\ CursorVerdict(last, env.seq) = "Next"
    /\ env.payload.key = env.key

(* The row after an applied event; an adjustment of a missing row starts   *)
(* from a nameless row with quantity 0.                                    *)
Upsert(rm, e) ==
    IF e.type = "ItemCreated"
    THEN [present |-> TRUE, name |-> e.name, quantity |-> 0]
    ELSE [present |-> TRUE, name |-> rm.name, quantity |-> AddI64(rm.quantity, e.delta)]

(* The row a reader expects for an item in a given state. *)
RowOf(item) == [present |-> item.created, name |-> item.name, quantity |-> item.stock]

=============================================================================
