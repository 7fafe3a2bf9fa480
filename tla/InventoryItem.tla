--------------------------- MODULE InventoryItem ---------------------------
(***************************************************************************)
(* The inventory.item aggregate (crates/inventory/src/item.rs): the state  *)
(* an item has after a list of events, which commands it accepts in a      *)
(* state and which event an accepted command decides.  handle() mutates    *)
(* nothing and apply() decides nothing, so both are operators here.        *)
(*                                                                         *)
(* The tenant and the item id travel together through the code and are     *)
(* only ever compared, so a Key stands for the pair; an item name is only  *)
(* stored, shown and tested for being blank.                               *)
(***************************************************************************)
EXTENDS Integers

CONSTANTS
    Keys,       \* (tenant_id, aggregate_id) pairs: the event streams
    NoKey,      \* tenant_id: None, before the item is created
    Names,      \* item names a client may send
    BlankName,  \* a name that trims to the empty string
    Deltas,     \* stock deltas a client may send, each an i64
    MaxI64      \* i64::MAX; small in a model so that overflow is reached

ASSUME InventoryAssumption ==
    /\ NoKey \notin Keys
    /\ MaxI64 \in Nat
    /\ Deltas \subseteq (-MaxI64 - 1) .. MaxI64

I64 == (-MaxI64 - 1) .. MaxI64

(* Mutant: stock kept in a type that does not wrap. *)
AddUnbounded(a, b) == a + b

(***************************************************************************)
(* a + b on i64 in the release profile: two's complement wrap-around.      *)
(***************************************************************************)
AddI64(a, b) ==
    IF a + b > MaxI64 THEN a + b - 2 * (MaxI64 + 1)
    ELSE IF a + b < -MaxI64 - 1 THEN a + b + 2 * (MaxI64 + 1)
    ELSE a + b

-----------------------------------------------------------------------------
(* Commands, events and aggregate state *)

CreateItem(k, n) == [type |-> "CreateItem", key |-> k, name |-> n, delta |-> 0]
AdjustStock(k, d) == [type |-> "AdjustStock", key |-> k, name |-> BlankName, delta |-> d]

CommandsFor(k) ==
    {CreateItem(k, n) : n \in Names} \cup {AdjustStock(k, d) : d \in Deltas}

Command ==
    [type : {"CreateItem", "AdjustStock"}, key : Keys,
     name : Names \cup {BlankName}, delta : I64]

Event ==
    [type : {"ItemCreated", "StockAdjusted"}, key : Keys,
     name : Names \cup {BlankName}, delta : I64]

Item ==
    [created : BOOLEAN, key : Keys \cup {NoKey},
     name : Names \cup {BlankName}, stock : I64, version : Nat]

EmptyItem ==
    [created |-> FALSE, key |-> NoKey, name |-> BlankName, stock |-> 0, version |-> 0]

-----------------------------------------------------------------------------
(* apply: the state after one event *)

Apply(item, e) ==
    IF e.type = "ItemCreated"
    THEN [created |-> TRUE, key |-> e.key, name |-> e.name, stock |-> 0,
          version |-> item.version + 1]
    ELSE [item EXCEPT !.stock = AddI64(@, e.delta), !.version = @ + 1]

-----------------------------------------------------------------------------
(* handle: the error a command meets in a state, or "None" *)

DomainErrors == {"Conflict", "NotFound", "Validation", "InvariantViolation"}

CreateError(item, cmd) ==
    IF item.created THEN "Conflict"
    ELSE IF cmd.name = BlankName THEN "Validation"
    ELSE "None"

(* Mutant: the sign of the new stock is tested before the delta is added. *)
AdjustErrorTestsOldStock(item, cmd) ==
    IF ~item.created THEN "NotFound"
    ELSE IF item.key # cmd.key THEN "InvariantViolation"
    ELSE IF cmd.delta = 0 THEN "Validation"
    ELSE IF item.stock < 0 THEN "InvariantViolation"
    ELSE "None"

AdjustError(item, cmd) ==
    IF ~item.created THEN "NotFound"
    ELSE IF item.key # cmd.key THEN "InvariantViolation"
    ELSE IF cmd.delta = 0 THEN "Validation"
    ELSE IF AddI64(item.stock, cmd.delta) < 0 THEN "InvariantViolation"
    ELSE "None"

HandleError(item, cmd) ==
    IF cmd.type = "CreateItem" THEN CreateError(item, cmd) ELSE AdjustError(item, cmd)

(* The single event an accepted command decides. *)
Decide(cmd) ==
    [type |-> IF cmd.type = "CreateItem" THEN "ItemCreated" ELSE "StockAdjusted",
     key |-> cmd.key, name |-> cmd.name, delta |-> cmd.delta]

=============================================================================
