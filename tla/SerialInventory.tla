-------------------------- MODULE SerialInventory --------------------------
(***************************************************************************)
(* What command execution promises its callers: the items behave as if     *)
(* every accepted command were handled in one indivisible step against the *)
(* item's current state.  No streams, versions, threads or bus.            *)
(***************************************************************************)
EXTENDS InventoryItem

VARIABLE items  \* the state of every item

Init == items = [k \in Keys |-> EmptyItem]

Execute(k, cmd) ==
    /\ HandleError(items[k], cmd) = "None"
    /\ items' = [items EXCEPT ![k] = Apply(@, Decide(cmd))]

Next == \E k \in Keys : \E cmd \in CommandsFor(k) : Execute(k, cmd)

Spec == Init /\ [][Next]_items

=============================================================================
