--------------------------- MODULE PurchaseOrder ----------------------------
(***************************************************************************)
(* The PurchaseOrder aggregate (crates/purchasing/src/order.rs) and its    *)
(* read model (crates/infra/src/projections/purchasing.rs).  A line is its *)
(* number and quantity; the supplier, set by every creation, is left out.  *)
(***************************************************************************)
EXTENDS Integers, Sequences

EmptyPurchase == [created |-> FALSE, status |-> "Draft", lines |-> <<>>]

(* PurchaseOrder::apply *)
ApplyPurchase(order, event) ==
    CASE event.type = "PurchaseOrderCreated" ->
             [order EXCEPT !.created = TRUE, !.status = "Draft", !.lines = <<>>]
      [] event.type = "PurchaseOrderLineAdded" -> [order EXCEPT !.lines = Append(@, event.line)]
      [] event.type = "PurchaseOrderApproved"  -> [order EXCEPT !.status = "Approved"]
      [] event.type = "GoodsReceived" ->
             [order EXCEPT !.lines = event.lines, !.status = "Received"]

(* handle_create, handle_add_line, handle_approve, handle_receive *)
CanCreatePurchase(order) == ~order.created

CanAddPurchaseLine(order, quantity) ==
    order.created /\ order.status = "Draft" /\ quantity > 0

CanApprove(order) == order.created /\ order.status = "Draft" /\ order.lines # <<>>

CanReceive(order) == order.created /\ order.status = "Approved" /\ order.lines # <<>>

NextPurchaseLine(order, quantity) == [no |-> Len(order.lines) + 1, quantity |-> quantity]

(* PurchaseOrdersProjection::apply_envelope: the row after an event. *)
NoPurchaseRow == [status |-> "NoRow", lines |-> <<>>]

PurchaseRowAfter(row, event) ==
    LET rm == IF row = NoPurchaseRow THEN [status |-> "Draft", lines |-> <<>>] ELSE row IN
    CASE event.type = "PurchaseOrderCreated"   -> [status |-> "Draft", lines |-> <<>>]
      [] event.type = "PurchaseOrderLineAdded" -> [rm EXCEPT !.lines = Append(@, event.line)]
      [] event.type = "PurchaseOrderApproved"  -> [rm EXCEPT !.status = "Approved"]
      [] event.type = "GoodsReceived" -> [status |-> "Received", lines |-> event.lines]

=============================================================================
