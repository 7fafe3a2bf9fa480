----------------------------- MODULE SalesOrder -----------------------------
(***************************************************************************)
(* The SalesOrder aggregate (crates/sales/src/order.rs).  A line is its    *)
(* number, quantity and unit price; products are left out.  A command that *)
(* is not accepted changes nothing.                                        *)
(***************************************************************************)
EXTENDS Integers, Sequences

EmptyOrder == [created |-> FALSE, status |-> "Draft", lines |-> <<>>]

IsModifiable(order) == order.status = "Draft"

IsInvoiceAllowed(order) == order.status = "Confirmed"

(* SalesOrder::apply *)
ApplySales(order, event) ==
    CASE event.type = "SalesOrderCreated" ->
             [order EXCEPT !.created = TRUE, !.status = "Draft", !.lines = <<>>]
      [] event.type = "LineAdded"      -> [order EXCEPT !.lines = Append(@, event.line)]
      [] event.type = "OrderConfirmed" -> [order EXCEPT !.status = "Confirmed"]
      [] event.type = "OrderInvoiced"  -> [order EXCEPT !.status = "Invoiced"]

(* handle_create, handle_add_line, handle_confirm, handle_mark_invoiced:   *)
(* when a command is accepted.                                             *)
CanCreateSales(order) == ~order.created

CanAddSalesLine(order, quantity, price) ==
    order.created /\ IsModifiable(order) /\ quantity > 0 /\ price > 0

CanConfirm(order) == order.created /\ order.status = "Draft" /\ order.lines # <<>>

CanMarkInvoiced(order) == order.created /\ IsInvoiceAllowed(order)

NextSalesLine(order, quantity, price) ==
    [no |-> Len(order.lines) + 1, quantity |-> quantity, price |-> price]

(***************************************************************************)
(* SalesOrdersProjection (crates/infra/src/projections/sales_orders.rs):   *)
(* the row after an event; a missing row counts as an empty draft.         *)
(***************************************************************************)
NoSalesRow == [status |-> "NoRow", lines |-> <<>>]

SalesRowAfter(row, event) ==
    LET rm == IF row = NoSalesRow THEN [status |-> "Draft", lines |-> <<>>] ELSE row IN
    CASE event.type = "SalesOrderCreated" -> [status |-> "Draft", lines |-> <<>>]
      [] event.type = "LineAdded"      -> [rm EXCEPT !.lines = Append(@, event.line)]
      [] event.type = "OrderConfirmed" -> [rm EXCEPT !.status = "Confirmed"]
      [] event.type = "OrderInvoiced"  -> [rm EXCEPT !.status = "Invoiced"]

=============================================================================
