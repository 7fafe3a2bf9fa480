------------------------------ MODULE Invoice -------------------------------
(***************************************************************************)
(* The Invoice aggregate (crates/invoicing/src/invoice.rs) and its two     *)
(* read models (crates/infra/src/projections/invoices.rs, invoicing.rs).   *)
(* Amounts are u64: MaxU64 is the largest.                                 *)
(***************************************************************************)
EXTENDS Integers, Sequences, SequencesExt

CONSTANT MaxU64

ASSUME InvoiceAssumption == MaxU64 \in Nat \ {0}

NoOrder == "NoOrder"

EmptyInvoice ==
    [created |-> FALSE, order |-> NoOrder, status |-> "Open", total |-> 0, paid |-> 0]

Outstanding(invoice) == IF invoice.total > invoice.paid THEN invoice.total - invoice.paid ELSE 0

CanAcceptPayment(invoice) == invoice.status # "Void" /\ Outstanding(invoice) > 0

(* Invoice::apply *)
ApplyInvoice(invoice, event) ==
    CASE event.type = "InvoiceIssued" ->
             [created |-> TRUE, order |-> event.sales_order_id, status |-> "Open",
              total |-> event.total, paid |-> 0]
      [] event.type = "PaymentRegistered" ->
             [invoice EXCEPT !.paid = event.new_total_paid,
                             !.status = IF event.new_total_paid >= invoice.total
                                        THEN "Paid" ELSE @]
      [] event.type = "InvoiceVoided" -> [invoice EXCEPT !.status = "Void"]

-----------------------------------------------------------------------------
(* handle_issue: a line's total is cut to 64 bits ... *)
LineTotal(line) == (line.quantity * line.price) % (MaxU64 + 1)

Total(lines) == FoldLeft(LAMBDA sum, line : sum + LineTotal(line), 0, lines)

(* ... and a sum that does not fit is refused. *)
CanIssue(invoice, lines) ==
    /\ ~invoice.created
    /\ lines # <<>>
    /\ \A i \in 1 .. Len(lines) : lines[i].quantity > 0 /\ lines[i].price > 0
    /\ Total(lines) \in 0 .. MaxU64

(* Mutant: each payment is compared with the total, not their sum. *)
CanPayEach(invoice, amount) ==
    /\ invoice.created
    /\ CanAcceptPayment(invoice)
    /\ amount > 0
    /\ amount <= invoice.total

(* handle_register_payment; a sum beyond MaxU64 is beyond the total too. *)
CanPay(invoice, amount) ==
    /\ invoice.created
    /\ CanAcceptPayment(invoice)
    /\ amount > 0
    /\ invoice.paid + amount <= invoice.total

(* handle_void: a paid invoice can be voided. *)
CanVoid(invoice) == invoice.created /\ invoice.status # "Void"

-----------------------------------------------------------------------------
(* InvoicesProjection::apply_envelope *)
NoInvoiceRow == [status |-> "NoRow", total |-> 0, paid |-> 0]

(* Mutant: the row takes the payment for the sum of payments. *)
InvoiceRowTakesAmount(row, event) ==
    LET rm == IF row = NoInvoiceRow THEN [row EXCEPT !.status = "Open"] ELSE row IN
    CASE event.type = "InvoiceIssued" -> [status |-> "Open", total |-> event.total, paid |-> 0]
      [] event.type = "PaymentRegistered" ->
             [rm EXCEPT !.paid = event.amount,
                        !.status = IF event.amount >= rm.total THEN "Paid" ELSE @]
      [] event.type = "InvoiceVoided" -> [rm EXCEPT !.status = "Void"]

InvoiceRowAfter(row, event) ==
    LET rm == IF row = NoInvoiceRow THEN [row EXCEPT !.status = "Open"] ELSE row IN
    CASE event.type = "InvoiceIssued" -> [status |-> "Open", total |-> event.total, paid |-> 0]
      [] event.type = "PaymentRegistered" ->
             [rm EXCEPT !.paid = event.new_total_paid,
                        !.status = IF event.new_total_paid >= rm.total THEN "Paid" ELSE @]
      [] event.type = "InvoiceVoided" -> [rm EXCEPT !.status = "Void"]

(* InvoiceAgingProjection::apply_envelope: what is outstanding goes down   *)
(* by the payment, not below zero.                                         *)
NoAgingRow == [status |-> "NoRow", total |-> 0, outstanding |-> 0]

(* Mutant: the sum of payments is taken off at every payment. *)
AgingRowSubtractsSum(row, event) ==
    LET rm == IF row = NoAgingRow THEN [row EXCEPT !.status = "Open"] ELSE row
        left == IF event.type = "PaymentRegistered" /\ rm.outstanding > event.new_total_paid
                THEN rm.outstanding - event.new_total_paid ELSE 0 IN
    CASE event.type = "InvoiceIssued" ->
             [status |-> "Open", total |-> event.total, outstanding |-> event.total]
      [] event.type = "PaymentRegistered" ->
             [rm EXCEPT !.outstanding = left, !.status = IF left = 0 THEN "Paid" ELSE @]
      [] event.type = "InvoiceVoided" -> [rm EXCEPT !.status = "Void"]

AgingRowAfter(row, event) ==
    LET rm == IF row = NoAgingRow THEN [row EXCEPT !.status = "Open"] ELSE row
        left == IF event.type = "PaymentRegistered" /\ rm.outstanding > event.amount
                THEN rm.outstanding - event.amount ELSE 0 IN
    CASE event.type = "InvoiceIssued" ->
             [status |-> "Open", total |-> event.total, outstanding |-> event.total]
      [] event.type = "PaymentRegistered" ->
             [rm EXCEPT !.outstanding = left, !.status = IF left = 0 THEN "Paid" ELSE @]
      [] event.type = "InvoiceVoided" -> [rm EXCEPT !.status = "Void"]

=============================================================================
