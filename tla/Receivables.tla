---------------------------- MODULE Receivables ----------------------------
(***************************************************************************)
(* What a customer owes, as two projections of the invoices tell it:       *)
(* OpenInvoicesProjection, one row per invoice, and                        *)
(* CustomerBalancesProjection, one account per customer with a mapping     *)
(* from invoices to customers (open_invoices.rs and customer_balances.rs   *)
(* under crates/infra/src/projections).  Due dates are left out.           *)
(***************************************************************************)
EXTENDS Invoice, Sums, FiniteSets

(* u64: + wraps in the release profile, saturating_sub stops at zero. *)
Plus(a, b) == (a + b) % (MaxU64 + 1)
SaturatingSub(a, b) == IF a > b THEN a - b ELSE 0

-----------------------------------------------------------------------------
(* OpenInvoicesProjection *)

NoOpenRow == [listed |-> FALSE, total |-> 0, paid |-> 0, outstanding |-> 0]

(* A closed invoice keeps its row, with nothing outstanding. *)
OpenRowAfter(row, event) ==
    IF event.type = "InvoiceIssued"
    THEN [listed |-> TRUE, total |-> event.total, paid |-> 0, outstanding |-> event.total]
    ELSE IF ~row.listed THEN row
    ELSE CASE event.type = "PaymentRegistered" ->
                  [row EXCEPT !.paid = event.new_total_paid,
                              !.outstanding = SaturatingSub(row.total, event.new_total_paid)]
           [] event.type = "InvoiceVoided" -> [row EXCEPT !.outstanding = 0]

(* rebuild_from_scratch, for one invoice *)
RebuiltOpenRow(events) == FoldLeft(OpenRowAfter, NoOpenRow, events)

(* get_summary(...).total_outstanding *)
TotalOutstanding(rows) == SumOf([i \in DOMAIN rows |-> rows[i].outstanding], DOMAIN rows)

-----------------------------------------------------------------------------
(* CustomerBalancesProjection: its state is a record of the mapping and    *)
(* the accounts.                                                           *)

NoMapping == [known |-> FALSE, customer |-> NoOrder, total |-> 0, paid |-> 0]

NoAccount == [listed |-> FALSE, invoiced |-> 0, paid |-> 0, outstanding |-> 0, open |-> 0]

(* An account after an invoice, a payment that settles it or not, a void.  *)
(* A void takes the invoice off the count whether or not it still counted. *)
Charged(account, total) ==
    [account EXCEPT !.listed = TRUE, !.invoiced = Plus(@, total),
                    !.outstanding = Plus(@, total), !.open = @ + 1]

Credited(account, amount, settled) ==
    IF ~account.listed THEN account
    ELSE [account EXCEPT !.paid = Plus(@, amount), !.outstanding = SaturatingSub(@, amount),
                         !.open = IF settled THEN SaturatingSub(@, 1) ELSE @]

Released(account, due) ==
    IF ~account.listed THEN account
    ELSE [account EXCEPT !.outstanding = SaturatingSub(@, due), !.open = SaturatingSub(@, 1)]

(* register_invoice_customer: the amounts come with the invoice. *)
Registered(state, i, customer) ==
    [state EXCEPT !.mapping[i] = [known |-> TRUE, customer |-> customer, total |-> 0, paid |-> 0]]

(* An invoice nobody registered belongs to its sales order. *)
CustomerOf(state, i, event) ==
    IF state.mapping[i].known THEN state.mapping[i].customer ELSE event.sales_order_id

AfterIssue(state, i, event) ==
    LET c == CustomerOf(state, i, event) IN
    [state EXCEPT
        !.mapping[i] = [known |-> TRUE, customer |-> c, total |-> event.total, paid |-> 0],
        !.accounts[c] = Charged(@, event.total)]

(* Mutant: what was paid before counts again. *)
AfterPaymentOfSum(state, i, event) ==
    LET m == state.mapping[i] IN
    [state EXCEPT
        !.mapping[i].paid = event.new_total_paid,
        !.accounts[m.customer] =
            Credited(@, event.new_total_paid, event.new_total_paid >= m.total)]

AfterPayment(state, i, event) ==
    LET m == state.mapping[i] IN
    [state EXCEPT
        !.mapping[i].paid = event.new_total_paid,
        !.accounts[m.customer] = Credited(@, event.amount, event.new_total_paid >= m.total)]

(* Mutant: the invoice stays counted. *)
AfterVoidStillCounted(state, i) ==
    LET m == state.mapping[i] IN
    [state EXCEPT
        !.accounts[m.customer] =
            [Released(@, SaturatingSub(m.total, m.paid)) EXCEPT
                !.open = state.accounts[m.customer].open]]

AfterVoid(state, i) ==
    LET m == state.mapping[i] IN
    [state EXCEPT
        !.accounts[m.customer] = Released(@, SaturatingSub(m.total, m.paid))]

(* apply_envelope, once the cursor has let the event through. *)
BalancesAfterEvent(state, i, event) ==
    IF event.type = "InvoiceIssued" THEN AfterIssue(state, i, event)
    ELSE IF ~state.mapping[i].known THEN state
    ELSE CASE event.type = "PaymentRegistered" -> AfterPayment(state, i, event)
           [] event.type = "InvoiceVoided" -> AfterVoid(state, i)

(* rebuild_from_scratch: stream after stream. *)
BalancesAfterStream(state, i, events) ==
    FoldLeft(LAMBDA acc, event : BalancesAfterEvent(acc, i, event), state, events)

RebuiltBalances(streams, none, ids) ==
    FoldLeft(LAMBDA state, i : BalancesAfterStream(state, i, streams[i]), none, SetToSeq(ids))

(* list_with_outstanding *)
ListWithOutstanding(state) ==
    {c \in DOMAIN state.accounts : state.accounts[c].outstanding > 0}

=============================================================================
