------------------------------ MODULE Reports ------------------------------
(***************************************************************************)
(* The three projections the library has beside those of the services:     *)
(* open invoices, customer balances and inventory valuation                *)
(* (crates/infra/src/projections).  No service hosts them yet; a host is   *)
(* taken to hand each of them stored events in any order and as often as   *)
(* it likes, to register an invoice's customer before it hands over the    *)
(* invoice, as register_invoice_customer asks, and to rebuild each from    *)
(* all the events when it wants to.  Costs are set from another thread.    *)
(*                                                                         *)
(* An application of an event is one step where nobody else touches the    *)
(* rows.  In the valuation set_unit_cost does: both read the row and write *)
(* it back, under a lock each.                                             *)
(***************************************************************************)
EXTENDS Receivables, Valuation, ProjectionCursor

CONSTANTS
    Invoices, Orders, Parties,  \* ids
    InvoiceLines,  \* the lines invoices are issued with
    Amounts,       \* payments
    Costs,         \* unit costs
    MaxEvents      \* bound on the events of a behaviour

Customers == Parties \cup Orders
Reports == {"open", "balances"}

ASSUME ReportsAssumption ==
    /\ MaxEvents \in Nat
    /\ Amounts \subseteq 0 .. MaxU64
    /\ Costs \subseteq 0 .. MaxValue
    /\ IsFiniteSet(Invoices) /\ IsFiniteSet(Customers)
    /\ Invoices \cap Keys = {}

VARIABLES
    invoices,    \* the invoices
    items,       \* the items
    stream,      \* the events of each
    openRows,    \* OpenInvoicesProjection.store
    customers,   \* CustomerBalancesProjection's mapping and store
    valuations,  \* InventoryValuationProjection.store
    applying,    \* the event being applied to an item's row, and the row read
    setting,     \* the call of set_unit_cost, and the row it read
    cursor,      \* the cursors of each report
    valued,      \* those of the valuation
    first,       \* (history) the first number each report accepted
    raced        \* (history) items whose row was written between a read and its write

aggregates == <<invoices, items, stream>>
receivables == <<openRows, customers, cursor>>
valuation == <<valuations, applying, setting, valued, raced>>
vars == <<aggregates, receivables, valuation, first>>

AllReports == Reports \cup {"valuation"}
NoCall == [active |-> FALSE, arg |-> 0, row |-> NoValuation]

NoBalances ==
    [mapping |-> [i \in Invoices |-> NoMapping], accounts |-> [c \in Customers |-> NoAccount]]

Amount == 0 .. MaxU64
Bill == [created : BOOLEAN, order : Orders \cup {NoOrder}, status : {"Open", "Paid", "Void"},
         total : Amount, paid : Amount]
InvoiceEvent == [type : {"InvoiceIssued"}, sales_order_id : Orders, total : Amount]
                    \cup [type : {"PaymentRegistered"}, amount : Amount, new_total_paid : Amount]
                    \cup [type : {"InvoiceVoided"}]
OpenRow == [listed : BOOLEAN, total : Amount, paid : Amount, outstanding : Amount]
Mapping == [known : {TRUE}, customer : Customers, total : Amount, paid : Amount] \cup {NoMapping}
Account == [listed : BOOLEAN, invoiced : Amount, paid : Amount, outstanding : Amount, open : Nat]
Balances == [mapping : [Invoices -> Mapping], accounts : [Customers -> Account]]
ValuationRow == [listed : BOOLEAN, quantity : I64, unit_cost : SUBSET (0 .. MaxValue),
                 total_value : SUBSET (0 .. MaxValue)]

TypeOK ==
    /\ invoices \in [Invoices -> Bill]
    /\ items \in [Keys -> Item]
    /\ stream \in [Invoices \cup Keys -> Seq(InvoiceEvent \cup Event)]
    /\ \A i \in Invoices : stream[i] \in Seq(InvoiceEvent)
    /\ \A k \in Keys : stream[k] \in Seq(Event)
    /\ openRows \in [Invoices -> OpenRow]
    /\ customers \in Balances
    /\ valuations \in [Keys -> ValuationRow]
    /\ applying \in [Keys -> [active : BOOLEAN, arg : Nat, row : ValuationRow]]
    /\ setting \in [Keys -> [active : BOOLEAN, arg : 0 .. MaxValue, row : ValuationRow]]
    /\ cursor \in [Reports -> [Invoices -> Nat]]
    /\ valued \in [Keys -> Nat]
    /\ first \in [AllReports -> [Invoices \cup Keys -> Nat]]
    /\ raced \subseteq Keys

Init ==
    /\ invoices = [i \in Invoices |-> EmptyInvoice]
    /\ items = [k \in Keys |-> EmptyItem]
    /\ stream = [s \in Invoices \cup Keys |-> <<>>]
    /\ openRows = [i \in Invoices |-> NoOpenRow]
    /\ customers = NoBalances
    /\ valuations = [k \in Keys |-> NoValuation]
    /\ applying = [k \in Keys |-> NoCall]
    /\ setting = [k \in Keys |-> NoCall]
    /\ cursor = [r \in Reports |-> [i \in Invoices |-> 0]]
    /\ valued = [k \in Keys |-> 0]
    /\ first = [r \in AllReports |-> [s \in Invoices \cup Keys |-> 0]]
    /\ raced = {}

-----------------------------------------------------------------------------
(* The aggregates decide. *)

Store(s, event) ==
    /\ SumOf([r \in DOMAIN stream |-> Len(stream[r])], DOMAIN stream) < MaxEvents
    /\ stream' = [stream EXCEPT ![s] = Append(@, event)]
    /\ UNCHANGED <<receivables, valuation, first>>

StoreInvoice(i, event) ==
    /\ Store(i, event)
    /\ invoices' = [invoices EXCEPT ![i] = ApplyInvoice(@, event)]
    /\ UNCHANGED items

Issue(i, o, lines) ==
    /\ CanIssue(invoices[i], lines)
    /\ StoreInvoice(i, [type |-> "InvoiceIssued", sales_order_id |-> o, total |-> Total(lines)])

Pay(i, amount) ==
    /\ CanPay(invoices[i], amount)
    /\ StoreInvoice(i, [type |-> "PaymentRegistered", amount |-> amount,
                        new_total_paid |-> invoices[i].paid + amount])

Void(i) ==
    /\ CanVoid(invoices[i])
    /\ StoreInvoice(i, [type |-> "InvoiceVoided"])

HandleItem(cmd) ==
    /\ HandleError(items[cmd.key], cmd) = "None"
    /\ Store(cmd.key, Decide(cmd))
    /\ items' = [items EXCEPT ![cmd.key] = Apply(@, Decide(cmd))]
    /\ UNCHANGED invoices

-----------------------------------------------------------------------------
(* The host: receivables. *)

(* The history of a report that accepts number n of stream s. *)
Accepted(r, s, n) == first' = [first EXCEPT ![r][s] = IF @ = 0 THEN n ELSE @]

Hand(r, i, n) ==
    /\ CursorVerdict(cursor[r][i], n) = "Next"
    /\ cursor' = [cursor EXCEPT ![r][i] = n]
    /\ Accepted(r, i, n)
    /\ UNCHANGED <<aggregates, valuation>>

ApplyOpen(i, n) ==
    /\ Hand("open", i, n)
    /\ openRows' = [openRows EXCEPT ![i] = OpenRowAfter(@, stream[i][n])]
    /\ UNCHANGED customers

ApplyBalances(i, n) ==
    /\ Hand("balances", i, n)
    /\ customers' = BalancesAfterEvent(customers, i, stream[i][n])
    /\ UNCHANGED openRows

RegisterInvoiceCustomer(i, c) ==
    /\ cursor["balances"][i] = 0 /\ ~customers.mapping[i].known
    /\ customers' = Registered(customers, i, c)
    /\ UNCHANGED <<aggregates, openRows, cursor, valuation, first>>

(* rebuild_from_scratch, from the events of all streams. *)
Restarted(r) ==
    /\ \E i \in Invoices : stream[i] # <<>>
    /\ cursor' = [cursor EXCEPT ![r] = [i \in Invoices |-> Len(stream[i])]]
    /\ first' = [first EXCEPT ![r] =
           [s \in DOMAIN @ |-> IF s \in Invoices /\ stream[s] # <<>> THEN 1 ELSE 0]]
    /\ UNCHANGED <<aggregates, valuation>>

RebuildOpen ==
    /\ Restarted("open")
    /\ openRows' = [i \in Invoices |-> RebuiltOpenRow(stream[i])]
    /\ UNCHANGED customers

(* The mapping is cleared too: who was registered is forgotten. *)
RebuildBalances ==
    /\ Restarted("balances")
    /\ customers' = RebuiltBalances(stream, NoBalances, Invoices)
    /\ UNCHANGED openRows

-----------------------------------------------------------------------------
(* The host: valuation. *)

(* apply_envelope up to store.get ... *)
ReadForEvent(k, n) ==
    /\ ~applying[k].active
    /\ CursorVerdict(valued[k], n) = "Next"
    /\ applying' = [applying EXCEPT ![k] = [active |-> TRUE, arg |-> n, row |-> valuations[k]]]
    /\ UNCHANGED <<aggregates, receivables, valuations, setting, valued, first, raced>>

(* ... and from store.upsert on. *)
WriteForEvent(k) ==
    /\ applying[k].active
    /\ LET n == applying[k].arg IN
       /\ valuations' = [valuations EXCEPT ![k] = ValuationAfter(applying[k].row, stream[k][n])]
       /\ valued' = [valued EXCEPT ![k] = n]
       /\ Accepted("valuation", k, n)
    /\ applying' = [applying EXCEPT ![k] = NoCall]
    /\ raced' = IF setting[k].active THEN raced \cup {k} ELSE raced
    /\ UNCHANGED <<aggregates, receivables, setting>>

(* set_unit_cost; an item without a row gets no cost. *)
ReadForCost(k, cost) ==
    /\ ~setting[k].active /\ valuations[k].listed
    /\ setting' = [setting EXCEPT ![k] = [active |-> TRUE, arg |-> cost, row |-> valuations[k]]]
    /\ UNCHANGED <<aggregates, receivables, valuations, applying, valued, first, raced>>

WriteCost(k) ==
    /\ setting[k].active
    /\ valuations' = [valuations EXCEPT ![k] = SetUnitCost(setting[k].row, setting[k].arg)]
    /\ setting' = [setting EXCEPT ![k] = NoCall]
    /\ raced' = IF applying[k].active THEN raced \cup {k} ELSE raced
    /\ UNCHANGED <<aggregates, receivables, applying, valued, first>>

(* Costs are not in the events: a rebuild drops them. *)
RebuildValuation ==
    /\ \E k \in Keys : stream[k] # <<>>
    /\ \A k \in Keys : ~applying[k].active
    /\ valuations' = [k \in Keys |-> RebuiltValuation(stream[k])]
    /\ valued' = [k \in Keys |-> Len(stream[k])]
    /\ first' = [first EXCEPT !["valuation"] =
           [s \in DOMAIN @ |-> IF s \in Keys /\ stream[s] # <<>> THEN 1 ELSE 0]]
    /\ raced' = {k \in Keys : setting[k].active}
    /\ UNCHANGED <<aggregates, receivables, applying, setting>>

-----------------------------------------------------------------------------
Next ==
    \/ \E i \in Invoices, o \in Orders, lines \in InvoiceLines : Issue(i, o, lines)
    \/ \E i \in Invoices, amount \in Amounts : Pay(i, amount)
    \/ \E i \in Invoices : Void(i)
    \/ \E k \in Keys : \E cmd \in CommandsFor(k) : HandleItem(cmd)
    \/ \E i \in Invoices : \E n \in 1 .. Len(stream[i]) : ApplyOpen(i, n) \/ ApplyBalances(i, n)
    \/ \E i \in Invoices, c \in Parties : RegisterInvoiceCustomer(i, c)
    \/ RebuildOpen \/ RebuildBalances
    \/ \E k \in Keys : \E n \in 1 .. Len(stream[k]) : ReadForEvent(k, n)
    \/ \E k \in Keys : WriteForEvent(k) \/ WriteCost(k)
    \/ \E k \in Keys, cost \in Costs : ReadForCost(k, cost)
    \/ RebuildValuation

Spec == Init /\ [][Next]_vars

-----------------------------------------------------------------------------
(* Properties *)

Numbered(r, s, last) == last = Len(stream[s]) /\ (stream[s] # <<>> => first[r][s] = 1)

CaughtUp(r) == \A i \in Invoices : Numbered(r, i, cursor[r][i])

Owed(i) == IF invoices[i].status = "Void" THEN 0 ELSE Outstanding(invoices[i])

(* Everything ever invoiced fits in a u64. *)
Fits == SumOf([i \in Invoices |-> invoices[i].total], Invoices) <= MaxU64

(***************************************************************************)
(* What customers owe in sum is the same in the accounts, in the list of   *)
(* open invoices and in the invoices themselves, once both reports have    *)
(* had all events from the first on, whoever was registered and whatever   *)
(* was rebuilt in between; and an account is listed as owing exactly if    *)
(* one of its invoices is.                                                 *)
(***************************************************************************)
ReceivablesAgree ==
    CaughtUp("open") /\ CaughtUp("balances") /\ Fits =>
        /\ TotalOutstanding(openRows) = SumOf([i \in Invoices |-> Owed(i)], Invoices)
        /\ SumOf([c \in Customers |-> customers.accounts[c].outstanding], Customers)
             = SumOf([i \in Invoices |-> Owed(i)], Invoices)
        /\ ListWithOutstanding(customers)
             = {customers.mapping[i].customer : i \in {j \in Invoices : Owed(j) > 0}}

(***************************************************************************)
(* "Number of open invoices": the count of an account is that, as long as  *)
(* none of its invoices was voided after it had been paid in full (such an *)
(* invoice is taken off twice).                                            *)
(***************************************************************************)
PaidThenVoided(i) ==
    invoices[i].status = "Void" /\ invoices[i].paid = invoices[i].total /\ invoices[i].paid > 0

OpenCountExact ==
    CaughtUp("balances") =>
        \A c \in Customers :
            LET mine == {i \in Invoices : stream[i] # <<>> /\ customers.mapping[i].customer = c} IN
            (\A i \in mine : ~PaidThenVoided(i)) =>
                customers.accounts[c].open
                  = Cardinality({i \in mine : invoices[i].status = "Open"})

(***************************************************************************)
(* A row of the valuation that has had all events from the first on shows  *)
(* the stock, and its value follows from stock and cost, unless a call of  *)
(* set_unit_cost and an application of an event overlapped.                *)
(***************************************************************************)
ValuationExact ==
    \A k \in Keys :
        LET row == valuations[k] IN
        Numbered("valuation", k, valued[k]) /\ k \notin raced =>
            /\ row.quantity = items[k].stock
            /\ row.total_value = {SaturatingMul(items[k].stock, cost) : cost \in row.unit_cost}
=============================================================================
