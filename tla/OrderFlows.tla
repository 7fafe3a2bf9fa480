----------------------------- MODULE OrderFlows -----------------------------
(***************************************************************************)
(* Sales orders, invoices, the ledger and purchase orders behind the HTTP  *)
(* routes (crates/api/src/app/routes), with the projection loop and the    *)
(* saga loop of build_in_memory_services (crates/api/src/app/services.rs). *)
(*                                                                         *)
(* A dispatch decides and appends in one step, which is what               *)
(* CommandDispatcher is shown to implement; a conflict only refuses the    *)
(* command.  It publishes its event in a later step, so events of          *)
(* concurrent dispatches are published in any order.  Dispatches that are  *)
(* refused are left out, except inside the route that makes several.       *)
(***************************************************************************)
EXTENDS ProjectionCursor, SalesOrder, PurchaseOrder, Invoice, Ledger, Sums, FiniteSets

CONSTANTS
    Orders, Invoices, Purchases,  \* aggregate ids
    Accounts,      \* account codes
    SalesLines,    \* order and invoice lines callers send
    Bodies,        \* the lines of a purchase order as created
    Quantities,    \* quantities of purchase lines added later
    Amounts,       \* payments callers send
    Entries,       \* journal entries callers send
    BusMayFail,    \* whether bus.publish may return an error
    MaxInFlight,   \* dispatches between append and publish at a time
    MaxQueued,     \* bound on what waits in a subscription
    MaxStreams,    \* bound on the streams of a behaviour
    MaxEvents      \* bound on the events of a behaviour

LedgerId == "ledger"

Streams == Orders \cup Invoices \cup Purchases \cup {LedgerId}

ASSUME OrderFlowsAssumption ==
    /\ {MaxInFlight, MaxQueued, MaxStreams, MaxEvents} \subseteq Nat
    /\ BusMayFail \in BOOLEAN
    /\ \A l \in SalesLines : l.quantity \in Int /\ l.price \in 0 .. MaxU64
    /\ Amounts \subseteq 0 .. MaxU64
    /\ Quantities \subseteq Int /\ Bodies \subseteq Seq(Int)
    /\ IsFiniteSet(Accounts) /\ Entries \subseteq Seq(EntryLine(Accounts))
    /\ Orders \cap Invoices = {} /\ Orders \cap Purchases = {} /\ Invoices \cap Purchases = {}
    /\ LedgerId \notin Orders \cup Invoices \cup Purchases

VARIABLES
    orders, invoices, purchases,  \* the aggregates, as their streams fold
    version,       \* the length of each stream
    inFlight,      \* envelopes appended and not published
    channel,       \* the projection loop's subscription
    sagaChannel,   \* the saga loop's subscription
    cursor,        \* the cursors of the projections, by stream
    agingCursor,   \* those of the aging projection
    salesRows, invoiceRows, agingRows, purchaseRows, balances,  \* the read models
    creating,      \* the route that creates each purchase order
    first          \* history: the first number a projection accepted

aggregates == <<orders, invoices, purchases, version>>
readModels == <<cursor, agingCursor, salesRows, invoiceRows, agingRows, purchaseRows,
                balances, first>>
channels == <<channel, sagaChannel>>
vars == <<aggregates, inFlight, channels, readModels, creating>>

Amount == 0 .. MaxU64
SalesLine == [no : Nat, quantity : Int, price : Amount]
PurchaseLine == [no : Nat, quantity : Int]
Order == [created : BOOLEAN, status : {"Draft", "Confirmed", "Invoiced"}, lines : Seq(SalesLine)]
Purchase == [created : BOOLEAN, status : {"Draft", "Approved", "Received"},
             lines : Seq(PurchaseLine)]
Bill == [created : BOOLEAN, order : Orders \cup {NoOrder}, status : {"Open", "Paid", "Void"},
         total : Amount, paid : Amount]
Route == [stage : {"idle", "running", "created", "error"}, body : Bodies \cup {<<>>},
          added : Nat, last : Nat]

SalesEvent == [type : {"SalesOrderCreated", "OrderConfirmed", "OrderInvoiced"}, order_id : Orders]
                  \cup [type : {"LineAdded"}, order_id : Orders, line : SalesLine]
InvoiceEvent == [type : {"InvoiceIssued"}, sales_order_id : Orders, total : Amount]
                    \cup [type : {"PaymentRegistered"}, amount : Amount, new_total_paid : Amount]
                    \cup [type : {"InvoiceVoided"}]
PurchaseEvent == [type : {"PurchaseOrderCreated", "PurchaseOrderApproved"}]
                     \cup [type : {"PurchaseOrderLineAdded"}, line : PurchaseLine]
                     \cup [type : {"GoodsReceived"}, lines : Seq(PurchaseLine)]
LedgerEvent == [type : {"JournalEntryPosted"}, lines : Entries]

EventsOf(s) == IF s \in Orders THEN SalesEvent ELSE IF s \in Invoices THEN InvoiceEvent
               ELSE IF s \in Purchases THEN PurchaseEvent ELSE LedgerEvent
Envelopes == {e \in [stream : Streams, seq : Nat \ {0},
                      event : SalesEvent \cup InvoiceEvent \cup PurchaseEvent \cup LedgerEvent] :
                  e.event \in EventsOf(e.stream)}

(* Everything but the sums of the ledger. *)
FlowsTyped ==
    /\ orders \in [Orders -> Order]
    /\ invoices \in [Invoices -> Bill]
    /\ purchases \in [Purchases -> Purchase]
    /\ version \in [Streams -> Nat]
    /\ inFlight \subseteq Envelopes
    /\ channel \in Seq(Envelopes) /\ sagaChannel \in Seq(Envelopes)
    /\ cursor \in [Streams -> Nat] /\ first \in [Streams -> Nat]
    /\ agingCursor \in [Invoices -> Nat]
    /\ salesRows \in [Orders -> [status : {"NoRow", "Draft", "Confirmed", "Invoiced"},
                                 lines : Seq(SalesLine)]]
    /\ invoiceRows \in [Invoices -> [status : {"NoRow", "Open", "Paid", "Void"},
                                     total : Amount, paid : Amount]]
    /\ agingRows \in [Invoices -> [status : {"NoRow", "Open", "Paid", "Void"},
                                   total : Amount, outstanding : Amount]]
    /\ purchaseRows \in [Purchases -> [status : {"NoRow", "Draft", "Approved", "Received"},
                                       lines : Seq(PurchaseLine)]]
    /\ creating \in [Purchases -> Route]

TypeOK == FlowsTyped /\ balances \in [Accounts -> Int]

Init ==
    /\ orders = [o \in Orders |-> EmptyOrder]
    /\ invoices = [i \in Invoices |-> EmptyInvoice]
    /\ purchases = [p \in Purchases |-> EmptyPurchase]
    /\ version = [s \in Streams |-> 0]
    /\ inFlight = {} /\ channel = <<>> /\ sagaChannel = <<>>
    /\ cursor = [s \in Streams |-> 0]
    /\ agingCursor = [i \in Invoices |-> 0]
    /\ salesRows = [o \in Orders |-> NoSalesRow]
    /\ invoiceRows = [i \in Invoices |-> NoInvoiceRow]
    /\ agingRows = [i \in Invoices |-> NoAgingRow]
    /\ purchaseRows = [p \in Purchases |-> NoPurchaseRow]
    /\ balances = [a \in Accounts |-> 0]
    /\ creating = [p \in Purchases |->
                       [stage |-> "idle", body |-> <<>>, added |-> 0, last |-> 0]]
    /\ first = [s \in Streams |-> 0]

-----------------------------------------------------------------------------
(* dispatch *)

Envelope(s, event) == [stream |-> s, seq |-> version[s] + 1, event |-> event]

(* append *)
AppendEvent(s, event) ==
    /\ Cardinality(inFlight) < MaxInFlight
    /\ version' = [version EXCEPT ![s] = @ + 1]
    /\ inFlight' = inFlight \cup {Envelope(s, event)}

(* The bus hands the envelope to both subscribers. *)
Publish(envelope) ==
    /\ Len(channel) < MaxQueued /\ Len(sagaChannel) < MaxQueued
    /\ inFlight' = inFlight \ {envelope}
    /\ channel' = Append(channel, envelope)
    /\ sagaChannel' = Append(sagaChannel, envelope)
    /\ UNCHANGED <<aggregates, readModels, creating>>

(* The route that creates p waits for the dispatch of this envelope, which *)
(* ends with the publication.                                              *)
Awaits(p, envelope) ==
    /\ creating[p].stage = "running"
    /\ envelope.stream = p /\ envelope.seq = creating[p].last

(* The publication fails: the event stays in the store and reaches nobody, *)
(* and the caller gets an error; the route that creates a purchase order   *)
(* passes it on and ends.                                                  *)
PublishFails(envelope) ==
    /\ BusMayFail
    /\ inFlight' = inFlight \ {envelope}
    /\ creating' = [p \in Purchases |->
                        IF Awaits(p, envelope) THEN [creating[p] EXCEPT !.stage = "error"]
                        ELSE creating[p]]
    /\ UNCHANGED <<aggregates, channels, readModels>>

-----------------------------------------------------------------------------
(* Routes of sales orders *)

DispatchSales(o, event) ==
    /\ AppendEvent(o, event)
    /\ orders' = [orders EXCEPT ![o] = ApplySales(@, event)]
    /\ UNCHANGED <<invoices, purchases, channels, readModels, creating>>

CreateSalesOrder(o) ==
    /\ CanCreateSales(orders[o])
    /\ DispatchSales(o, [type |-> "SalesOrderCreated", order_id |-> o])

AddSalesOrderLine(o, line) ==
    /\ CanAddSalesLine(orders[o], line.quantity, line.price)
    /\ DispatchSales(o, [type |-> "LineAdded", order_id |-> o,
                         line |-> NextSalesLine(orders[o], line.quantity, line.price)])

ConfirmSalesOrder(o) ==
    /\ CanConfirm(orders[o])
    /\ DispatchSales(o, [type |-> "OrderConfirmed", order_id |-> o])

MarkSalesOrderInvoiced(o) ==
    /\ CanMarkInvoiced(orders[o])
    /\ DispatchSales(o, [type |-> "OrderInvoiced", order_id |-> o])

-----------------------------------------------------------------------------
(* Routes of invoices *)

DispatchInvoice(i, event) ==
    /\ AppendEvent(i, event)
    /\ invoices' = [invoices EXCEPT ![i] = ApplyInvoice(@, event)]

(* issue_invoice: a new id; the order it names is not looked at. *)
IssueInvoice(i, o, lines) ==
    /\ CanIssue(invoices[i], lines)
    /\ DispatchInvoice(i, [type |-> "InvoiceIssued", sales_order_id |-> o,
                           total |-> Total(lines)])
    /\ UNCHANGED <<orders, purchases, channels, readModels, creating>>

RegisterInvoicePayment(i, amount) ==
    /\ CanPay(invoices[i], amount)
    /\ DispatchInvoice(i, [type |-> "PaymentRegistered", amount |-> amount,
                           new_total_paid |-> invoices[i].paid + amount])
    /\ UNCHANGED <<orders, purchases, channels, readModels, creating>>

VoidInvoice(i) ==
    /\ CanVoid(invoices[i])
    /\ DispatchInvoice(i, [type |-> "InvoiceVoided"])
    /\ UNCHANGED <<orders, purchases, channels, readModels, creating>>

(* post_journal_entry, on the default ledger *)
PostJournalEntry(lines) ==
    /\ CanPost(lines)
    /\ AppendEvent(LedgerId, [type |-> "JournalEntryPosted", lines |-> lines])
    /\ UNCHANGED <<orders, invoices, purchases, channels, readModels, creating>>

-----------------------------------------------------------------------------
(* Routes of purchase orders *)

DispatchPurchase(p, event) ==
    /\ AppendEvent(p, event)
    /\ purchases' = [purchases EXCEPT ![p] = ApplyPurchase(@, event)]
    /\ UNCHANGED <<orders, invoices, channels, readModels>>

(* create_purchase_order: one dispatch for the order ... *)
CreatePurchaseOrder(p, body) ==
    /\ CanCreatePurchase(purchases[p])
    /\ DispatchPurchase(p, [type |-> "PurchaseOrderCreated"])
    /\ creating' = [creating EXCEPT ![p] =
                        [stage |-> "running", body |-> body, added |-> 0, last |-> 1]]

(* Its last dispatch has returned. *)
RouteContinues(p) ==
    /\ creating[p].stage = "running"
    /\ \A envelope \in inFlight : ~Awaits(p, envelope)

(* ... one for each line ... *)
CreateAddsLine(p) ==
    LET route == creating[p]
        quantity == route.body[route.added + 1] IN
    /\ RouteContinues(p)
    /\ route.added < Len(route.body)
    /\ CanAddPurchaseLine(purchases[p], quantity)
    /\ DispatchPurchase(p, [type |-> "PurchaseOrderLineAdded",
                            line |-> NextPurchaseLine(purchases[p], quantity)])
    /\ creating' = [creating EXCEPT ![p].added = @ + 1, ![p].last = version[p] + 1]

(* ... and an error as soon as one fails before its append: the line is    *)
(* refused, another caller's event came between, the permission to add     *)
(* lines is missing.  PublishFails is the failure after the append.        *)
CreateFails(p) ==
    /\ RouteContinues(p)
    /\ creating[p].added < Len(creating[p].body)
    /\ creating' = [creating EXCEPT ![p].stage = "error"]
    /\ UNCHANGED <<aggregates, inFlight, channels, readModels>>

(* Mutant: 201 without waiting for the lines. *)
CreateRepliesEarly(p) ==
    /\ RouteContinues(p)
    /\ creating' = [creating EXCEPT ![p].stage = "created"]
    /\ UNCHANGED <<aggregates, inFlight, channels, readModels>>

(* 201 *)
CreateReplies(p) ==
    /\ RouteContinues(p)
    /\ creating[p].added = Len(creating[p].body)
    /\ creating' = [creating EXCEPT ![p].stage = "created"]
    /\ UNCHANGED <<aggregates, inFlight, channels, readModels>>

AddPurchaseOrderLine(p, quantity) ==
    /\ CanAddPurchaseLine(purchases[p], quantity)
    /\ DispatchPurchase(p, [type |-> "PurchaseOrderLineAdded",
                            line |-> NextPurchaseLine(purchases[p], quantity)])
    /\ UNCHANGED creating

ApprovePurchaseOrder(p) ==
    /\ CanApprove(purchases[p])
    /\ DispatchPurchase(p, [type |-> "PurchaseOrderApproved"])
    /\ UNCHANGED creating

ReceivePurchaseOrderGoods(p) ==
    /\ CanReceive(purchases[p])
    /\ DispatchPurchase(p, [type |-> "GoodsReceived", lines |-> purchases[p].lines])
    /\ UNCHANGED creating

-----------------------------------------------------------------------------
(* The projection loop *)

(* The read models after an accepted envelope. *)
Project(s, event) ==
    /\ salesRows' = IF s \in Orders
                    THEN [salesRows EXCEPT ![s] = SalesRowAfter(@, event)] ELSE salesRows
    /\ purchaseRows' = IF s \in Purchases
                       THEN [purchaseRows EXCEPT ![s] = PurchaseRowAfter(@, event)]
                       ELSE purchaseRows
    /\ invoiceRows' = IF s \in Invoices
                      THEN [invoiceRows EXCEPT ![s] = InvoiceRowAfter(@, event)]
                      ELSE invoiceRows
    /\ balances' = IF s = LedgerId THEN BalancesAfter(balances, event.lines) ELSE balances

(* The aging projection has cursors of its own. *)
ProjectAging(s, seq, event) ==
    IF s \in Invoices /\ CursorVerdict(agingCursor[s], seq) = "Next"
    THEN /\ agingRows' = [agingRows EXCEPT ![s] = AgingRowAfter(@, event)]
         /\ agingCursor' = [agingCursor EXCEPT ![s] = seq]
    ELSE UNCHANGED <<agingRows, agingCursor>>

(* apply_envelope; what it refuses is logged and the aging projection does *)
(* not see it.  The two calls for an invoice are one step, so what is said *)
(* of both reports is said between two envelopes of the loop.              *)
Deliver ==
    /\ channel # <<>>
    /\ channel' = Tail(channel)
    /\ LET s == Head(channel).stream
           seq == Head(channel).seq
           event == Head(channel).event
           verdict == CursorVerdict(cursor[s], seq) IN
       /\ IF verdict = "Next"
          THEN /\ Project(s, event)
               /\ cursor' = [cursor EXCEPT ![s] = seq]
               /\ first' = [first EXCEPT ![s] = IF @ = 0 THEN seq ELSE @]
          ELSE UNCHANGED <<salesRows, purchaseRows, invoiceRows, balances, cursor, first>>
       /\ IF verdict = "NonMonotonicSequence"
          THEN UNCHANGED <<agingRows, agingCursor>>
          ELSE ProjectAging(s, seq, event)
    /\ UNCHANGED <<aggregates, inFlight, sagaChannel, creating>>

-----------------------------------------------------------------------------
(* The saga loop *)

(* Events are serialised under the name of their variant. *)
Payload(event) == [tag \in {event.type} |-> event]

(* SalesArSaga::correlate: the order id is looked up in the payload itself. *)
Correlate(envelope) ==
    LET payload == Payload(envelope.event) IN
    CASE envelope.stream \in Orders /\ "order_id" \in DOMAIN payload ->
             payload["order_id"]
      [] envelope.stream \in Invoices /\ "sales_order_id" \in DOMAIN payload ->
             payload["sales_order_id"]
      [] OTHER -> NoOrder

(* react to a confirmed order: IssueInvoice with the lines of the read     *)
(* model, if it has the order.                                             *)
SagaIssues(o) ==
    IF salesRows[o] # NoSalesRow /\ CanIssue(EmptyInvoice, salesRows[o].lines)
    THEN /\ \E i \in Invoices :
                /\ ~invoices[i].created
                /\ DispatchInvoice(i, [type |-> "InvoiceIssued", sales_order_id |-> o,
                                       total |-> Total(salesRows[o].lines)])
         /\ UNCHANGED <<orders, purchases>>
    ELSE UNCHANGED <<aggregates, inFlight>>

(* One turn.  The saga's own events go to the order's stream, which        *)
(* refuses their type, so every saga stays in its first state.             *)
SagaTurn ==
    /\ sagaChannel # <<>>
    /\ sagaChannel' = Tail(sagaChannel)
    /\ IF /\ Correlate(Head(sagaChannel)) # NoOrder
          /\ Head(sagaChannel).event.type = "OrderConfirmed"
       THEN SagaIssues(Correlate(Head(sagaChannel)))
       ELSE UNCHANGED <<aggregates, inFlight>>
    /\ UNCHANGED <<channel, readModels, creating>>

-----------------------------------------------------------------------------
InvoiceLines == SeqOf(SalesLines, 2)

(* The bounds on what callers do. *)
MayCall == SumOf(version, Streams) < MaxEvents
MayOpen == Cardinality({s \in Streams : version[s] > 0}) < MaxStreams

Open ==
    \/ \E o \in Orders : CreateSalesOrder(o)
    \/ \E i \in Invoices : \E o \in Orders : \E lines \in InvoiceLines : IssueInvoice(i, o, lines)
    \/ \E p \in Purchases : \E body \in Bodies : CreatePurchaseOrder(p, body)

Call ==
    \/ \E o \in Orders : ConfirmSalesOrder(o) \/ MarkSalesOrderInvoiced(o)
    \/ \E o \in Orders : \E line \in SalesLines : AddSalesOrderLine(o, line)
    \/ \E i \in Invoices : \E amount \in Amounts : RegisterInvoicePayment(i, amount)
    \/ \E i \in Invoices : VoidInvoice(i)
    \/ \E p \in Purchases : CreateAddsLine(p)
    \/ \E p \in Purchases : \E quantity \in Quantities : AddPurchaseOrderLine(p, quantity)
    \/ \E p \in Purchases : ApprovePurchaseOrder(p) \/ ReceivePurchaseOrderGoods(p)

Next ==
    \/ MayCall /\ MayOpen /\ Open
    \/ MayCall /\ Call
    \/ /\ MayCall /\ (MayOpen \/ version[LedgerId] > 0)
       /\ \E lines \in Entries : PostJournalEntry(lines)
    \/ \E p \in Purchases : CreateFails(p) \/ CreateReplies(p)
    \/ \E envelope \in inFlight : Publish(envelope) \/ PublishFails(envelope)
    \/ Deliver
    \/ SagaTurn

Spec == Init /\ [][Next]_vars

(* Dispatches end and the two loops run; callers need not call. *)
Fairness ==
    /\ WF_vars(\E envelope \in inFlight : Publish(envelope) \/ PublishFails(envelope))
    /\ WF_vars(Deliver) /\ WF_vars(SagaTurn)

FairSpec == Spec /\ Fairness

-----------------------------------------------------------------------------
(* Properties *)

(***************************************************************************)
(* Whatever is paid and voided in whatever order, an invoice never takes   *)
(* more than its total, it is Paid only when the total has come in, and    *)
(* one that is still open after a payment can take the rest.               *)
(***************************************************************************)
PaymentsBounded ==
    \A i \in Invoices : invoices[i].created =>
        /\ invoices[i].paid <= invoices[i].total
        /\ invoices[i].status = "Paid" =>
               invoices[i].paid = invoices[i].total /\ invoices[i].paid > 0
        /\ invoices[i].status = "Open" /\ invoices[i].paid > 0 => CanAcceptPayment(invoices[i])

(***************************************************************************)
(* The list of invoices and the aging report are folded separately, one    *)
(* from the sum of payments, the other from each payment.  They agree on   *)
(* what is outstanding and on the status, whatever was published when.     *)
(***************************************************************************)
InvoiceModelsAgree ==
    \A i \in Invoices :
        /\ agingRows[i].status = invoiceRows[i].status
        /\ agingRows[i].total = invoiceRows[i].total
        /\ agingRows[i].outstanding = Outstanding(invoiceRows[i])

(***************************************************************************)
(* A read model that started with event 1 and has seen every event shows   *)
(* the aggregate as apply folds it.                                        *)
(***************************************************************************)
CaughtUp(s) == cursor[s] = version[s] /\ first[s] = 1

CaughtUpRowsMatch ==
    /\ \A o \in Orders : CaughtUp(o) =>
           salesRows[o] = [status |-> orders[o].status, lines |-> orders[o].lines]
    /\ \A p \in Purchases : CaughtUp(p) =>
           purchaseRows[p] = [status |-> purchases[p].status, lines |-> purchases[p].lines]
    /\ \A i \in Invoices : CaughtUp(i) =>
           invoiceRows[i] = [status |-> invoices[i].status, total |-> invoices[i].total,
                             paid |-> invoices[i].paid]

(* The balances of the accounts add up to zero whichever entries were      *)
(* applied, skipped or refused.                                            *)
BalancesSumToZero == SumOf(balances, Accounts) = 0

(***************************************************************************)
(* A purchase order whose creation was answered with 201 contains the      *)
(* lines of the request in their order, whatever lines other callers added *)
(* and whenever it was approved.  After an error it has as many of the     *)
(* first ones as the route appended, which may be all of them: the error   *)
(* does not undo what was stored, nor the line whose publication failed.   *)
(***************************************************************************)
HasLines(lines, body, n) ==
    \E f \in [1 .. n -> 1 .. Len(lines)] :
        /\ \A a, b \in 1 .. n : a < b => f[a] < f[b]
        /\ \A a \in 1 .. n : lines[f[a]].quantity = body[a]

CreatedIsComplete ==
    \A p \in Purchases :
        /\ creating[p].stage = "created" =>
               HasLines(purchases[p].lines, creating[p].body, Len(creating[p].body))
        /\ creating[p].stage = "error" =>
               /\ purchases[p].created
               /\ HasLines(purchases[p].lines, creating[p].body, creating[p].added)

(* "SalesOrder confirmed -> issue invoice": a confirmed order is invoiced. *)
ConfirmedIsInvoiced ==
    \A o \in Orders : orders[o].status = "Confirmed" ~>
        \E i \in Invoices : invoices[i].created /\ invoices[i].order = o

=============================================================================
