-------------------------- MODULE OrderFlowsProofs --------------------------
(***************************************************************************)
(* Proofs of the safety properties of OrderFlows for any orders, invoices, *)
(* purchase orders, lines, amounts and interleaving of routes,             *)
(* publications and deliveries.                                            *)
(*                                                                         *)
(* The argument for the read models: a stream has a history of rows, one   *)
(* per event, that starts with no row and ends with what the aggregate     *)
(* folds to; every envelope on its way takes one row of the history to the *)
(* next (Followed).  A read model that started with event 1 therefore      *)
(* shows the history's row at its cursor; one that started later shows an  *)
(* invoice without a total (LateHasNoTotal), on which both reports agree.  *)
(*                                                                         *)
(* The argument for the route: the lines it has added so far are in the    *)
(* order, in their order, whatever is between them (RoutesAdd).            *)
(***************************************************************************)
EXTENDS OrderFlows, FiniteSetTheorems, WellFoundedInduction, TLAPS

-----------------------------------------------------------------------------
(* What the operators on sequences list. *)

(* The rest of a list, and the first of it, are of the list. *)
LEMMA TailLists ==
    ASSUME NEW T, NEW s \in Seq(T), s # <<>>
    PROVE  Head(s) \in ToSet(s) /\ Tail(s) \in Seq(T) /\ ToSet(Tail(s)) \subseteq ToSet(s)
  <1>1. /\ Len(s) \in Nat \ {0} /\ DOMAIN s = 1 .. Len(s)
        /\ Tail(s) \in Seq(T) /\ Len(Tail(s)) = Len(s) - 1 /\ DOMAIN Tail(s) = 1 .. Len(s) - 1
        /\ \A i \in 1 .. Len(s) - 1 : Tail(s)[i] = s[i + 1]
        /\ Head(s) = s[1]
    OBVIOUS
  <1>2. \A i \in 1 .. Len(s) - 1 : i + 1 \in 1 .. Len(s)
    BY <1>1
  <1>3. Head(s) \in ToSet(s)
    BY <1>1 DEF ToSet
  <1>4. ToSet(Tail(s)) \subseteq ToSet(s)
    BY <1>1, <1>2 DEF ToSet
  <1> QED
    BY <1>1, <1>3, <1>4

(* Appending adds one member. *)
LEMMA AppendLists ==
    ASSUME NEW T, NEW s \in Seq(T), NEW e \in T
    PROVE  Append(s, e) \in Seq(T) /\ ToSet(Append(s, e)) = ToSet(s) \cup {e}
  <1>1. /\ Len(s) \in Nat /\ DOMAIN s = 1 .. Len(s)
        /\ Append(s, e) \in Seq(T) /\ Len(Append(s, e)) = Len(s) + 1
        /\ DOMAIN Append(s, e) = 1 .. Len(s) + 1
        /\ \A i \in 1 .. Len(s) : Append(s, e)[i] = s[i]
        /\ Append(s, e)[Len(s) + 1] = e
    OBVIOUS
  <1>2. PICK a : a = Append(s, e)
    OBVIOUS
  <1>3. \A i \in 1 .. Len(s) + 1 : i \in 1 .. Len(s) \/ i = Len(s) + 1
    BY <1>1
  <1>4. \A i \in 1 .. Len(s) : i \in 1 .. Len(s) + 1
    BY <1>1
  <1>5. Len(s) + 1 \in 1 .. Len(s) + 1
    BY <1>1
  <1>6. ToSet(a) = ToSet(s) \cup {e}
    BY <1>1, <1>2, <1>3, <1>4, <1>5 DEF ToSet
  <1> QED
    BY <1>1, <1>2, <1>6

-----------------------------------------------------------------------------

(* Streams that have a row in a read model. *)
Documents == Orders \cup Invoices \cup Purchases

NoRow(s) == IF s \in Orders THEN NoSalesRow
            ELSE IF s \in Invoices THEN NoInvoiceRow ELSE NoPurchaseRow

RowOf(s) == IF s \in Orders THEN salesRows[s]
            ELSE IF s \in Invoices THEN invoiceRows[s] ELSE purchaseRows[s]

RowAfter(s, row, event) ==
    IF s \in Orders THEN SalesRowAfter(row, event)
    ELSE IF s \in Invoices THEN InvoiceRowAfter(row, event) ELSE PurchaseRowAfter(row, event)

(* The aggregate as a read model would show it. *)
Decided(s) ==
    IF s \in Orders THEN [status |-> orders[s].status, lines |-> orders[s].lines]
    ELSE IF s \in Invoices THEN [status |-> invoices[s].status, total |-> invoices[s].total,
                                 paid |-> invoices[s].paid]
    ELSE [status |-> purchases[s].status, lines |-> purchases[s].lines]

Shown(s) == IF version[s] = 0 THEN NoRow(s) ELSE Decided(s)

(* Envelopes that have not been delivered. *)
Underway == inFlight \cup ToSet(channel)

(* Envelopes carry numbers their stream has given out; the first event of  *)
(* an invoice, and only the first, issues it.                              *)
NumbersGivenOut ==
    \A e \in Underway :
        /\ e.seq <= version[e.stream]
        /\ e.stream \in Invoices => (e.event.type = "InvoiceIssued" <=> e.seq = 1)

(* An aggregate exists exactly if its stream has events. *)
CreatedByEvents ==
    /\ \A o \in Orders : orders[o].created <=> version[o] > 0
    /\ \A i \in Invoices : invoices[i].created <=> version[i] > 0
    /\ \A p \in Purchases : purchases[p].created <=> version[p] > 0

(* Cursors are at numbers given out; the projections of invoices keep the  *)
(* same ones.                                                              *)
CursorsTogether ==
    /\ \A s \in Streams : /\ first[s] <= cursor[s] /\ cursor[s] <= version[s]
                          /\ cursor[s] = 0 <=> first[s] = 0
    /\ \A i \in Invoices : agingCursor[i] = cursor[i]

(* A payment's two amounts fit the row before it. *)
AddsUp(row, event) ==
    event.type = "PaymentRegistered" => event.new_total_paid = row.paid + event.amount

Follows(s, h) ==
    /\ h[0] = NoRow(s) /\ h[version[s]] = Shown(s)
    /\ first[s] \in {0, 1} => RowOf(s) = h[cursor[s]]
    /\ \A e \in Underway : e.stream = s =>
           /\ h[e.seq] = RowAfter(s, h[e.seq - 1], e.event)
           /\ s \in Invoices => AddsUp(h[e.seq - 1], e.event)

Followed == \A s \in Documents : \E h : Follows(s, h)

(* The row of an invoice read from a later event on has no total. *)
LateHasNoTotal ==
    \A i \in Invoices :
        /\ first[i] > 1 => invoiceRows[i].total = 0
        /\ cursor[i] = 0 => invoiceRows[i] = NoInvoiceRow /\ agingRows[i] = NoAgingRow
        /\ cursor[i] > 0 => invoiceRows[i].status # "NoRow"

(* How far the route that creates a purchase order has come. *)
RouteAdds(p) ==
    /\ creating[p].added <= Len(creating[p].body)
    /\ HasLines(purchases[p].lines, creating[p].body, creating[p].added)
    /\ creating[p].stage = "created" => creating[p].added = Len(creating[p].body)
    /\ creating[p].stage # "idle" => purchases[p].created

RoutesAdd == \A p \in Purchases : RouteAdds(p)

FlowInv ==
    /\ FlowsTyped
    /\ NumbersGivenOut /\ CreatedByEvents /\ CursorsTogether /\ Followed
    /\ LateHasNoTotal /\ InvoiceModelsAgree
    /\ PaymentsBounded /\ RoutesAdd

SalesRow == [status : {"NoRow", "Draft", "Confirmed", "Invoiced"}, lines : Seq(SalesLine)]
PurchaseRow == [status : {"NoRow", "Draft", "Approved", "Received"}, lines : Seq(PurchaseLine)]
InvoiceRow == [status : {"NoRow", "Open", "Paid", "Void"}, total : Amount, paid : Amount]
AgingRow == [status : {"NoRow", "Open", "Paid", "Void"}, total : Amount, outstanding : Amount]

-----------------------------------------------------------------------------
(* What the row functions return. *)

(* The fields of the events. *)
LEMMA SalesEventFields ==
    ASSUME NEW event \in SalesEvent
    PROVE  /\ event.type \in {"SalesOrderCreated", "OrderConfirmed", "OrderInvoiced", "LineAdded"}
           /\ event.type = "LineAdded" => event.line \in SalesLine
  BY DEF SalesEvent

(* The fields of a purchase event, by its type. *)
LEMMA PurchaseEventFields ==
    ASSUME NEW event \in PurchaseEvent
    PROVE  /\ event.type \in {"PurchaseOrderCreated", "PurchaseOrderApproved",
                              "PurchaseOrderLineAdded", "GoodsReceived"}
           /\ event.type = "PurchaseOrderLineAdded" => event.line \in PurchaseLine
           /\ event.type = "GoodsReceived" => event.lines \in Seq(PurchaseLine)
  BY DEF PurchaseEvent

(* The fields of an invoice event, by its type. *)
LEMMA InvoiceEventFields ==
    ASSUME NEW event \in InvoiceEvent
    PROVE  /\ event.type \in {"InvoiceIssued", "PaymentRegistered", "InvoiceVoided"}
           /\ event.type = "InvoiceIssued" => event.total \in Amount
           /\ event.type = "PaymentRegistered" =>
                  event.amount \in Amount /\ event.new_total_paid \in Amount
  BY DEF InvoiceEvent

(* SalesOrdersProjection keeps the type of its rows. *)
LEMMA SalesRowTyped ==
    ASSUME NEW row \in SalesRow, NEW event \in SalesEvent
    PROVE  SalesRowAfter(row, event) \in SalesRow
  <1>1. <<>> \in Seq(SalesLine)
    OBVIOUS
  <1>2. PICK rm \in SalesRow :
            rm = IF row = NoSalesRow THEN [status |-> "Draft", lines |-> <<>>] ELSE row
    BY <1>1 DEF SalesRow
  <1>3. CASE event.type = "SalesOrderCreated"
    BY <1>1, <1>3 DEF SalesRowAfter, SalesRow
  <1>4. CASE event.type = "LineAdded"
    <2>1. event.line \in SalesLine /\ rm.lines \in Seq(SalesLine)
      BY <1>2, <1>4, SalesEventFields DEF SalesRow
    <2>2. PICK l \in Seq(SalesLine) : l = Append(rm.lines, event.line)
      <3>1. Append(rm.lines, event.line) \in Seq(SalesLine)
        BY <2>1, AppendLists
      <3> QED
        BY <3>1
    <2>3. SalesRowAfter(row, event) = [status |-> rm.status, lines |-> l]
      <3>1. CASE row = NoSalesRow
        <4>1. rm = [status |-> "Draft", lines |-> <<>>]
          BY <1>2, <3>1
        <4> QED
          BY <1>4, <2>2, <3>1, <4>1 DEF SalesRowAfter
      <3>2. CASE row # NoSalesRow
        <4>1. rm = row
          BY <1>2, <3>2
        <4> QED
          BY <1>4, <2>2, <3>2, <4>1 DEF SalesRowAfter, SalesRow
      <3> QED
        BY <3>1, <3>2
    <2> QED
      BY <2>3 DEF SalesRow
  <1>5. CASE event.type = "OrderConfirmed"
    <2>1. SalesRowAfter(row, event) = [rm EXCEPT !.status = "Confirmed"]
      BY <1>2, <1>5 DEF SalesRowAfter
    <2> QED
      BY <2>1 DEF SalesRow
  <1>6. CASE event.type = "OrderInvoiced"
    <2>1. SalesRowAfter(row, event) = [rm EXCEPT !.status = "Invoiced"]
      BY <1>2, <1>6 DEF SalesRowAfter
    <2> QED
      BY <2>1 DEF SalesRow
  <1> QED
    BY <1>3, <1>4, <1>5, <1>6, SalesEventFields

(* PurchaseOrdersProjection keeps the type of its rows. *)
LEMMA PurchaseRowTyped ==
    ASSUME NEW row \in PurchaseRow, NEW event \in PurchaseEvent
    PROVE  PurchaseRowAfter(row, event) \in PurchaseRow
  <1>1. <<>> \in Seq(PurchaseLine)
    OBVIOUS
  <1>2. PICK rm \in PurchaseRow :
            rm = IF row = NoPurchaseRow THEN [status |-> "Draft", lines |-> <<>>] ELSE row
    BY <1>1 DEF PurchaseRow
  <1>3. CASE event.type = "PurchaseOrderCreated"
    BY <1>1, <1>3 DEF PurchaseRowAfter, PurchaseRow
  <1>4. CASE event.type = "PurchaseOrderLineAdded"
    <2>1. event.line \in PurchaseLine /\ rm.lines \in Seq(PurchaseLine)
      BY <1>2, <1>4, PurchaseEventFields DEF PurchaseRow
    <2>2. PICK l \in Seq(PurchaseLine) : l = Append(rm.lines, event.line)
      <3>1. Append(rm.lines, event.line) \in Seq(PurchaseLine)
        BY <2>1, AppendLists
      <3> QED
        BY <3>1
    <2>3. PurchaseRowAfter(row, event) = [status |-> rm.status, lines |-> l]
      <3>1. CASE row = NoPurchaseRow
        <4>1. rm = [status |-> "Draft", lines |-> <<>>]
          BY <1>2, <3>1
        <4> QED
          BY <1>4, <2>2, <3>1, <4>1 DEF PurchaseRowAfter
      <3>2. CASE row # NoPurchaseRow
        <4>1. rm = row
          BY <1>2, <3>2
        <4> QED
          BY <1>4, <2>2, <3>2, <4>1 DEF PurchaseRowAfter, PurchaseRow
      <3> QED
        BY <3>1, <3>2
    <2> QED
      BY <2>3 DEF PurchaseRow
  <1>5. CASE event.type = "PurchaseOrderApproved"
    <2>1. PurchaseRowAfter(row, event) = [rm EXCEPT !.status = "Approved"]
      BY <1>2, <1>5 DEF PurchaseRowAfter
    <2> QED
      BY <2>1 DEF PurchaseRow
  <1>6. CASE event.type = "GoodsReceived"
    <2>1. PurchaseRowAfter(row, event) = [status |-> "Received", lines |-> event.lines]
      BY <1>6 DEF PurchaseRowAfter
    <2>2. event.lines \in Seq(PurchaseLine)
      BY <1>6, PurchaseEventFields
    <2> QED
      BY <2>1, <2>2 DEF PurchaseRow
  <1> QED
    BY <1>3, <1>4, <1>5, <1>6, PurchaseEventFields

(* What the list of invoices and the aging report agree on. *)
Agree(row, aging) ==
    /\ aging.status = row.status
    /\ aging.total = row.total
    /\ aging.outstanding = Outstanding(row)

(***************************************************************************)
(* The two projections of invoices stay in agreement over an event both    *)
(* apply: one takes the new sum of payments, the other the payment, which  *)
(* comes to the same if the sums fit or if there is nothing outstanding.   *)
(***************************************************************************)
LEMMA AgreementKept ==
    ASSUME NEW row \in InvoiceRow, NEW aging \in AgingRow, NEW event \in InvoiceEvent,
           Agree(row, aging), row.status = "NoRow" => row = NoInvoiceRow /\ aging = NoAgingRow,
           row.total = 0 \/ AddsUp(row, event)
    PROVE  /\ InvoiceRowAfter(row, event) \in InvoiceRow
           /\ AgingRowAfter(aging, event) \in AgingRow
           /\ Agree(InvoiceRowAfter(row, event), AgingRowAfter(aging, event))
           /\ InvoiceRowAfter(row, event).status # "NoRow"
           /\ event.type # "InvoiceIssued" => InvoiceRowAfter(row, event).total = row.total
  <1>0. MaxU64 \in Nat /\ 0 \in Amount /\ Amount \subseteq Nat
    BY InvoiceAssumption DEF Amount
  <1>1. /\ row.status = "NoRow" <=> row = NoInvoiceRow
        /\ aging = NoAgingRow <=> row = NoInvoiceRow
    <2>1. NoInvoiceRow.status = "NoRow" /\ NoAgingRow.status = "NoRow"
      BY DEF NoInvoiceRow, NoAgingRow
    <2> QED
      BY <2>1 DEF Agree
  <1>2. PICK rm : rm = IF row = NoInvoiceRow THEN [row EXCEPT !.status = "Open"] ELSE row
    OBVIOUS
  <1>3. PICK am : am = IF aging = NoAgingRow THEN [aging EXCEPT !.status = "Open"] ELSE aging
    OBVIOUS
  <1>4. rm \in InvoiceRow /\ rm.status # "NoRow" /\ rm.total = row.total /\ rm.paid = row.paid
    BY <1>1, <1>2 DEF InvoiceRow
  <1>5. am \in AgingRow /\ am.status = rm.status /\ am.total = rm.total
        /\ am.outstanding = Outstanding(rm)
    BY <1>1, <1>2, <1>3, <1>4 DEF AgingRow, InvoiceRow, Agree, Outstanding
  <1>6. CASE event.type = "InvoiceIssued"
    <2>1. PICK total \in Amount : total = event.total
      BY <1>6, InvoiceEventFields
    <2>2. InvoiceRowAfter(row, event) = [status |-> "Open", total |-> total, paid |-> 0]
      BY <1>6, <2>1 DEF InvoiceRowAfter
    <2>3. AgingRowAfter(aging, event)
              = [status |-> "Open", total |-> total, outstanding |-> total]
      BY <1>6, <2>1 DEF AgingRowAfter
    <2>4. total \in Nat
      BY <1>0
    <2>5. Outstanding([status |-> "Open", total |-> total, paid |-> 0]) = total
      BY <2>4 DEF Outstanding
    <2> QED
      BY <1>0, <1>6, <2>2, <2>3, <2>5 DEF InvoiceRow, AgingRow, Agree
  <1>7. CASE event.type = "InvoiceVoided"
    <2>1. InvoiceRowAfter(row, event) = [rm EXCEPT !.status = "Void"]
      BY <1>2, <1>7 DEF InvoiceRowAfter
    <2>2. AgingRowAfter(aging, event) = [am EXCEPT !.status = "Void"]
      BY <1>3, <1>7 DEF AgingRowAfter
    <2> QED
      BY <1>4, <1>5, <1>7, <2>1, <2>2 DEF InvoiceRow, AgingRow, Agree, Outstanding
  <1>8. CASE event.type = "PaymentRegistered"
    <2>1. PICK x \in Amount : x = event.amount
      BY <1>8, InvoiceEventFields
    <2>2. PICK sum \in Amount : sum = event.new_total_paid
      BY <1>8, InvoiceEventFields
    <2>3. PICK left : left = IF am.outstanding > x THEN am.outstanding - x ELSE 0
      OBVIOUS
    <2>4. PICK T \in Amount, P \in Amount, O \in Amount :
              T = rm.total /\ P = rm.paid /\ O = am.outstanding
      BY <1>4, <1>5 DEF InvoiceRow, AgingRow
    <2>5. x \in Nat /\ sum \in Nat /\ T \in Nat /\ P \in Nat /\ O \in Nat
      BY <1>0
    <2>6. O = IF T > P THEN T - P ELSE 0
      BY <1>5, <2>4 DEF Outstanding
    <2>7. T = 0 \/ sum = P + x
      BY <1>4, <1>8, <2>1, <2>2, <2>4 DEF AddsUp
    <2>8. left = (IF T > sum THEN T - sum ELSE 0) /\ (left = 0 <=> sum >= T)
      BY <2>3, <2>4, <2>5, <2>6, <2>7
    <2>9. left \in Amount
      BY <1>0, <2>3, <2>4, <2>5 DEF Amount
    <2>10. PICK status : status = IF sum >= T THEN "Paid" ELSE rm.status
      OBVIOUS
    <2>11. InvoiceRowAfter(row, event) = [rm EXCEPT !.paid = sum, !.status = status]
      BY <1>2, <1>8, <2>2, <2>4, <2>10 DEF InvoiceRowAfter
    <2>12. AgingRowAfter(aging, event) = [am EXCEPT !.outstanding = left, !.status = status]
      <3>1. AgingRowAfter(aging, event) =
                [am EXCEPT !.outstanding = left, !.status = IF left = 0 THEN "Paid" ELSE @]
        BY <1>3, <1>8, <2>1, <2>3 DEF AgingRowAfter
      <3> QED
        BY <1>5, <2>8, <2>10, <3>1 DEF AgingRow
    <2>13. status \in {"Open", "Paid", "Void"}
      BY <1>4, <2>10 DEF InvoiceRow
    <2>14. PICK r2 : r2 = [status |-> status, total |-> T, paid |-> sum]
      OBVIOUS
    <2>15. PICK a2 : a2 = [status |-> status, total |-> T, outstanding |-> left]
      OBVIOUS
    <2>16. InvoiceRowAfter(row, event) = r2
      BY <1>4, <2>4, <2>11, <2>14 DEF InvoiceRow
    <2>17. AgingRowAfter(aging, event) = a2
      BY <1>5, <2>4, <2>12, <2>15 DEF AgingRow
    <2>18. r2 \in InvoiceRow /\ r2.status = status /\ r2.total = T
      BY <2>13, <2>14 DEF InvoiceRow
    <2>19. a2 \in AgingRow
      BY <2>9, <2>13, <2>15 DEF AgingRow
    <2>20. Outstanding(r2) = left
      BY <2>8, <2>14 DEF Outstanding
    <2>21. Agree(r2, a2)
      BY <2>14, <2>15, <2>20 DEF Agree
    <2> QED
      BY <1>4, <2>4, <2>13, <2>16, <2>17, <2>18, <2>19, <2>21
  <1> QED
    BY <1>6, <1>7, <1>8, InvoiceEventFields


-----------------------------------------------------------------------------
(* Dispatches. *)

(* An id belongs to one kind of stream. *)
LEMMA OneKind ==
    /\ Documents \subseteq Streams /\ LedgerId \in Streams /\ LedgerId \notin Documents
    /\ \A s \in Streams : s \in Documents \/ s = LedgerId
    /\ \A o \in Orders : o \in Documents /\ o \notin Invoices /\ o \notin Purchases
    /\ \A i \in Invoices : i \in Documents /\ i \notin Orders /\ i \notin Purchases
    /\ \A p \in Purchases : p \in Documents /\ p \notin Orders /\ p \notin Invoices
  BY OrderFlowsAssumption DEF Documents, Streams

(* The saga loop's subscription and the projection loop's hold envelopes. *)
LEMMA EnvelopeFields ==
    ASSUME NEW e \in Envelopes
    PROVE  /\ e.stream \in Streams /\ e.seq \in Nat \ {0} /\ e.event \in EventsOf(e.stream)
           /\ e = [stream |-> e.stream, seq |-> e.seq, event |-> e.event]
  BY DEF Envelopes

(***************************************************************************)
(* append: a stream's history grows by the row the event leads to, which   *)
(* is what the aggregate now is.                                           *)
(***************************************************************************)
LEMMA AppendKeeps ==
    ASSUME FlowInv, NEW s \in Streams, NEW event \in EventsOf(s), AppendEvent(s, event),
           UNCHANGED <<channels, readModels>>,
           orders' \in [Orders -> Order], invoices' \in [Invoices -> Bill],
           purchases' \in [Purchases -> Purchase], creating' \in [Purchases -> Route],
           \A t \in Documents \ {s} : Decided(t)' = Decided(t),
           s \in Documents => Decided(s)' = RowAfter(s, Shown(s), event),
           s \in Invoices => /\ AddsUp(Shown(s), event)
                             /\ event.type = "InvoiceIssued" <=> version[s] = 0
    PROVE  /\ FlowsTyped' /\ NumbersGivenOut' /\ CursorsTogether'
           /\ Followed' /\ LateHasNoTotal' /\ InvoiceModelsAgree'
           /\ version[s] \in Nat /\ version'[s] = version[s] + 1
           /\ \A t \in Streams \ {s} : version'[t] = version[t]
  <1> USE DEF FlowInv
  <1>0. /\ channel' = channel /\ sagaChannel' = sagaChannel /\ cursor' = cursor
        /\ agingCursor' = agingCursor /\ salesRows' = salesRows /\ invoiceRows' = invoiceRows
        /\ agingRows' = agingRows /\ purchaseRows' = purchaseRows /\ first' = first
    BY DEF channels, readModels
  <1>1. version \in [Streams -> Nat] /\ cursor \in [Streams -> Nat] /\ first \in [Streams -> Nat]
        /\ inFlight \subseteq Envelopes /\ channel \in Seq(Envelopes)
    BY DEF FlowsTyped
  <1>2. PICK v \in Nat : v = version[s]
    BY <1>1
  <1>3. PICK e0 : e0 = [stream |-> s, seq |-> v + 1, event |-> event]
    OBVIOUS
  <1>4. e0.stream = s /\ e0.seq = v + 1 /\ e0.event = event
    BY <1>3
  <1>5. inFlight' = inFlight \cup {e0} /\ version' = [version EXCEPT ![s] = @ + 1]
    BY <1>2, <1>3 DEF AppendEvent, Envelope
  <1>6. version' \in [Streams -> Nat] /\ version'[s] = v + 1
        /\ \A t \in Streams \ {s} : version'[t] = version[t]
    BY <1>1, <1>2, <1>5
  <1>7. e0 \in Envelopes
    <2>1. event \in SalesEvent \cup InvoiceEvent \cup PurchaseEvent \cup LedgerEvent
      BY DEF EventsOf
    <2>2. v + 1 \in Nat \ {0}
      OBVIOUS
    <2> QED
      BY <1>3, <1>4, <2>1, <2>2 DEF Envelopes
  <1>8. Underway' = Underway \cup {e0}
    BY <1>0, <1>5 DEF Underway
  <1>9. \A e \in Underway : e \in Envelopes /\ e.seq \in Nat \ {0} /\ e.stream \in Streams
                            /\ e.seq <= version[e.stream]
    <2>1. \A e \in ToSet(channel) : e \in Envelopes
      BY <1>1 DEF ToSet
    <2>2. \A e \in Underway : e \in Envelopes
      BY <1>1, <2>1 DEF Underway
    <2> QED
      BY <2>2, EnvelopeFields DEF NumbersGivenOut
  <1>10. FlowsTyped'
    <2>1. inFlight' \subseteq Envelopes
      BY <1>1, <1>5, <1>7
    <2> QED
      BY <1>0, <1>6, <2>1 DEF FlowsTyped
  <1>11. NumbersGivenOut'
    <2> SUFFICES ASSUME NEW e \in Underway'
                 PROVE  /\ e.seq <= version'[e.stream]
                        /\ e.stream \in Invoices => (e.event.type = "InvoiceIssued" <=> e.seq = 1)
      BY DEF NumbersGivenOut
    <2>1. CASE e = e0
      <3>1. e.seq <= version'[e.stream]
        BY <1>4, <1>6, <2>1
      <3>2. (version[s] = 0) <=> (v + 1 = 1)
        BY <1>2
      <3> QED
        BY <1>4, <2>1, <3>1, <3>2
    <2>2. CASE e \in Underway
      <3>1. e.seq \in Nat /\ e.stream \in Streams /\ e.seq <= version[e.stream]
        BY <1>9, <2>2
      <3>2. \A t \in Streams : version[t] \in Nat /\ version'[t] \in Nat /\ version[t] <= version'[t]
        <4> TAKE t \in Streams
        <4>1. CASE t = s
          BY <1>2, <1>6, <4>1
        <4>2. CASE t # s
          BY <1>1, <1>6, <4>2
        <4> QED
          BY <4>1, <4>2
      <3>3. e.seq <= version'[e.stream]
        <4>1. PICK t \in Streams : t = e.stream
          BY <3>1
        <4> QED
          BY <3>1, <3>2, <4>1
      <3> QED
        BY <2>2, <3>3 DEF NumbersGivenOut
    <2> QED
      BY <1>8, <2>1, <2>2
  <1>12. CursorsTogether'
    <2>1. ASSUME NEW t \in Streams PROVE cursor[t] <= version'[t]
      <3>1. cursor[t] \in Nat /\ cursor[t] <= version[t]
        BY <1>1 DEF CursorsTogether
      <3>2. CASE t = s
        BY <1>2, <1>6, <3>1, <3>2
      <3>3. CASE t # s
        BY <1>6, <3>1, <3>3
      <3> QED
        BY <3>2, <3>3
    <2> QED
      BY <1>0, <2>1 DEF CursorsTogether
  <1>13. LateHasNoTotal' /\ InvoiceModelsAgree'
    BY <1>0 DEF LateHasNoTotal, InvoiceModelsAgree
  <1>14. \A t : RowOf(t)' = RowOf(t)
    BY <1>0 DEF RowOf
  <1>15. ASSUME NEW t \in Documents, t # s PROVE (\E h : Follows(t, h))'
    <2>1. PICK h : Follows(t, h)
      BY DEF Followed
    <2>2. version'[t] = version[t]
      BY <1>6, <1>15, OneKind
    <2>3. Shown(t)' = Shown(t)
      BY <1>15, <2>2 DEF Shown
    <2>4. e0.stream # t
      BY <1>4, <1>15
    <2>5. Follows(t, h)'
      BY <1>0, <1>8, <1>14, <2>1, <2>2, <2>3, <2>4 DEF Follows
    <2> QED
      BY <2>5
  <1>16. ASSUME s \in Documents PROVE (\E h : Follows(s, h))'
    <2>1. PICK h : Follows(s, h)
      BY <1>16 DEF Followed
    <2>2. PICK new : new = RowAfter(s, Shown(s), event)
      OBVIOUS
    <2>3. PICK g : g = [n \in Nat |-> IF n <= v THEN h[n] ELSE new]
      OBVIOUS
    <2>4. g[v + 1] = new /\ \A n \in Nat : n <= v => g[n] = h[n]
      BY <2>3
    <2>5. g[0] = NoRow(s)
      BY <2>1, <2>4 DEF Follows
    <2>6. Shown(s)' = new
      BY <1>6, <1>16, <2>2 DEF Shown
    <2>7. g[version'[s]] = Shown(s)'
      BY <1>6, <2>4, <2>6
    <2>8. first'[s] \in {0, 1} => RowOf(s)' = g[cursor'[s]]
      <3>1. cursor[s] \in Nat /\ cursor[s] <= v
        BY <1>1, <1>2 DEF CursorsTogether
      <3>2. g[cursor[s]] = h[cursor[s]]
        BY <2>4, <3>1
      <3> QED
        BY <1>0, <1>14, <2>1, <3>2 DEF Follows
    <2>9. ASSUME NEW e \in Underway', e.stream = s
          PROVE  /\ g[e.seq] = RowAfter(s, g[e.seq - 1], e.event)
                 /\ s \in Invoices => AddsUp(g[e.seq - 1], e.event)
      <3>1. CASE e = e0
        <4>1. e.seq - 1 = v /\ e.seq = v + 1 /\ e.event = event
          BY <1>4, <3>1
        <4>2. g[v] = h[v] /\ h[v] = Shown(s)
          BY <1>2, <2>1, <2>4 DEF Follows
        <4> QED
          BY <2>2, <2>4, <4>1, <4>2
      <3>2. CASE e \in Underway
        <4>1. e.seq \in Nat \ {0} /\ e.seq <= v
          BY <1>2, <1>9, <2>9, <3>2
        <4>2. e.seq - 1 \in Nat /\ e.seq - 1 <= v
          BY <4>1
        <4>3. g[e.seq] = h[e.seq] /\ g[e.seq - 1] = h[e.seq - 1]
          BY <2>4, <4>1, <4>2
        <4> QED
          BY <2>1, <2>9, <3>2, <4>3 DEF Follows
      <3> QED
        BY <1>8, <3>1, <3>2
    <2>10. Follows(s, g)'
      BY <2>5, <2>7, <2>8, <2>9 DEF Follows
    <2> QED
      BY <2>10
  <1>17. Followed'
    BY <1>15, <1>16 DEF Followed
  <1> QED
    BY <1>2, <1>6, <1>10, <1>11, <1>12, <1>13, <1>17


(* SalesOrder::apply and the projection make the same of an event. *)
LEMMA SalesFold ==
    ASSUME NEW order \in Order, NEW event \in SalesEvent, NEW row,
           \/ event.type = "SalesOrderCreated"
           \/ order.created /\ row = [status |-> order.status, lines |-> order.lines]
    PROVE  /\ ApplySales(order, event) \in Order /\ ApplySales(order, event).created
           /\ [status |-> ApplySales(order, event).status, lines |-> ApplySales(order, event).lines]
                  = SalesRowAfter(row, event)
  <1>1. <<>> \in Seq(SalesLine)
    OBVIOUS
  <1>2. PICK st \in {"Draft", "Confirmed", "Invoiced"}, ls \in Seq(SalesLine) :
            order.status = st /\ order.lines = ls
    BY DEF Order
  <1>3. st \in {"Draft", "Confirmed", "Invoiced"}
    OBVIOUS
  <1>4. CASE event.type = "SalesOrderCreated"
    <2>1. ApplySales(order, event) = [created |-> TRUE, status |-> "Draft", lines |-> <<>>]
      BY <1>4 DEF ApplySales, Order
    <2>2. SalesRowAfter(row, event) = [status |-> "Draft", lines |-> <<>>]
      BY <1>4 DEF SalesRowAfter
    <2> QED
      BY <1>1, <2>1, <2>2 DEF Order
  <1>5. ASSUME event.type # "SalesOrderCreated"
        PROVE  /\ order = [created |-> TRUE, status |-> st, lines |-> ls]
               /\ row = [status |-> st, lines |-> ls] /\ row # NoSalesRow
    <2>1. order.created /\ row = [status |-> order.status, lines |-> order.lines]
      BY <1>5
    <2>2. order = [created |-> TRUE, status |-> st, lines |-> ls]
      BY <1>2, <2>1 DEF Order
    <2>3. row = [status |-> st, lines |-> ls]
      BY <1>2, <2>1
    <2>4. row.status = st /\ NoSalesRow.status = "NoRow"
      BY <2>3 DEF NoSalesRow
    <2> QED
      BY <1>3, <2>2, <2>3, <2>4
  <1>6. CASE event.type = "LineAdded"
    <2>1. event.line \in SalesLine
      BY <1>6, SalesEventFields
    <2>2. PICK l : l = Append(ls, event.line)
      OBVIOUS
    <2>3. l \in Seq(SalesLine)
      BY <2>1, <2>2, AppendLists
    <2>4. ApplySales(order, event) = [created |-> TRUE, status |-> st, lines |-> l]
      BY <1>2, <1>5, <1>6, <2>2 DEF ApplySales, Order
    <2>5. SalesRowAfter(row, event) = [status |-> st, lines |-> l]
      <3>1. row # NoSalesRow /\ row = [status |-> st, lines |-> ls]
        BY <1>5, <1>6
      <3>2. SalesRowAfter(row, event) = [row EXCEPT !.lines = Append(row.lines, event.line)]
        BY <1>6, <3>1 DEF SalesRowAfter
      <3>3. Append(row.lines, event.line) = l
        BY <2>2, <3>1
      <3> QED
        BY <3>1, <3>2, <3>3
    <2> QED
      BY <1>3, <2>3, <2>4, <2>5 DEF Order
  <1>7. CASE event.type = "OrderConfirmed"
    <2>1. ApplySales(order, event) = [created |-> TRUE, status |-> "Confirmed", lines |-> ls]
      BY <1>2, <1>5, <1>7 DEF ApplySales, Order
    <2>2. SalesRowAfter(row, event) = [status |-> "Confirmed", lines |-> ls]
      BY <1>5, <1>7 DEF SalesRowAfter
    <2> QED
      BY <2>1, <2>2 DEF Order
  <1>8. CASE event.type = "OrderInvoiced"
    <2>1. ApplySales(order, event) = [created |-> TRUE, status |-> "Invoiced", lines |-> ls]
      BY <1>2, <1>5, <1>8 DEF ApplySales, Order
    <2>2. SalesRowAfter(row, event) = [status |-> "Invoiced", lines |-> ls]
      BY <1>5, <1>8 DEF SalesRowAfter
    <2> QED
      BY <2>1, <2>2 DEF Order
  <1> QED
    BY <1>4, <1>6, <1>7, <1>8, SalesEventFields

(* PurchaseOrder::apply and the projection make the same of an event. *)
LEMMA PurchaseFold ==
    ASSUME NEW order \in Purchase, NEW event \in PurchaseEvent, NEW row,
           \/ event.type = "PurchaseOrderCreated"
           \/ order.created /\ row = [status |-> order.status, lines |-> order.lines]
    PROVE  /\ ApplyPurchase(order, event) \in Purchase /\ ApplyPurchase(order, event).created
           /\ [status |-> ApplyPurchase(order, event).status,
               lines |-> ApplyPurchase(order, event).lines] = PurchaseRowAfter(row, event)
           /\ ApplyPurchase(order, event).lines =
                  CASE event.type = "PurchaseOrderCreated" -> <<>>
                    [] event.type = "PurchaseOrderLineAdded" -> Append(order.lines, event.line)
                    [] event.type = "PurchaseOrderApproved" -> order.lines
                    [] event.type = "GoodsReceived" -> event.lines
  <1>1. <<>> \in Seq(PurchaseLine)
    OBVIOUS
  <1>2. PICK st \in {"Draft", "Approved", "Received"}, ls \in Seq(PurchaseLine) :
            order.status = st /\ order.lines = ls
    BY DEF Purchase
  <1>3. st \in {"Draft", "Approved", "Received"}
    OBVIOUS
  <1>4. CASE event.type = "PurchaseOrderCreated"
    <2>1. ApplyPurchase(order, event) = [created |-> TRUE, status |-> "Draft", lines |-> <<>>]
      BY <1>4 DEF ApplyPurchase, Purchase
    <2>2. PurchaseRowAfter(row, event) = [status |-> "Draft", lines |-> <<>>]
      BY <1>4 DEF PurchaseRowAfter
    <2> QED
      BY <1>1, <1>4, <2>1, <2>2 DEF Purchase
  <1>5. ASSUME event.type # "PurchaseOrderCreated"
        PROVE  /\ order = [created |-> TRUE, status |-> st, lines |-> ls]
               /\ row = [status |-> st, lines |-> ls] /\ row # NoPurchaseRow
    <2>1. order.created /\ row = [status |-> order.status, lines |-> order.lines]
      BY <1>5
    <2>2. order = [created |-> TRUE, status |-> st, lines |-> ls]
      BY <1>2, <2>1 DEF Purchase
    <2>3. row = [status |-> st, lines |-> ls]
      BY <1>2, <2>1
    <2>4. row.status = st /\ NoPurchaseRow.status = "NoRow"
      BY <2>3 DEF NoPurchaseRow
    <2> QED
      BY <1>3, <2>2, <2>3, <2>4
  <1>6. CASE event.type = "PurchaseOrderLineAdded"
    <2>1. event.line \in PurchaseLine
      BY <1>6, PurchaseEventFields
    <2>2. PICK l : l = Append(ls, event.line)
      OBVIOUS
    <2>3. l \in Seq(PurchaseLine)
      BY <2>1, <2>2, AppendLists
    <2>4. ApplyPurchase(order, event) = [created |-> TRUE, status |-> st, lines |-> l]
      BY <1>2, <1>5, <1>6, <2>2 DEF ApplyPurchase, Purchase
    <2>5. PurchaseRowAfter(row, event) = [status |-> st, lines |-> l]
      <3>1. row # NoPurchaseRow /\ row = [status |-> st, lines |-> ls]
        BY <1>5, <1>6
      <3>2. PurchaseRowAfter(row, event) = [row EXCEPT !.lines = Append(row.lines, event.line)]
        BY <1>6, <3>1 DEF PurchaseRowAfter
      <3>3. Append(row.lines, event.line) = l
        BY <2>2, <3>1
      <3> QED
        BY <3>1, <3>2, <3>3
    <2>6. l = Append(order.lines, event.line)
      BY <1>2, <2>2
    <2> QED
      BY <1>3, <1>6, <2>3, <2>4, <2>5, <2>6 DEF Purchase
  <1>7. CASE event.type = "PurchaseOrderApproved"
    <2>1. ApplyPurchase(order, event) = [created |-> TRUE, status |-> "Approved", lines |-> ls]
      BY <1>2, <1>5, <1>7 DEF ApplyPurchase, Purchase
    <2>2. PurchaseRowAfter(row, event) = [status |-> "Approved", lines |-> ls]
      BY <1>5, <1>7 DEF PurchaseRowAfter
    <2> QED
      BY <1>2, <1>7, <2>1, <2>2 DEF Purchase
  <1>8. CASE event.type = "GoodsReceived"
    <2>0. PICK l \in Seq(PurchaseLine) : l = event.lines
      BY <1>8, PurchaseEventFields
    <2>1. ApplyPurchase(order, event) = [created |-> TRUE, status |-> "Received", lines |-> l]
      BY <1>2, <1>5, <1>8, <2>0 DEF ApplyPurchase, Purchase
    <2>2. PurchaseRowAfter(row, event) = [status |-> "Received", lines |-> l]
      BY <1>8, <2>0 DEF PurchaseRowAfter
    <2> QED
      BY <1>8, <2>0, <2>1, <2>2 DEF Purchase
  <1> QED
    BY <1>4, <1>6, <1>7, <1>8, PurchaseEventFields

(* Invoice::apply and the projection make the same of an event. *)
LEMMA InvoiceFold ==
    ASSUME NEW bill \in Bill, NEW event \in InvoiceEvent, NEW row,
           \/ event.type = "InvoiceIssued"
           \/ bill.created /\ row = [status |-> bill.status, total |-> bill.total, paid |-> bill.paid]
    PROVE  /\ ApplyInvoice(bill, event) \in Bill /\ ApplyInvoice(bill, event).created
           /\ [status |-> ApplyInvoice(bill, event).status, total |-> ApplyInvoice(bill, event).total,
               paid |-> ApplyInvoice(bill, event).paid] = InvoiceRowAfter(row, event)
  <1>0. 0 \in Amount
    BY InvoiceAssumption DEF Amount
  <1>1. PICK st \in {"Open", "Paid", "Void"}, total \in Amount, paid \in Amount,
             ord \in Orders \cup {NoOrder} :
            /\ bill.status = st /\ bill.total = total /\ bill.paid = paid /\ bill.order = ord
    BY DEF Bill
  <1>2. st \in {"Open", "Paid", "Void"}
    OBVIOUS
  <1>3. CASE event.type = "InvoiceIssued"
    <2>1. PICK sum \in Amount, o \in Orders : event.total = sum /\ event.sales_order_id = o
      BY <1>3 DEF InvoiceEvent
    <2>2. ApplyInvoice(bill, event)
              = [created |-> TRUE, order |-> o, status |-> "Open", total |-> sum, paid |-> 0]
      BY <1>3, <2>1 DEF ApplyInvoice
    <2>3. InvoiceRowAfter(row, event) = [status |-> "Open", total |-> sum, paid |-> 0]
      BY <1>3, <2>1 DEF InvoiceRowAfter
    <2> QED
      BY <1>0, <2>2, <2>3 DEF Bill
  <1>4. ASSUME event.type # "InvoiceIssued"
        PROVE  /\ bill.created = TRUE /\ row = [status |-> st, total |-> total, paid |-> paid]
               /\ row # NoInvoiceRow
               /\ bill = [created |-> TRUE, order |-> ord, status |-> st, total |-> total,
                          paid |-> paid]
    <2>1. /\ bill.created
          /\ row = [status |-> bill.status, total |-> bill.total, paid |-> bill.paid]
      BY <1>4
    <2>2. bill = [created |-> TRUE, order |-> ord, status |-> st, total |-> total, paid |-> paid]
      BY <1>1, <2>1 DEF Bill
    <2>3. row = [status |-> st, total |-> total, paid |-> paid]
      BY <1>1, <2>1
    <2>4. row.status = st /\ NoInvoiceRow.status = "NoRow"
      BY <2>3 DEF NoInvoiceRow
    <2>5. bill.created = TRUE
      BY <2>2
    <2> QED
      BY <1>2, <2>2, <2>3, <2>4, <2>5
  <1>5. CASE event.type = "PaymentRegistered"
    <2>1. PICK sum \in Amount : sum = event.new_total_paid
      BY <1>5, InvoiceEventFields
    <2>2. PICK status : status = IF sum >= total THEN "Paid" ELSE st
      OBVIOUS
    <2>3. ApplyInvoice(bill, event)
              = [created |-> TRUE, order |-> ord, status |-> status, total |-> total, paid |-> sum]
      <3>1. ApplyInvoice(bill, event) =
                [bill EXCEPT !.paid = sum, !.status = IF sum >= bill.total THEN "Paid" ELSE @]
        BY <1>5, <2>1 DEF ApplyInvoice
      <3>2. bill = [created |-> TRUE, order |-> ord, status |-> st, total |-> total,
                    paid |-> paid]
        BY <1>4, <1>5
      <3> QED
        BY <2>2, <3>1, <3>2
    <2>4. InvoiceRowAfter(row, event) = [status |-> status, total |-> total, paid |-> sum]
      <3>1. row # NoInvoiceRow /\ row = [status |-> st, total |-> total, paid |-> paid]
        BY <1>4, <1>5
      <3>2. InvoiceRowAfter(row, event) =
                [row EXCEPT !.paid = sum, !.status = IF sum >= row.total THEN "Paid" ELSE @]
        BY <1>5, <2>1, <3>1 DEF InvoiceRowAfter
      <3>3. (IF sum >= row.total THEN "Paid" ELSE row.status) = status
        BY <2>2, <3>1
      <3>4. InvoiceRowAfter(row, event) = [row EXCEPT !.paid = sum, !.status = status]
        BY <3>2, <3>3
      <3>5. row \in InvoiceRow
        BY <1>2, <3>1 DEF InvoiceRow
      <3>6. row.total = total
        BY <3>1
      <3> QED
        BY <3>4, <3>5, <3>6 DEF InvoiceRow
    <2>5. status \in {"Open", "Paid", "Void"}
      BY <1>2, <2>2
    <2> QED
      BY <2>3, <2>4, <2>5 DEF Bill
  <1>6. CASE event.type = "InvoiceVoided"
    <2>1. ApplyInvoice(bill, event)
              = [created |-> TRUE, order |-> ord, status |-> "Void", total |-> total, paid |-> paid]
      <3>1. bill = [created |-> TRUE, order |-> ord, status |-> st, total |-> total,
                    paid |-> paid]
        BY <1>4, <1>6
      <3>2. ApplyInvoice(bill, event) = [bill EXCEPT !.status = "Void"]
        BY <1>6 DEF ApplyInvoice
      <3> QED
        BY <3>1, <3>2
    <2>2. InvoiceRowAfter(row, event) = [status |-> "Void", total |-> total, paid |-> paid]
      BY <1>4, <1>6 DEF InvoiceRowAfter
    <2> QED
      BY <2>1, <2>2 DEF Bill
  <1> QED
    BY <1>3, <1>5, <1>6, InvoiceEventFields


(* The commands of sales orders. *)
LEMMA DispatchSalesKeeps ==
    ASSUME FlowInv, NEW o \in Orders, NEW event \in SalesEvent, DispatchSales(o, event),
           event.type = "SalesOrderCreated" <=> ~orders[o].created
    PROVE  FlowInv'
  <1>1. /\ orders \in [Orders -> Order] /\ invoices \in [Invoices -> Bill]
        /\ purchases \in [Purchases -> Purchase] /\ creating \in [Purchases -> Route]
        /\ version \in [Streams -> Nat] /\ CreatedByEvents
    BY DEF FlowInv, FlowsTyped
  <1>2. PICK new : new = ApplySales(orders[o], event)
    OBVIOUS
  <1>3. /\ AppendEvent(o, event) /\ UNCHANGED <<channels, readModels>>
        /\ orders' = [orders EXCEPT ![o] = new]
        /\ invoices' = invoices /\ purchases' = purchases /\ creating' = creating
    BY <1>2 DEF DispatchSales
  <1>4. o \in Streams /\ event \in EventsOf(o) /\ o \in Documents /\ o \notin Invoices
    BY OneKind DEF EventsOf
  <1>5. orders[o].created => Shown(o) = [status |-> orders[o].status, lines |-> orders[o].lines]
    BY <1>1, <1>4 DEF Shown, Decided, CreatedByEvents
  <1>6. /\ new \in Order /\ new.created
        /\ [status |-> new.status, lines |-> new.lines] = SalesRowAfter(Shown(o), event)
    <2>1. orders[o] \in Order
      BY <1>1
    <2>2. \/ event.type = "SalesOrderCreated"
          \/ /\ orders[o].created
             /\ Shown(o) = [status |-> orders[o].status, lines |-> orders[o].lines]
      BY <1>5
    <2> QED
      BY <1>2, <2>1, <2>2, SalesFold
  <1>7. orders' \in [Orders -> Order] /\ orders'[o] = new
        /\ \A p \in Orders \ {o} : orders'[p] = orders[p]
    BY <1>1, <1>3, <1>6
  <1>8. \A t \in Documents \ {o} : Decided(t)' = Decided(t)
    BY <1>3, <1>7 DEF Decided, Documents
  <1>9. Decided(o)' = RowAfter(o, Shown(o), event)
    BY <1>6, <1>7 DEF Decided, RowAfter
  <1>10. /\ FlowsTyped' /\ NumbersGivenOut' /\ CursorsTogether'
         /\ Followed' /\ LateHasNoTotal' /\ InvoiceModelsAgree'
         /\ version[o] \in Nat /\ version'[o] = version[o] + 1
         /\ \A t \in Streams \ {o} : version'[t] = version[t]
    <2>1. /\ invoices' \in [Invoices -> Bill] /\ purchases' \in [Purchases -> Purchase]
          /\ creating' \in [Purchases -> Route]
      BY <1>1, <1>3
    <2> QED
      BY <1>3, <1>4, <1>7, <1>8, <1>9, <2>1, AppendKeeps
  <1>11. CreatedByEvents'
    <2>1. ASSUME NEW p \in Orders PROVE orders'[p].created <=> version'[p] > 0
      <3>1. CASE p = o
        BY <1>6, <1>7, <1>10, <3>1
      <3>2. CASE p # o
        BY <1>1, <1>7, <1>10, <3>2, OneKind DEF CreatedByEvents
      <3> QED
        BY <3>1, <3>2
    <2>2. \A t \in Invoices \cup Purchases : version'[t] = version[t]
      BY <1>10, OneKind DEF Documents
    <2> QED
      BY <1>1, <1>3, <2>1, <2>2 DEF CreatedByEvents
  <1>12. PaymentsBounded'
    BY <1>3 DEF FlowInv, PaymentsBounded
  <1>13. RoutesAdd'
    BY <1>3 DEF FlowInv, RoutesAdd, RouteAdds
  <1> QED
    BY <1>10, <1>11, <1>12, <1>13 DEF FlowInv

(* The routes of sales orders. *)
LEMMA SalesRoutesKeep ==
    ASSUME FlowInv, NEW o \in Orders,
           \/ CreateSalesOrder(o)
           \/ \E line \in SalesLines : AddSalesOrderLine(o, line)
           \/ ConfirmSalesOrder(o)
           \/ MarkSalesOrderInvoiced(o)
    PROVE  FlowInv'
  <1>1. CASE CreateSalesOrder(o)
    <2>1. PICK event : event = [type |-> "SalesOrderCreated", order_id |-> o]
      OBVIOUS
    <2>2. event \in SalesEvent /\ event.type = "SalesOrderCreated"
      BY <2>1 DEF SalesEvent
    <2>3. DispatchSales(o, event) /\ ~orders[o].created
      BY <1>1, <2>1 DEF CreateSalesOrder, CanCreateSales
    <2> QED
      BY <2>2, <2>3, DispatchSalesKeeps
  <1>2. ASSUME NEW line \in SalesLines, AddSalesOrderLine(o, line) PROVE FlowInv'
    <2>1. orders[o] \in Order
      BY DEF FlowInv, FlowsTyped
    <2>2. PICK n \in Nat : n = Len(orders[o].lines)
      BY <2>1 DEF Order
    <2>3. PICK l : l = [no |-> n + 1, quantity |-> line.quantity, price |-> line.price]
      OBVIOUS
    <2>4. l \in SalesLine
      BY <2>3, OrderFlowsAssumption DEF SalesLine, Amount
    <2>5. PICK event : event = [type |-> "LineAdded", order_id |-> o, line |-> l]
      OBVIOUS
    <2>6. event \in SalesEvent /\ event.type = "LineAdded"
      BY <2>4, <2>5 DEF SalesEvent
    <2>7. DispatchSales(o, event) /\ orders[o].created
      BY <1>2, <2>2, <2>3, <2>5 DEF AddSalesOrderLine, CanAddSalesLine, NextSalesLine
    <2> QED
      BY <2>6, <2>7, DispatchSalesKeeps
  <1>3. CASE ConfirmSalesOrder(o)
    <2>1. PICK event : event = [type |-> "OrderConfirmed", order_id |-> o]
      OBVIOUS
    <2>2. event \in SalesEvent /\ event.type = "OrderConfirmed"
      BY <2>1 DEF SalesEvent
    <2>3. DispatchSales(o, event) /\ orders[o].created
      BY <1>3, <2>1 DEF ConfirmSalesOrder, CanConfirm
    <2> QED
      BY <2>2, <2>3, DispatchSalesKeeps
  <1>4. CASE MarkSalesOrderInvoiced(o)
    <2>1. PICK event : event = [type |-> "OrderInvoiced", order_id |-> o]
      OBVIOUS
    <2>2. event \in SalesEvent /\ event.type = "OrderInvoiced"
      BY <2>1 DEF SalesEvent
    <2>3. DispatchSales(o, event) /\ orders[o].created
      BY <1>4, <2>1 DEF MarkSalesOrderInvoiced, CanMarkInvoiced
    <2> QED
      BY <2>2, <2>3, DispatchSalesKeeps
  <1> QED
    BY <1>1, <1>2, <1>3, <1>4


(* What a payment within the bounds leaves behind. *)
Sound(bill) ==
    /\ bill.paid <= bill.total
    /\ bill.status = "Paid" => bill.paid = bill.total /\ bill.paid > 0
    /\ bill.status = "Open" /\ bill.paid > 0 => CanAcceptPayment(bill)

(* The commands of invoices. *)
LEMMA DispatchInvoiceKeeps ==
    ASSUME FlowInv, NEW i \in Invoices, NEW event \in InvoiceEvent, DispatchInvoice(i, event),
           UNCHANGED <<orders, purchases, channels, readModels, creating>>,
           event.type = "InvoiceIssued" <=> ~invoices[i].created,
           event.type = "PaymentRegistered" =>
               event.new_total_paid = invoices[i].paid + event.amount,
           Sound(ApplyInvoice(invoices[i], event))
    PROVE  FlowInv'
  <1>1. /\ orders \in [Orders -> Order] /\ invoices \in [Invoices -> Bill]
        /\ purchases \in [Purchases -> Purchase] /\ creating \in [Purchases -> Route]
        /\ version \in [Streams -> Nat] /\ CreatedByEvents
    BY DEF FlowInv, FlowsTyped
  <1>2. PICK new : new = ApplyInvoice(invoices[i], event)
    OBVIOUS
  <1>3. /\ AppendEvent(i, event) /\ UNCHANGED <<channels, readModels>>
        /\ invoices' = [invoices EXCEPT ![i] = new]
        /\ orders' = orders /\ purchases' = purchases /\ creating' = creating
    BY <1>2 DEF DispatchInvoice
  <1>4. i \in Streams /\ event \in EventsOf(i) /\ i \in Documents /\ i \notin Orders
    BY OneKind DEF EventsOf
  <1>5. /\ invoices[i].created <=> version[i] > 0
        /\ invoices[i].created => Shown(i) = [status |-> invoices[i].status,
                                              total |-> invoices[i].total,
                                              paid |-> invoices[i].paid]
    BY <1>1, <1>4 DEF Shown, Decided, CreatedByEvents
  <1>6. /\ new \in Bill /\ new.created
        /\ [status |-> new.status, total |-> new.total, paid |-> new.paid]
               = InvoiceRowAfter(Shown(i), event)
    <2>1. invoices[i] \in Bill
      BY <1>1
    <2>2. \/ event.type = "InvoiceIssued"
          \/ /\ invoices[i].created
             /\ Shown(i) = [status |-> invoices[i].status, total |-> invoices[i].total,
                            paid |-> invoices[i].paid]
      BY <1>5
    <2> QED
      BY <1>2, <2>1, <2>2, InvoiceFold
  <1>7. invoices' \in [Invoices -> Bill] /\ invoices'[i] = new
        /\ \A p \in Invoices \ {i} : invoices'[p] = invoices[p]
    BY <1>1, <1>3, <1>6
  <1>8. \A t \in Documents \ {i} : Decided(t)' = Decided(t)
    BY <1>3, <1>7 DEF Decided, Documents
  <1>9. Decided(i)' = RowAfter(i, Shown(i), event)
    BY <1>4, <1>6, <1>7 DEF Decided, RowAfter
  <1>10. AddsUp(Shown(i), event) /\ (event.type = "InvoiceIssued" <=> version[i] = 0)
    <2>1. event.type = "PaymentRegistered" => Shown(i).paid = invoices[i].paid
      <3>1. event.type = "PaymentRegistered" => event.type # "InvoiceIssued"
        OBVIOUS
      <3> QED
        BY <1>5, <3>1
    <2>2. version[i] \in Nat
      BY <1>1, <1>4
    <2> QED
      BY <1>5, <2>1, <2>2 DEF AddsUp
  <1>11. /\ FlowsTyped' /\ NumbersGivenOut' /\ CursorsTogether'
         /\ Followed' /\ LateHasNoTotal' /\ InvoiceModelsAgree'
         /\ version[i] \in Nat /\ version'[i] = version[i] + 1
         /\ \A t \in Streams \ {i} : version'[t] = version[t]
    <2>1. /\ orders' \in [Orders -> Order] /\ purchases' \in [Purchases -> Purchase]
          /\ creating' \in [Purchases -> Route]
      BY <1>1, <1>3
    <2> QED
      BY <1>3, <1>4, <1>7, <1>8, <1>9, <1>10, <2>1, AppendKeeps
  <1>12. CreatedByEvents'
    <2>1. ASSUME NEW p \in Invoices PROVE invoices'[p].created <=> version'[p] > 0
      <3>1. CASE p = i
        BY <1>6, <1>7, <1>11, <3>1
      <3>2. CASE p # i
        BY <1>1, <1>7, <1>11, <3>2, OneKind DEF CreatedByEvents
      <3> QED
        BY <3>1, <3>2
    <2>2. \A t \in Orders \cup Purchases : version'[t] = version[t]
      BY <1>11, OneKind DEF Documents
    <2> QED
      BY <1>1, <1>3, <2>1, <2>2 DEF CreatedByEvents
  <1>13. PaymentsBounded'
    <2>1. Sound(new)
      BY <1>2
    <2>2. \A p \in Invoices \ {i} : invoices[p].created => Sound(invoices[p])
      BY DEF FlowInv, PaymentsBounded, Sound
    <2>3. \A p \in Invoices : invoices'[p].created => Sound(invoices'[p])
      BY <1>7, <2>1, <2>2
    <2> QED
      BY <2>3 DEF PaymentsBounded, Sound
  <1>14. RoutesAdd'
    BY <1>3 DEF FlowInv, RoutesAdd, RouteAdds
  <1> QED
    BY <1>11, <1>12, <1>13, <1>14 DEF FlowInv


(* The routes of invoices. *)
LEMMA InvoiceRoutesKeep ==
    ASSUME FlowInv, NEW i \in Invoices,
           \/ \E o \in Orders : \E lines \in InvoiceLines : IssueInvoice(i, o, lines)
           \/ \E amount \in Amounts : RegisterInvoicePayment(i, amount)
           \/ VoidInvoice(i)
    PROVE  FlowInv'
  <1>0. MaxU64 \in Nat /\ 0 \in Amount /\ Amount \subseteq Nat /\ Amounts \subseteq Amount
    BY InvoiceAssumption, OrderFlowsAssumption DEF Amount
  <1>1. invoices[i] \in Bill /\ (invoices[i].created => Sound(invoices[i]))
    BY DEF FlowInv, FlowsTyped, PaymentsBounded, Sound
  <1>2. ASSUME NEW o \in Orders, NEW lines \in InvoiceLines, IssueInvoice(i, o, lines)
        PROVE  FlowInv'
    <2>1. PICK total \in Amount : total = Total(lines)
      BY <1>2 DEF IssueInvoice, CanIssue, Amount
    <2>2. PICK event : event = [type |-> "InvoiceIssued", sales_order_id |-> o, total |-> total]
      OBVIOUS
    <2>3. event \in InvoiceEvent /\ event.type = "InvoiceIssued"
      BY <2>1, <2>2 DEF InvoiceEvent
    <2>4. /\ DispatchInvoice(i, event) /\ ~invoices[i].created
          /\ UNCHANGED <<orders, purchases, channels, readModels, creating>>
      BY <1>2, <2>1, <2>2 DEF IssueInvoice, CanIssue
    <2>5. ApplyInvoice(invoices[i], event) =
              [created |-> TRUE, order |-> o, status |-> "Open", total |-> total, paid |-> 0]
      BY <2>2 DEF ApplyInvoice
    <2>6. Sound(ApplyInvoice(invoices[i], event))
      <3>1. total \in Nat
        BY <1>0
      <3> QED
        BY <2>5, <3>1 DEF Sound
    <2> QED
      BY <2>3, <2>4, <2>6, DispatchInvoiceKeeps
  <1>3. ASSUME NEW amount \in Amounts, RegisterInvoicePayment(i, amount)
        PROVE  FlowInv'
    <2>1. PICK total \in Amount, paid \in Amount, st \in {"Open", "Paid", "Void"} :
              invoices[i].total = total /\ invoices[i].paid = paid /\ invoices[i].status = st
      BY <1>1 DEF Bill
    <2>2. PICK sum : sum = paid + amount
      OBVIOUS
    <2>3. /\ invoices[i].created /\ st # "Void" /\ Outstanding(invoices[i]) > 0
          /\ amount > 0 /\ sum <= total
      BY <1>3, <2>1, <2>2 DEF RegisterInvoicePayment, CanPay, CanAcceptPayment
    <2>4. amount \in Nat /\ total \in Nat /\ paid \in Nat /\ sum \in Nat /\ total <= MaxU64
      BY <1>0, <2>2 DEF Amount
    <2>5. total > paid
      BY <2>1, <2>3, <2>4 DEF Outstanding
    <2>6. sum \in Amount /\ amount \in Amount
      BY <1>0, <2>3, <2>4 DEF Amount
    <2>7. st = "Open"
      BY <1>1, <2>1, <2>3, <2>4, <2>5 DEF Sound
    <2>8. PICK event : event = [type |-> "PaymentRegistered", amount |-> amount,
                                new_total_paid |-> sum]
      OBVIOUS
    <2>9. event \in InvoiceEvent /\ event.type = "PaymentRegistered"
          /\ event.amount = amount /\ event.new_total_paid = sum
      BY <2>6, <2>8 DEF InvoiceEvent
    <2>10. /\ DispatchInvoice(i, event)
           /\ UNCHANGED <<orders, purchases, channels, readModels, creating>>
      BY <1>3, <2>1, <2>2, <2>8 DEF RegisterInvoicePayment
    <2>11. PICK status : status = IF sum >= total THEN "Paid" ELSE "Open"
      OBVIOUS
    <2>12. PICK new : new = ApplyInvoice(invoices[i], event)
      OBVIOUS
    <2>13. new = [invoices[i] EXCEPT !.paid = sum, !.status = status]
      <3>1. new = [invoices[i] EXCEPT !.paid = sum,
                                      !.status = IF sum >= invoices[i].total THEN "Paid" ELSE @]
        BY <2>9, <2>12 DEF ApplyInvoice
      <3>2. (IF sum >= invoices[i].total THEN "Paid" ELSE invoices[i].status) = status
        BY <2>1, <2>7, <2>11
      <3> QED
        BY <3>1, <3>2
    <2>14. new.paid = sum /\ new.total = total /\ new.status = status
      BY <1>1, <2>1, <2>13 DEF Bill
    <2>15. Sound(new)
      BY <2>3, <2>4, <2>5, <2>11, <2>14 DEF Sound, CanAcceptPayment, Outstanding
    <2> QED
      BY <2>1, <2>2, <2>3, <2>9, <2>10, <2>12, <2>15, DispatchInvoiceKeeps
  <1>4. CASE VoidInvoice(i)
    <2>1. PICK event : event = [type |-> "InvoiceVoided"]
      OBVIOUS
    <2>2. event \in InvoiceEvent /\ event.type = "InvoiceVoided"
      BY <2>1 DEF InvoiceEvent
    <2>3. /\ DispatchInvoice(i, event) /\ invoices[i].created
          /\ UNCHANGED <<orders, purchases, channels, readModels, creating>>
      BY <1>4, <2>1 DEF VoidInvoice, CanVoid
    <2>4. ApplyInvoice(invoices[i], event) = [invoices[i] EXCEPT !.status = "Void"]
      BY <2>2 DEF ApplyInvoice
    <2>5. Sound(ApplyInvoice(invoices[i], event))
      BY <1>1, <2>3, <2>4 DEF Sound, Bill
    <2> QED
      BY <2>2, <2>3, <2>5, DispatchInvoiceKeeps
  <1> QED
    BY <1>2, <1>3, <1>4

(* post_journal_entry *)
LEMMA PostJournalEntryKeeps ==
    ASSUME FlowInv, NEW lines \in Entries, PostJournalEntry(lines)
    PROVE  FlowInv'
  <1>1. /\ orders \in [Orders -> Order] /\ invoices \in [Invoices -> Bill]
        /\ purchases \in [Purchases -> Purchase] /\ creating \in [Purchases -> Route]
        /\ version \in [Streams -> Nat] /\ CreatedByEvents
    BY DEF FlowInv, FlowsTyped
  <1>2. PICK event : event = [type |-> "JournalEntryPosted", lines |-> lines]
    OBVIOUS
  <1>3. event \in LedgerEvent
    BY <1>2 DEF LedgerEvent
  <1>4. /\ AppendEvent(LedgerId, event) /\ UNCHANGED <<channels, readModels>>
        /\ orders' = orders /\ invoices' = invoices /\ purchases' = purchases
        /\ creating' = creating
    BY <1>2 DEF PostJournalEntry
  <1>5. LedgerId \in Streams /\ LedgerId \notin Documents /\ event \in EventsOf(LedgerId)
        /\ LedgerId \notin Invoices
    BY <1>3, OneKind DEF EventsOf
  <1>6. \A t \in Documents : Decided(t)' = Decided(t)
    BY <1>4 DEF Decided
  <1>7. /\ FlowsTyped' /\ NumbersGivenOut' /\ CursorsTogether'
        /\ Followed' /\ LateHasNoTotal' /\ InvoiceModelsAgree'
        /\ \A t \in Streams \ {LedgerId} : version'[t] = version[t]
    <2>1. /\ orders' \in [Orders -> Order] /\ invoices' \in [Invoices -> Bill]
          /\ purchases' \in [Purchases -> Purchase] /\ creating' \in [Purchases -> Route]
      BY <1>1, <1>4
    <2> QED
      BY <1>4, <1>5, <1>6, <2>1, AppendKeeps
  <1>8. \A t \in Documents : version'[t] = version[t]
    BY <1>7, OneKind
  <1>9. CreatedByEvents'
    BY <1>1, <1>4, <1>8 DEF CreatedByEvents, Documents
  <1>10. PaymentsBounded' /\ RoutesAdd'
    BY <1>4 DEF FlowInv, PaymentsBounded, RoutesAdd, RouteAdds
  <1> QED
    BY <1>7, <1>9, <1>10 DEF FlowInv


-----------------------------------------------------------------------------
(* Purchase orders and the route that creates them. *)

(* Before the first line nothing is asked of the order. *)
LEMMA NoLinesYet ==
    ASSUME NEW lines, NEW body
    PROVE  HasLines(lines, body, 0)
  <1>1. PICK f : f = [a \in 1 .. 0 |-> 1]
    OBVIOUS
  <1>2. f \in [1 .. 0 -> 1 .. Len(lines)]
    BY <1>1
  <1>3. \A a \in 1 .. 0 : FALSE
    OBVIOUS
  <1> QED
    BY <1>2, <1>3, Zenon DEF HasLines

(* A line appended by anyone leaves the request's lines where they are; if *)
(* it is the request's next one, there is one more of them.                *)
LEMMA AppendedLine ==
    ASSUME NEW lines \in Seq(PurchaseLine), NEW line \in PurchaseLine, NEW body, NEW n \in Nat,
           HasLines(lines, body, n)
    PROVE  /\ HasLines(Append(lines, line), body, n)
           /\ line.quantity = body[n + 1] => HasLines(Append(lines, line), body, n + 1)
  <1>1. PICK f \in [1 .. n -> 1 .. Len(lines)] :
            /\ \A a, b \in 1 .. n : a < b => f[a] < f[b]
            /\ \A a \in 1 .. n : lines[f[a]].quantity = body[a]
    BY DEF HasLines
  <1>2. PICK len \in Nat : len = Len(lines)
    OBVIOUS
  <1>3. PICK more : more = Append(lines, line)
    OBVIOUS
  <1>4. /\ Len(more) = len + 1 /\ more[len + 1] = line
        /\ \A k \in 1 .. len : more[k] = lines[k]
    BY <1>2, <1>3
  <1>5. \A a \in 1 .. n : f[a] \in 1 .. len
    BY <1>1, <1>2
  <1>6. HasLines(more, body, n)
    <2>1. f \in [1 .. n -> 1 .. Len(more)]
      BY <1>1, <1>2, <1>4
    <2>2. \A a \in 1 .. n : more[f[a]].quantity = body[a]
      BY <1>1, <1>4, <1>5
    <2> QED
      BY <1>1, <2>1, <2>2 DEF HasLines
  <1>7. ASSUME line.quantity = body[n + 1] PROVE HasLines(more, body, n + 1)
    <2>1. PICK g : g = [a \in 1 .. n + 1 |-> IF a <= n THEN f[a] ELSE len + 1]
      OBVIOUS
    <2>2. g[n + 1] = len + 1 /\ \A a \in 1 .. n : g[a] = f[a]
      BY <2>1
    <2>3. g \in [1 .. n + 1 -> 1 .. Len(more)]
      <3>1. \A a \in 1 .. n + 1 : (IF a <= n THEN f[a] ELSE len + 1) \in 1 .. len + 1
        BY <1>5
      <3> QED
        BY <1>4, <2>1, <3>1
    <2>4. ASSUME NEW a \in 1 .. n + 1, NEW b \in 1 .. n + 1, a < b PROVE g[a] < g[b]
      <3>1. a \in 1 .. n
        BY <2>4
      <3>2. CASE b \in 1 .. n
        BY <1>1, <2>2, <2>4, <3>1, <3>2
      <3>3. CASE b = n + 1
        BY <1>5, <2>2, <3>1, <3>3
      <3> QED
        BY <3>2, <3>3
    <2>5. ASSUME NEW a \in 1 .. n + 1 PROVE more[g[a]].quantity = body[a]
      <3>1. CASE a \in 1 .. n
        BY <1>1, <1>4, <1>5, <2>2, <3>1
      <3>2. CASE a = n + 1
        BY <1>4, <1>7, <2>2, <3>2
      <3> QED
        BY <3>1, <3>2
    <2>6. n + 1 \in Nat
      OBVIOUS
    <2> QED
      BY <2>3, <2>4, <2>5 DEF HasLines
  <1> QED
    BY <1>3, <1>6, <1>7

(* The commands of purchase orders keep all but the promise of the route. *)
LEMMA DispatchPurchaseKeeps ==
    ASSUME FlowInv, NEW p \in Purchases, NEW event \in PurchaseEvent, DispatchPurchase(p, event),
           creating' \in [Purchases -> Route],
           event.type = "PurchaseOrderCreated" <=> ~purchases[p].created
    PROVE  /\ RoutesAdd' => FlowInv'
           /\ purchases[p].lines \in Seq(PurchaseLine)
           /\ \A q \in Purchases \ {p} : purchases'[q] = purchases[q]
           /\ event.type = "PurchaseOrderLineAdded" =>
                  purchases'[p].lines = Append(purchases[p].lines, event.line)
           /\ event.type = "PurchaseOrderApproved" => purchases'[p].lines = purchases[p].lines
           /\ event.type = "GoodsReceived" => purchases'[p].lines = event.lines
           /\ purchases'[p].created
  <1>1. /\ orders \in [Orders -> Order] /\ invoices \in [Invoices -> Bill]
        /\ purchases \in [Purchases -> Purchase]
        /\ version \in [Streams -> Nat] /\ CreatedByEvents
    BY DEF FlowInv, FlowsTyped
  <1>2. PICK new : new = ApplyPurchase(purchases[p], event)
    OBVIOUS
  <1>3. /\ AppendEvent(p, event) /\ UNCHANGED <<channels, readModels>>
        /\ purchases' = [purchases EXCEPT ![p] = new]
        /\ orders' = orders /\ invoices' = invoices
    BY <1>2 DEF DispatchPurchase
  <1>4. /\ p \in Streams /\ event \in EventsOf(p) /\ p \in Documents
        /\ p \notin Orders /\ p \notin Invoices
    BY OneKind DEF EventsOf
  <1>5. purchases[p].created =>
            Shown(p) = [status |-> purchases[p].status, lines |-> purchases[p].lines]
    BY <1>1, <1>4 DEF Shown, Decided, CreatedByEvents
  <1>6. /\ new \in Purchase /\ new.created
        /\ [status |-> new.status, lines |-> new.lines] = PurchaseRowAfter(Shown(p), event)
        /\ event.type = "PurchaseOrderLineAdded" =>
               new.lines = Append(purchases[p].lines, event.line)
        /\ event.type = "PurchaseOrderApproved" => new.lines = purchases[p].lines
        /\ event.type = "GoodsReceived" => new.lines = event.lines
    <2>1. purchases[p] \in Purchase
      BY <1>1
    <2>2. \/ event.type = "PurchaseOrderCreated"
          \/ /\ purchases[p].created
             /\ Shown(p) = [status |-> purchases[p].status, lines |-> purchases[p].lines]
      BY <1>5
    <2> QED
      BY <1>2, <2>1, <2>2, PurchaseFold
  <1>7. purchases' \in [Purchases -> Purchase] /\ purchases'[p] = new
        /\ \A q \in Purchases \ {p} : purchases'[q] = purchases[q]
    BY <1>1, <1>3, <1>6
  <1>8. \A t \in Documents \ {p} : Decided(t)' = Decided(t)
    BY <1>3, <1>7 DEF Decided, Documents
  <1>9. Decided(p)' = RowAfter(p, Shown(p), event)
    BY <1>4, <1>6, <1>7 DEF Decided, RowAfter
  <1>10. /\ FlowsTyped' /\ NumbersGivenOut' /\ CursorsTogether'
         /\ Followed' /\ LateHasNoTotal' /\ InvoiceModelsAgree'
         /\ version[p] \in Nat /\ version'[p] = version[p] + 1
         /\ \A t \in Streams \ {p} : version'[t] = version[t]
    <2>1. orders' \in [Orders -> Order] /\ invoices' \in [Invoices -> Bill]
      BY <1>1, <1>3
    <2> QED
      BY <1>3, <1>4, <1>7, <1>8, <1>9, <2>1, AppendKeeps
  <1>11. CreatedByEvents'
    <2>1. ASSUME NEW q \in Purchases PROVE purchases'[q].created <=> version'[q] > 0
      <3>1. CASE q = p
        BY <1>6, <1>7, <1>10, <3>1
      <3>2. CASE q # p
        BY <1>1, <1>7, <1>10, <3>2, OneKind DEF CreatedByEvents
      <3> QED
        BY <3>1, <3>2
    <2>2. \A t \in Orders \cup Invoices : version'[t] = version[t]
      BY <1>10, OneKind DEF Documents
    <2> QED
      BY <1>1, <1>3, <2>1, <2>2 DEF CreatedByEvents
  <1>12. PaymentsBounded'
    BY <1>3 DEF FlowInv, PaymentsBounded
  <1>13. purchases[p].lines \in Seq(PurchaseLine)
    BY <1>1 DEF Purchase
  <1> QED
    BY <1>6, <1>7, <1>10, <1>11, <1>12, <1>13 DEF FlowInv


(* create_purchase_order and the routes of existing purchase orders. *)
LEMMA PurchaseRoutesKeep ==
    ASSUME FlowInv, NEW p \in Purchases,
           \/ \E body \in Bodies : CreatePurchaseOrder(p, body)
           \/ CreateAddsLine(p)
           \/ \E quantity \in Quantities : AddPurchaseOrderLine(p, quantity)
           \/ ApprovePurchaseOrder(p)
           \/ ReceivePurchaseOrderGoods(p)
    PROVE  FlowInv'
  <1>1. /\ purchases[p] \in Purchase /\ creating \in [Purchases -> Route]
        /\ version \in [Streams -> Nat] /\ p \in Streams /\ RoutesAdd
    BY OneKind DEF FlowInv, FlowsTyped
  <1>2. PICK len \in Nat : len = Len(purchases[p].lines)
    BY <1>1 DEF Purchase
  (* The routes of the other purchase orders. *)
  <1>3. ASSUME \A q \in Purchases \ {p} : purchases'[q] = purchases[q],
               \A q \in Purchases \ {p} : creating'[q] = creating[q],
               RouteAdds(p)'
        PROVE  RoutesAdd'
    BY <1>1, <1>3 DEF RoutesAdd, RouteAdds
  <1>4. ASSUME NEW body \in Bodies, CreatePurchaseOrder(p, body) PROVE FlowInv'
    <2>1. PICK event : event = [type |-> "PurchaseOrderCreated"]
      OBVIOUS
    <2>2. event \in PurchaseEvent /\ event.type = "PurchaseOrderCreated"
      BY <2>1 DEF PurchaseEvent
    <2>3. PICK route : route = [stage |-> "running", body |-> body, added |-> 0, last |-> 1]
      OBVIOUS
    <2>4. route \in Route
      BY <2>3 DEF Route
    <2>5. /\ DispatchPurchase(p, event) /\ ~purchases[p].created
          /\ creating' = [creating EXCEPT ![p] = route]
      BY <1>4, <2>1, <2>3 DEF CreatePurchaseOrder, CanCreatePurchase
    <2>6. creating' \in [Purchases -> Route] /\ creating'[p] = route
          /\ \A q \in Purchases \ {p} : creating'[q] = creating[q]
      BY <1>1, <2>4, <2>5
    <2>7. /\ RoutesAdd' => FlowInv'
          /\ purchases'[p].created
          /\ \A q \in Purchases \ {p} : purchases'[q] = purchases[q]
      BY <2>2, <2>5, <2>6, DispatchPurchaseKeeps
    <2>8. Len(body) \in Nat
      BY OrderFlowsAssumption
    <2>9. /\ route.added = 0 /\ route.body = body /\ route.stage = "running"
      BY <2>3
    <2>10. RouteAdds(p)'
      BY <2>6, <2>7, <2>8, <2>9, NoLinesYet DEF RouteAdds
    <2> QED
      BY <1>3, <2>6, <2>7, <2>10
  (* A line's event, whoever sends it. *)
  <1>5. ASSUME NEW quantity \in Int
        PROVE  /\ [no |-> len + 1, quantity |-> quantity] \in PurchaseLine
               /\ NextPurchaseLine(purchases[p], quantity)
                      = [no |-> len + 1, quantity |-> quantity]
               /\ [type |-> "PurchaseOrderLineAdded", line |-> [no |-> len + 1,
                       quantity |-> quantity]] \in PurchaseEvent
    <2>1. PICK l \in PurchaseLine : l = [no |-> len + 1, quantity |-> quantity]
      <3>1. len + 1 \in Nat
        OBVIOUS
      <3>2. [no |-> len + 1, quantity |-> quantity] \in PurchaseLine
        BY <3>1 DEF PurchaseLine
      <3> QED
        BY <3>2
    <2>2. [type |-> "PurchaseOrderLineAdded", line |-> l] \in PurchaseEvent
      BY <2>1 DEF PurchaseEvent
    <2> QED
      BY <1>2, <2>1, <2>2 DEF NextPurchaseLine
  <1>6. CASE CreateAddsLine(p)
    <2>1. PICK route \in Route : route = creating[p]
      BY <1>1
    <2>2. PICK n \in Nat, body \in Bodies \cup {<<>>} : n = route.added /\ body = route.body
      BY <2>1 DEF Route
    <2>3. n < Len(body) /\ route.stage = "running"
      BY <1>6, <2>1, <2>2 DEF CreateAddsLine, RouteContinues
    <2>4. body \in Seq(Int)
      <3>1. <<>> \in Seq(Int)
        OBVIOUS
      <3>2. Bodies \subseteq Seq(Int)
        BY OrderFlowsAssumption
      <3> QED
        BY <3>1, <3>2, Zenon
    <2>5. n + 1 \in 1 .. Len(body) /\ body[n + 1] \in Int
      BY <2>3, <2>4
    <2>6. PICK l : l = [no |-> len + 1, quantity |-> body[n + 1]]
      OBVIOUS
    <2>7. PICK event : event = [type |-> "PurchaseOrderLineAdded", line |-> l]
      OBVIOUS
    <2>8. /\ event \in PurchaseEvent /\ event.type = "PurchaseOrderLineAdded"
          /\ event.line = l /\ l \in PurchaseLine /\ l.quantity = body[n + 1]
          /\ NextPurchaseLine(purchases[p], body[n + 1]) = l
      BY <1>5, <2>5, <2>6, <2>7
    <2>9. /\ DispatchPurchase(p, event) /\ purchases[p].created
          /\ creating' = [creating EXCEPT ![p].added = @ + 1, ![p].last = version[p] + 1]
      BY <1>6, <2>1, <2>2, <2>7, <2>8 DEF CreateAddsLine, CanAddPurchaseLine
    <2>10. version[p] + 1 \in Nat
      BY <1>1
    <2>11. PICK next : next = [route EXCEPT !.added = n + 1, !.last = version[p] + 1]
      OBVIOUS
    <2>12. next \in Route /\ next.added = n + 1 /\ next.body = body /\ next.stage = "running"
      <3>1. n + 1 \in Nat /\ route \in Route
        OBVIOUS
      <3>2. PICK m \in Nat, k \in Nat : m = n + 1 /\ k = version[p] + 1
        BY <2>10, <3>1
      <3>3. next = [route EXCEPT !.added = m, !.last = k]
        BY <2>11, <3>2
      <3> QED
        BY <2>2, <2>3, <3>1, <3>2, <3>3 DEF Route
    <2>13. creating' = [creating EXCEPT ![p] = next]
      BY <1>1, <2>1, <2>2, <2>9, <2>11
    <2>14. creating' \in [Purchases -> Route] /\ creating'[p] = next
           /\ \A q \in Purchases \ {p} : creating'[q] = creating[q]
      BY <1>1, <2>12, <2>13
    <2>15. /\ RoutesAdd' => FlowInv'
           /\ purchases'[p].created
           /\ \A q \in Purchases \ {p} : purchases'[q] = purchases[q]
           /\ purchases[p].lines \in Seq(PurchaseLine)
           /\ purchases'[p].lines = Append(purchases[p].lines, l)
      BY <2>8, <2>9, <2>14, DispatchPurchaseKeeps
    <2>16. HasLines(purchases[p].lines, body, n)
      BY <1>1, <2>1, <2>2 DEF RoutesAdd, RouteAdds
    <2>17. HasLines(purchases'[p].lines, body, n + 1)
      BY <2>8, <2>15, <2>16, AppendedLine
    <2>18. n + 1 <= Len(body)
      BY <2>5
    <2>19. RouteAdds(p)'
      BY <2>12, <2>14, <2>15, <2>17, <2>18 DEF RouteAdds
    <2> QED
      BY <1>3, <2>14, <2>15, <2>19
  <1>7. ASSUME NEW quantity \in Quantities, AddPurchaseOrderLine(p, quantity) PROVE FlowInv'
    <2>1. quantity \in Int
      BY OrderFlowsAssumption
    <2>2. PICK l : l = [no |-> len + 1, quantity |-> quantity]
      OBVIOUS
    <2>3. PICK event : event = [type |-> "PurchaseOrderLineAdded", line |-> l]
      OBVIOUS
    <2>4. /\ event \in PurchaseEvent /\ event.type = "PurchaseOrderLineAdded"
          /\ event.line = l /\ l \in PurchaseLine
          /\ NextPurchaseLine(purchases[p], quantity) = l
      BY <1>5, <2>1, <2>2, <2>3
    <2>5. DispatchPurchase(p, event) /\ purchases[p].created /\ creating' = creating
      BY <1>7, <2>3, <2>4 DEF AddPurchaseOrderLine, CanAddPurchaseLine
    <2>6. creating' \in [Purchases -> Route]
      BY <1>1, <2>5
    <2>7. /\ RoutesAdd' => FlowInv'
          /\ purchases'[p].created
          /\ \A q \in Purchases \ {p} : purchases'[q] = purchases[q]
          /\ purchases[p].lines \in Seq(PurchaseLine)
          /\ purchases'[p].lines = Append(purchases[p].lines, l)
      BY <2>4, <2>5, <2>6, DispatchPurchaseKeeps
    <2>8. RouteAdds(p) /\ creating[p].added \in Nat
      BY <1>1 DEF RoutesAdd, Route
    <2>9. HasLines(purchases'[p].lines, creating[p].body, creating[p].added)
      BY <2>4, <2>7, <2>8, AppendedLine DEF RouteAdds
    <2>10. RouteAdds(p)'
      BY <2>5, <2>7, <2>8, <2>9 DEF RouteAdds
    <2> QED
      BY <1>3, <2>5, <2>7, <2>10
  <1>8. CASE ApprovePurchaseOrder(p)
    <2>1. PICK event : event = [type |-> "PurchaseOrderApproved"]
      OBVIOUS
    <2>2. event \in PurchaseEvent /\ event.type = "PurchaseOrderApproved"
      BY <2>1 DEF PurchaseEvent
    <2>3. DispatchPurchase(p, event) /\ purchases[p].created /\ creating' = creating
      BY <1>8, <2>1 DEF ApprovePurchaseOrder, CanApprove
    <2>4. /\ RoutesAdd' => FlowInv'
          /\ purchases'[p].created
          /\ \A q \in Purchases \ {p} : purchases'[q] = purchases[q]
          /\ purchases'[p].lines = purchases[p].lines
      BY <1>1, <2>2, <2>3, DispatchPurchaseKeeps
    <2>5. RouteAdds(p)'
      BY <1>1, <2>3, <2>4 DEF RoutesAdd, RouteAdds
    <2> QED
      BY <1>3, <2>3, <2>4, <2>5
  <1>9. CASE ReceivePurchaseOrderGoods(p)
    <2>1. PICK event : event = [type |-> "GoodsReceived", lines |-> purchases[p].lines]
      OBVIOUS
    <2>2. event \in PurchaseEvent /\ event.type = "GoodsReceived"
          /\ event.lines = purchases[p].lines
      BY <1>1, <2>1 DEF PurchaseEvent, Purchase
    <2>3. DispatchPurchase(p, event) /\ purchases[p].created /\ creating' = creating
      BY <1>9, <2>1 DEF ReceivePurchaseOrderGoods, CanReceive
    <2>4. /\ RoutesAdd' => FlowInv'
          /\ purchases'[p].created
          /\ \A q \in Purchases \ {p} : purchases'[q] = purchases[q]
          /\ purchases'[p].lines = purchases[p].lines
      BY <1>1, <2>2, <2>3, DispatchPurchaseKeeps
    <2>5. RouteAdds(p)'
      BY <1>1, <2>3, <2>4 DEF RoutesAdd, RouteAdds
    <2> QED
      BY <1>3, <2>3, <2>4, <2>5
  <1> QED
    BY <1>4, <1>6, <1>7, <1>8, <1>9


-----------------------------------------------------------------------------
(* Steps that change no aggregate. *)

(* A step after which no more envelopes are on their way, and no read      *)
(* model shows anything else.                                              *)
LEMMA QuietStepKeeps ==
    ASSUME FlowInv, FlowsTyped', UNCHANGED <<aggregates, readModels>>,
           Underway' \subseteq Underway, RoutesAdd'
    PROVE  FlowInv'
  <1>1. /\ orders' = orders /\ invoices' = invoices /\ purchases' = purchases
        /\ version' = version /\ cursor' = cursor /\ agingCursor' = agingCursor
        /\ salesRows' = salesRows /\ invoiceRows' = invoiceRows /\ agingRows' = agingRows
        /\ purchaseRows' = purchaseRows /\ first' = first
    BY DEF aggregates, readModels
  <1>2. NumbersGivenOut' /\ CreatedByEvents' /\ CursorsTogether'
    BY <1>1 DEF FlowInv, NumbersGivenOut, CreatedByEvents, CursorsTogether
  <1>3. \A s : RowOf(s)' = RowOf(s) /\ Shown(s)' = Shown(s)
    BY <1>1 DEF RowOf, Shown, Decided
  <1>4. Followed'
    <2> SUFFICES ASSUME NEW s \in Documents PROVE (\E h : Follows(s, h))'
      BY DEF Followed
    <2>1. PICK h : Follows(s, h)
      BY DEF FlowInv, Followed
    <2>2. Follows(s, h)'
      BY <1>1, <1>3, <2>1 DEF Follows
    <2> QED
      BY <2>2
  <1>5. LateHasNoTotal' /\ InvoiceModelsAgree' /\ PaymentsBounded'
    BY <1>1 DEF FlowInv, LateHasNoTotal, InvoiceModelsAgree, PaymentsBounded
  <1> QED
    BY <1>2, <1>4, <1>5 DEF FlowInv

(* The end of create_purchase_order. *)
LEMMA RouteEndKeeps ==
    ASSUME FlowInv, NEW p \in Purchases, CreateFails(p) \/ CreateReplies(p)
    PROVE  FlowInv'
  <1>1. PICK stage \in {"created", "error"} :
            /\ creating' = [creating EXCEPT ![p].stage = stage]
            /\ stage = "created" => creating[p].added = Len(creating[p].body)
            /\ creating[p].stage = "running"
    BY DEF CreateFails, CreateReplies, RouteContinues
  <1>2. UNCHANGED <<aggregates, inFlight, channels, readModels>>
    BY DEF CreateFails, CreateReplies
  <1>3. /\ purchases' = purchases /\ inFlight' = inFlight /\ channel' = channel
    BY <1>2 DEF aggregates, channels
  <1>4. creating \in [Purchases -> Route] /\ RoutesAdd
    BY DEF FlowInv, FlowsTyped
  <1>5. PICK route \in Route : route = creating[p]
    BY <1>4
  <1>6. PICK next : next = [route EXCEPT !.stage = stage]
    OBVIOUS
  <1>7. next \in Route /\ next.stage = stage /\ next.added = route.added /\ next.body = route.body
    BY <1>6 DEF Route
  <1>8. creating' = [creating EXCEPT ![p] = next]
    BY <1>1, <1>4, <1>5, <1>6
  <1>9. creating' \in [Purchases -> Route] /\ creating'[p] = next
        /\ \A q \in Purchases \ {p} : creating'[q] = creating[q]
    BY <1>4, <1>7, <1>8
  <1>10. RoutesAdd'
    BY <1>1, <1>3, <1>4, <1>5, <1>7, <1>9 DEF RoutesAdd, RouteAdds
  <1>11. FlowsTyped'
    BY <1>2, <1>9 DEF FlowInv, FlowsTyped, aggregates, channels, readModels
  <1>12. Underway' = Underway
    BY <1>3 DEF Underway
  <1> QED
    BY <1>2, <1>10, <1>11, <1>12, QuietStepKeeps

(* publish *)
LEMMA PublishKeeps ==
    ASSUME FlowInv, NEW envelope \in inFlight, Publish(envelope)
    PROVE  FlowInv'
  <1>1. /\ inFlight \subseteq Envelopes /\ channel \in Seq(Envelopes)
        /\ sagaChannel \in Seq(Envelopes) /\ envelope \in Envelopes
    BY DEF FlowInv, FlowsTyped
  <1>2. /\ inFlight' = inFlight \ {envelope} /\ channel' = Append(channel, envelope)
        /\ sagaChannel' = Append(sagaChannel, envelope)
        /\ UNCHANGED <<aggregates, readModels, creating>>
    BY DEF Publish
  <1>3. /\ channel' \in Seq(Envelopes) /\ ToSet(channel') = ToSet(channel) \cup {envelope}
        /\ sagaChannel' \in Seq(Envelopes)
    BY <1>1, <1>2, AppendLists
  <1>4. FlowsTyped'
    BY <1>1, <1>2, <1>3 DEF FlowInv, FlowsTyped, aggregates, readModels
  <1>5. Underway' \subseteq Underway
    BY <1>2, <1>3 DEF Underway
  <1>6. RoutesAdd'
    BY <1>2 DEF FlowInv, RoutesAdd, RouteAdds, aggregates
  <1> QED
    BY <1>2, <1>4, <1>5, <1>6, QuietStepKeeps

(* A publication that fails. *)
LEMMA PublishFailsKeeps ==
    ASSUME FlowInv, NEW envelope \in inFlight, PublishFails(envelope)
    PROVE  FlowInv'
  <1>1. /\ inFlight' = inFlight \ {envelope} /\ UNCHANGED <<aggregates, channels, readModels>>
        /\ creating' = [p \in Purchases |->
                            IF Awaits(p, envelope) THEN [creating[p] EXCEPT !.stage = "error"]
                            ELSE creating[p]]
    BY DEF PublishFails
  <1>2. channel' = channel /\ purchases' = purchases
    BY <1>1 DEF channels, aggregates
  <1>3. creating \in [Purchases -> Route] /\ RoutesAdd
    BY DEF FlowInv, FlowsTyped
  <1>4. ASSUME NEW p \in Purchases
        PROVE  creating'[p] \in Route /\ RouteAdds(p)'
    <2>1. PICK route \in Route : route = creating[p]
      BY <1>3
    <2>2. PICK next : next = [route EXCEPT !.stage = "error"]
      OBVIOUS
    <2>3. /\ next \in Route /\ next.stage = "error"
          /\ next.added = route.added /\ next.body = route.body
      BY <2>2 DEF Route
    <2>4. RouteAdds(p)
      BY <1>3 DEF RoutesAdd
    <2>5. CASE Awaits(p, envelope)
      <3>1. creating'[p] = next /\ creating[p].stage = "running"
        BY <1>1, <2>1, <2>2, <2>5 DEF Awaits
      <3> QED
        BY <1>2, <2>1, <2>3, <2>4, <3>1 DEF RouteAdds
    <2>6. CASE ~Awaits(p, envelope)
      <3>1. creating'[p] = route
        BY <1>1, <2>1, <2>6
      <3> QED
        BY <1>2, <2>1, <2>4, <3>1 DEF RouteAdds
    <2> QED
      BY <2>5, <2>6
  <1>5. creating' \in [Purchases -> Route]
    BY <1>1, <1>4
  <1>6. FlowsTyped'
    BY <1>1, <1>5 DEF FlowInv, FlowsTyped, aggregates, channels, readModels
  <1>7. Underway' \subseteq Underway
    BY <1>1, <1>2 DEF Underway
  <1>8. RoutesAdd'
    BY <1>4 DEF RoutesAdd
  <1> QED
    BY <1>1, <1>6, <1>7, <1>8, QuietStepKeeps

(***************************************************************************)
(* The saga finds the order of no event, since the payload is tagged with  *)
(* the event's variant: it takes the event off its subscription and        *)
(* changes nothing else.                                                   *)
(***************************************************************************)
LEMMA SagaIsInert ==
    ASSUME FlowInv, SagaTurn
    PROVE  /\ sagaChannel' \in Seq(Envelopes)
           /\ UNCHANGED <<aggregates, inFlight, channel, readModels, creating>>
  <1>1. sagaChannel \in Seq(Envelopes) /\ sagaChannel # <<>> /\ sagaChannel' = Tail(sagaChannel)
    BY DEF FlowInv, FlowsTyped, SagaTurn
  <1>2. PICK e : e = Head(sagaChannel)
    OBVIOUS
  <1>3. e \in Envelopes /\ sagaChannel' \in Seq(Envelopes)
    BY <1>1, <1>2, TailLists DEF ToSet
  <1>4. Correlate(e) = NoOrder
    <2>1. e.event \in EventsOf(e.stream)
      BY <1>3, EnvelopeFields
    <2>2. e.stream \in Orders => e.event.type # "order_id"
      BY <2>1, SalesEventFields DEF EventsOf
    <2>3. e.stream \in Invoices => e.event.type # "sales_order_id" /\ e.stream \notin Orders
      BY <2>1, InvoiceEventFields, OneKind DEF EventsOf
    <2>4. DOMAIN Payload(e.event) = {e.event.type}
      BY DEF Payload
    <2>5. /\ ~(e.stream \in Orders /\ "order_id" \in DOMAIN Payload(e.event))
          /\ ~(e.stream \in Invoices /\ "sales_order_id" \in DOMAIN Payload(e.event))
      BY <2>2, <2>3, <2>4
    <2> QED
      BY <2>5 DEF Correlate
  <1>5. UNCHANGED <<aggregates, inFlight, channel, readModels, creating>>
    BY <1>2, <1>4 DEF SagaTurn
  <1> QED
    BY <1>3, <1>5

(* The saga's turn changes nothing the invariant speaks of. *)
LEMMA SagaTurnKeeps ==
    ASSUME FlowInv, SagaTurn
    PROVE  FlowInv'
  <1>1. /\ sagaChannel' \in Seq(Envelopes)
        /\ UNCHANGED <<aggregates, inFlight, channel, readModels, creating>>
    BY SagaIsInert
  <1>2. FlowsTyped'
    BY <1>1 DEF FlowInv, FlowsTyped, aggregates, readModels
  <1>3. Underway' = Underway
    BY <1>1 DEF Underway
  <1>4. RoutesAdd'
    BY <1>1 DEF FlowInv, RoutesAdd, RouteAdds, aggregates
  <1> QED
    BY <1>1, <1>2, <1>3, <1>4, QuietStepKeeps


-----------------------------------------------------------------------------
(* The projection loop. *)

(* The cursor's verdicts. *)
LEMMA Verdicts ==
    ASSUME NEW last \in Nat, NEW seq \in Nat \ {0}
    PROVE  /\ CursorVerdict(last, seq) = "Next" <=> seq > last /\ (last = 0 \/ seq = last + 1)
           /\ CursorVerdict(last, seq) \in {"Next", "Duplicate", "NonMonotonicSequence"}
  BY DEF CursorVerdict

(* The cursor goes to the envelope's number, and so does the first number  *)
(* if there was none.                                                      *)
LEMMA CursorMoves ==
    ASSUME cursor \in [Streams -> Nat], first \in [Streams -> Nat],
           NEW s \in Streams, NEW q \in Nat, NEW f \in Nat,
           cursor' = [cursor EXCEPT ![s] = q], first' = [first EXCEPT ![s] = f]
    PROVE  /\ cursor' \in [Streams -> Nat] /\ first' \in [Streams -> Nat]
           /\ cursor'[s] = q /\ first'[s] = f
           /\ \A t \in Streams \ {s} : cursor'[t] = cursor[t] /\ first'[t] = first[t]
  OBVIOUS

(***************************************************************************)
(* An accepted envelope moves its row along the stream's history if the    *)
(* row has come that way, and leaves an invoice without a total if not.    *)
(***************************************************************************)
LEMMA AcceptedKeeps ==
    ASSUME FlowInv, NEW e \in Underway, e \in Envelopes,
           CursorVerdict(cursor[e.stream], e.seq) = "Next",
           Project(e.stream, e.event), ProjectAging(e.stream, e.seq, e.event),
           cursor' = [cursor EXCEPT ![e.stream] = e.seq],
           first' = [first EXCEPT ![e.stream] = IF @ = 0 THEN e.seq ELSE @],
           channel' \in Seq(Envelopes), Underway' \subseteq Underway,
           UNCHANGED <<aggregates, inFlight, sagaChannel, creating>>
    PROVE  FlowInv'
  <1>1. PICK s \in Streams, q \in Nat \ {0} :
            e.stream = s /\ e.seq = q
    BY EnvelopeFields
  <1>0. PICK event \in EventsOf(s) : e.event = event
    BY <1>1, EnvelopeFields
  <1>2. /\ FlowsTyped /\ NumbersGivenOut /\ CreatedByEvents /\ CursorsTogether /\ Followed
        /\ LateHasNoTotal /\ InvoiceModelsAgree /\ PaymentsBounded /\ RoutesAdd
    BY DEF FlowInv
  <1>3. /\ orders' = orders /\ invoices' = invoices /\ purchases' = purchases
        /\ version' = version /\ inFlight' = inFlight /\ sagaChannel' = sagaChannel
        /\ creating' = creating
    BY DEF aggregates
  <1>4. /\ version \in [Streams -> Nat] /\ cursor \in [Streams -> Nat]
        /\ first \in [Streams -> Nat] /\ agingCursor \in [Invoices -> Nat]
        /\ salesRows \in [Orders -> SalesRow] /\ purchaseRows \in [Purchases -> PurchaseRow]
        /\ invoiceRows \in [Invoices -> InvoiceRow] /\ agingRows \in [Invoices -> AgingRow]
    BY <1>2 DEF FlowsTyped, SalesRow, PurchaseRow, InvoiceRow, AgingRow
  <1>5. PICK c \in Nat, f \in Nat : c = cursor[s] /\ f = first[s]
    BY <1>4
  <1>6. q > c /\ (c = 0 \/ q = c + 1) /\ f <= c /\ (c = 0 <=> f = 0)
    BY <1>0, <1>1, <1>2, <1>5, Verdicts DEF CursorsTogether
  <1>7. q <= version[s] /\ (s \in Invoices => (event.type = "InvoiceIssued" <=> q = 1))
    BY <1>0, <1>1, <1>2 DEF NumbersGivenOut
  <1>8. PICK f2 \in Nat : f2 = IF f = 0 THEN q ELSE f
    OBVIOUS
  <1>9. /\ cursor' = [cursor EXCEPT ![s] = q] /\ first' = [first EXCEPT ![s] = f2]
    <2>1. (IF first[s] = 0 THEN q ELSE first[s]) = f2
      BY <1>5, <1>8
    <2> QED
      BY <1>0, <1>1, <2>1
  <1>10. /\ cursor' \in [Streams -> Nat] /\ first' \in [Streams -> Nat]
         /\ cursor'[s] = q /\ first'[s] = f2
         /\ \A t \in Streams \ {s} : cursor'[t] = cursor[t] /\ first'[t] = first[t]
    <2>1. q \in Nat
      OBVIOUS
    <2> QED
      BY <1>4, <1>9, <2>1, CursorMoves
  <1>11. s \in Invoices =>
             /\ agingRows' = [agingRows EXCEPT ![s] = AgingRowAfter(@, event)]
             /\ agingCursor' = [agingCursor EXCEPT ![s] = q]
    <2>1. s \in Invoices => agingCursor[s] = c
      BY <1>2, <1>5 DEF CursorsTogether
    <2>2. s \in Invoices => CursorVerdict(agingCursor[s], q) = "Next"
      BY <1>0, <1>1, <1>5, <2>1
    <2> QED
      BY <1>0, <1>1, <2>2 DEF ProjectAging
  <1>12. s \notin Invoices => agingRows' = agingRows /\ agingCursor' = agingCursor
    BY <1>0, <1>1 DEF ProjectAging
  (* What the two projections of invoices make of the event. *)
  <1>13. ASSUME s \in Invoices
         PROVE  /\ InvoiceRowAfter(invoiceRows[s], event) \in InvoiceRow
                /\ AgingRowAfter(agingRows[s], event) \in AgingRow
                /\ Agree(InvoiceRowAfter(invoiceRows[s], event), AgingRowAfter(agingRows[s], event))
                /\ InvoiceRowAfter(invoiceRows[s], event).status # "NoRow"
                /\ f2 > 1 => InvoiceRowAfter(invoiceRows[s], event).total = 0
    <2>1. PICK row \in InvoiceRow, aging \in AgingRow : row = invoiceRows[s] /\ aging = agingRows[s]
      BY <1>4, <1>13
    <2>2. s \notin Orders /\ s \in Documents /\ event \in InvoiceEvent
      BY <1>13, OneKind DEF EventsOf
    <2>3. Agree(row, aging)
      BY <1>2, <1>13, <2>1 DEF InvoiceModelsAgree, Agree
    <2>4. /\ f > 1 => row.total = 0
          /\ c = 0 => row = NoInvoiceRow /\ aging = NoAgingRow
          /\ c > 0 => row.status # "NoRow"
      BY <1>2, <1>5, <1>13, <2>1 DEF LateHasNoTotal
    <2>5. row.status = "NoRow" => row = NoInvoiceRow /\ aging = NoAgingRow
      BY <2>4
    <2>6. NoInvoiceRow.total = 0
      BY DEF NoInvoiceRow
    <2>7. row.total = 0 \/ AddsUp(row, event)
      <3>1. CASE c = 0 \/ f > 1
        BY <2>4, <2>6, <3>1
      <3>2. CASE c > 0 /\ f <= 1
        <4>1. q = c + 1 /\ q - 1 = c /\ f \in {0, 1}
          BY <1>6, <3>2
        <4>2. PICK h : Follows(s, h)
          BY <1>2, <2>2 DEF Followed
        <4>3. h[c] = row
          BY <1>5, <1>13, <2>1, <2>2, <4>1, <4>2 DEF Follows, RowOf
        <4>4. AddsUp(h[q - 1], event)
          BY <1>0, <1>1, <1>13, <4>2 DEF Follows
        <4> QED
          BY <4>1, <4>3, <4>4
      <3> QED
        BY <3>1, <3>2
    <2>8. /\ InvoiceRowAfter(row, event) \in InvoiceRow
          /\ AgingRowAfter(aging, event) \in AgingRow
          /\ Agree(InvoiceRowAfter(row, event), AgingRowAfter(aging, event))
          /\ InvoiceRowAfter(row, event).status # "NoRow"
          /\ event.type # "InvoiceIssued" => InvoiceRowAfter(row, event).total = row.total
      BY <2>2, <2>3, <2>5, <2>7, AgreementKept
    <2>9. f2 > 1 => row.total = 0 /\ q # 1
      BY <1>6, <1>8, <2>4, <2>6
    <2> QED
      BY <1>7, <1>13, <2>1, <2>8, <2>9
  <1>14. /\ s \in Orders => SalesRowAfter(salesRows[s], event) \in SalesRow
         /\ s \in Purchases => PurchaseRowAfter(purchaseRows[s], event) \in PurchaseRow
    BY <1>4, SalesRowTyped, PurchaseRowTyped, OneKind DEF EventsOf
  <1>15. /\ salesRows' \in [Orders -> SalesRow] /\ purchaseRows' \in [Purchases -> PurchaseRow]
         /\ invoiceRows' \in [Invoices -> InvoiceRow] /\ agingRows' \in [Invoices -> AgingRow]
         /\ agingCursor' \in [Invoices -> Nat]
    <2>1. salesRows' \in [Orders -> SalesRow]
      BY <1>0, <1>1, <1>4, <1>14 DEF Project
    <2>2. purchaseRows' \in [Purchases -> PurchaseRow]
      BY <1>0, <1>1, <1>4, <1>14 DEF Project
    <2>3. invoiceRows' \in [Invoices -> InvoiceRow]
      BY <1>0, <1>1, <1>4, <1>13 DEF Project
    <2>4. agingRows' \in [Invoices -> AgingRow] /\ agingCursor' \in [Invoices -> Nat]
      BY <1>4, <1>11, <1>12, <1>13
    <2> QED
      BY <2>1, <2>2, <2>3, <2>4
  <1>16. FlowsTyped'
    BY <1>2, <1>3, <1>10, <1>15
       DEF FlowsTyped, SalesRow, PurchaseRow, InvoiceRow, AgingRow
  <1>17. NumbersGivenOut' /\ CreatedByEvents'
    BY <1>2, <1>3 DEF NumbersGivenOut, CreatedByEvents
  <1>18. CursorsTogether'
    <2>1. f2 <= q /\ (q = 0 <=> f2 = 0)
      BY <1>6, <1>8
    <2>2. ASSUME NEW t \in Streams
          PROVE  /\ first'[t] <= cursor'[t] /\ cursor'[t] <= version'[t]
                 /\ cursor'[t] = 0 <=> first'[t] = 0
      <3>1. CASE t = s
        BY <1>3, <1>7, <1>10, <2>1, <3>1
      <3>2. CASE t # s
        BY <1>2, <1>3, <1>10, <3>2 DEF CursorsTogether
      <3> QED
        BY <3>1, <3>2
    <2>3. ASSUME NEW i \in Invoices PROVE agingCursor'[i] = cursor'[i]
      <3>1. CASE i = s
        BY <1>4, <1>10, <1>11, <3>1
      <3>2. CASE i # s
        <4>1. agingCursor'[i] = agingCursor[i]
          BY <1>4, <1>11, <1>12, <3>2
        <4>2. i \in Streams
          BY OneKind
        <4> QED
          BY <1>2, <1>10, <3>2, <4>1, <4>2 DEF CursorsTogether
      <3> QED
        BY <3>1, <3>2
    <2> QED
      BY <2>2, <2>3 DEF CursorsTogether
  <1>19. \A t \in Documents \ {s} : RowOf(t)' = RowOf(t)
    BY <1>0, <1>1, <1>4 DEF RowOf, Project, Documents
  <1>20. s \in Documents => RowOf(s)' = RowAfter(s, RowOf(s), event)
    BY <1>0, <1>1, <1>4, OneKind DEF RowOf, RowAfter, Project, Documents
  <1>21. \A t : Shown(t)' = Shown(t)
    BY <1>3 DEF Shown, Decided
  <1>22. ASSUME NEW t \in Documents PROVE (\E h : Follows(t, h))'
    <2>1. PICK h : Follows(t, h)
      BY <1>2 DEF Followed
    <2>2. t \in Streams
      BY OneKind
    <2>3. first'[t] \in {0, 1} => RowOf(t)' = h[cursor'[t]]
      <3>1. CASE t # s
        BY <1>10, <1>19, <2>1, <2>2, <3>1 DEF Follows
      <3>2. CASE t = s
        <4> SUFFICES ASSUME f2 \in {0, 1} PROVE RowOf(s)' = h[q]
          BY <1>10, <3>2
        <4>1. f \in {0, 1} /\ q - 1 = c
          BY <1>6, <1>8
        <4>2. RowOf(s) = h[c]
          BY <1>5, <2>1, <3>2, <4>1 DEF Follows
        <4>3. h[q] = RowAfter(s, h[q - 1], event)
          BY <1>0, <1>1, <2>1, <3>2 DEF Follows
        <4> QED
          BY <1>20, <3>2, <4>1, <4>2, <4>3
      <3> QED
        BY <3>1, <3>2
    <2>4. Follows(t, h)'
      BY <1>3, <1>21, <2>1, <2>3 DEF Follows
    <2> QED
      BY <2>4
  <1>23. Followed'
    BY <1>22 DEF Followed
  <1>24. ASSUME NEW i \in Invoices
         PROVE  /\ Agree(invoiceRows'[i], agingRows'[i])
                /\ first'[i] > 1 => invoiceRows'[i].total = 0
                /\ cursor'[i] = 0 => invoiceRows'[i] = NoInvoiceRow /\ agingRows'[i] = NoAgingRow
                /\ cursor'[i] > 0 => invoiceRows'[i].status # "NoRow"
    <2>1. CASE i = s
      <3>1. /\ invoiceRows'[i] = InvoiceRowAfter(invoiceRows[s], event)
            /\ agingRows'[i] = AgingRowAfter(agingRows[s], event)
        BY <1>0, <1>1, <1>4, <1>11, <2>1 DEF Project
      <3> QED
        BY <1>10, <1>13, <2>1, <3>1
    <2>2. CASE i # s
      <3>1. invoiceRows'[i] = invoiceRows[i] /\ agingRows'[i] = agingRows[i]
        BY <1>0, <1>1, <1>4, <1>11, <1>12, <2>2 DEF Project
      <3>2. cursor'[i] = cursor[i] /\ first'[i] = first[i]
        BY <1>10, <2>2, OneKind
      <3> QED
        BY <1>2, <3>1, <3>2 DEF InvoiceModelsAgree, Agree, LateHasNoTotal
    <2> QED
      BY <2>1, <2>2
  <1>25. LateHasNoTotal' /\ InvoiceModelsAgree'
    BY <1>24 DEF LateHasNoTotal, InvoiceModelsAgree, Agree
  <1>26. PaymentsBounded' /\ RoutesAdd'
    BY <1>2, <1>3 DEF PaymentsBounded, RoutesAdd, RouteAdds
  <1> QED
    BY <1>16, <1>17, <1>18, <1>23, <1>25, <1>26 DEF FlowInv


(* One turn of the projection loop.  What the cursor refuses is refused by *)
(* the aging projection too, whose cursor is the same.                     *)
LEMMA DeliverKeeps ==
    ASSUME FlowInv, Deliver
    PROVE  FlowInv'
  <1>1. channel \in Seq(Envelopes) /\ channel # <<>> /\ channel' = Tail(channel)
    BY DEF FlowInv, FlowsTyped, Deliver
  <1>2. PICK e : e = Head(channel)
    OBVIOUS
  <1>3. /\ e \in ToSet(channel) /\ channel' \in Seq(Envelopes)
        /\ ToSet(channel') \subseteq ToSet(channel)
    BY <1>1, <1>2, TailLists
  <1>4. e \in Envelopes /\ e \in Underway
    BY <1>1, <1>3 DEF ToSet, Underway
  <1>5. UNCHANGED <<aggregates, inFlight, sagaChannel, creating>>
    BY DEF Deliver
  <1>6. Underway' \subseteq Underway
    BY <1>3, <1>5 DEF Underway
  <1>7. PICK verdict : verdict = CursorVerdict(cursor[e.stream], e.seq)
    OBVIOUS
  <1>8. /\ IF verdict = "Next"
           THEN /\ Project(e.stream, e.event)
                /\ cursor' = [cursor EXCEPT ![e.stream] = e.seq]
                /\ first' = [first EXCEPT ![e.stream] = IF @ = 0 THEN e.seq ELSE @]
           ELSE UNCHANGED <<salesRows, purchaseRows, invoiceRows, balances, cursor, first>>
        /\ IF verdict = "NonMonotonicSequence"
           THEN UNCHANGED <<agingRows, agingCursor>>
           ELSE ProjectAging(e.stream, e.seq, e.event)
    BY <1>2, <1>7 DEF Deliver
  <1>9. CASE verdict = "Next"
    BY <1>3, <1>4, <1>5, <1>6, <1>7, <1>8, <1>9, AcceptedKeeps
  <1>10. CASE verdict # "Next"
    <2>1. e.stream \in Invoices => agingCursor[e.stream] = cursor[e.stream]
      BY DEF FlowInv, CursorsTogether
    <2>2. agingRows' = agingRows /\ agingCursor' = agingCursor
      BY <1>7, <1>8, <1>10, <2>1 DEF ProjectAging
    <2>3. UNCHANGED readModels
      BY <1>8, <1>10, <2>2 DEF readModels
    <2>4. FlowsTyped'
      BY <1>3, <1>5, <2>3 DEF FlowInv, FlowsTyped, aggregates, readModels
    <2>5. RoutesAdd'
      BY <1>5 DEF FlowInv, RoutesAdd, RouteAdds, aggregates
    <2> QED
      BY <1>5, <1>6, <2>3, <2>4, <2>5, QuietStepKeeps
  <1> QED
    BY <1>9, <1>10

-----------------------------------------------------------------------------
(* The invariant and what follows from it. *)

(* At the start no stream has a row. *)
LEMMA InitFlows ==
    ASSUME Init
    PROVE  FlowInv
  <1>0. MaxU64 \in Nat /\ 0 \in Amount /\ <<>> \in Seq(SalesLine) /\ <<>> \in Seq(PurchaseLine)
        /\ <<>> \in Seq(Envelopes)
    BY InvoiceAssumption DEF Amount
  <1>1. EmptyOrder \in Order /\ EmptyPurchase \in Purchase /\ EmptyInvoice \in Bill
    BY <1>0 DEF EmptyOrder, EmptyPurchase, EmptyInvoice, Order, Purchase, Bill
  <1>2. /\ NoSalesRow \in SalesRow /\ NoPurchaseRow \in PurchaseRow
        /\ NoInvoiceRow \in InvoiceRow /\ NoAgingRow \in AgingRow
    BY <1>0 DEF NoSalesRow, NoPurchaseRow, NoInvoiceRow, NoAgingRow,
                SalesRow, PurchaseRow, InvoiceRow, AgingRow
  <1>3. PICK idle : idle = [stage |-> "idle", body |-> <<>>, added |-> 0, last |-> 0]
    OBVIOUS
  <1>4. idle \in Route /\ idle.stage = "idle" /\ idle.body = <<>> /\ idle.added = 0
    BY <1>3 DEF Route
  <1>5. FlowsTyped
    <2>1. /\ orders \in [Orders -> Order] /\ invoices \in [Invoices -> Bill]
          /\ purchases \in [Purchases -> Purchase]
      BY <1>1 DEF Init
    <2>2. /\ version \in [Streams -> Nat] /\ cursor \in [Streams -> Nat]
          /\ first \in [Streams -> Nat] /\ agingCursor \in [Invoices -> Nat]
      BY DEF Init
    <2>3. inFlight \subseteq Envelopes /\ channel \in Seq(Envelopes)
          /\ sagaChannel \in Seq(Envelopes)
      BY <1>0 DEF Init
    <2>4. /\ salesRows \in [Orders -> SalesRow] /\ purchaseRows \in [Purchases -> PurchaseRow]
          /\ invoiceRows \in [Invoices -> InvoiceRow] /\ agingRows \in [Invoices -> AgingRow]
      BY <1>2 DEF Init
    <2>5. creating \in [Purchases -> Route]
      BY <1>3, <1>4 DEF Init
    <2> QED
      BY <2>1, <2>2, <2>3, <2>4, <2>5
         DEF FlowsTyped, SalesRow, PurchaseRow, InvoiceRow, AgingRow
  <1>6. Underway = {}
    <2>1. channel = <<>> /\ inFlight = {}
      BY DEF Init
    <2>2. ToSet(channel) = {}
      BY <2>1 DEF ToSet
    <2> QED
      BY <2>1, <2>2 DEF Underway
  <1>7. NumbersGivenOut
    BY <1>6 DEF NumbersGivenOut
  <1>8. CreatedByEvents
    BY OneKind DEF Init, CreatedByEvents, EmptyOrder, EmptyInvoice, EmptyPurchase
  <1>9. CursorsTogether
    BY OneKind DEF Init, CursorsTogether
  <1>10. Followed
    <2> SUFFICES ASSUME NEW s \in Documents PROVE \E h : Follows(s, h)
      BY DEF Followed
    <2>1. PICK h : h = [n \in {0} |-> NoRow(s)]
      OBVIOUS
    <2>2. h[0] = NoRow(s)
      BY <2>1
    <2>3. version[s] = 0 /\ cursor[s] = 0
      BY OneKind DEF Init
    <2>4. Shown(s) = NoRow(s)
      BY <2>3 DEF Shown
    <2>5. RowOf(s) = NoRow(s)
      BY OneKind DEF Init, RowOf, NoRow, Documents
    <2>6. Follows(s, h)
      BY <1>6, <2>2, <2>3, <2>4, <2>5 DEF Follows
    <2> QED
      BY <2>6
  <1>11. LateHasNoTotal
    BY OneKind DEF Init, LateHasNoTotal
  <1>12. InvoiceModelsAgree
    BY DEF Init, InvoiceModelsAgree, NoInvoiceRow, NoAgingRow, Outstanding
  <1>13. PaymentsBounded
    BY DEF Init, PaymentsBounded, EmptyInvoice
  <1>14. RoutesAdd
    <2> SUFFICES ASSUME NEW p \in Purchases PROVE RouteAdds(p)
      BY DEF RoutesAdd
    <2>1. creating[p] = idle
      BY <1>3 DEF Init
    <2>2. Len(idle.body) = 0
      BY <1>4
    <2> QED
      BY <1>4, <2>1, <2>2, NoLinesYet DEF RouteAdds
  <1> QED
    BY <1>5, <1>7, <1>8, <1>9, <1>10, <1>11, <1>12, <1>13, <1>14 DEF FlowInv

(* The read models: every step. *)
LEMMA NextFlows ==
    ASSUME FlowInv, [Next]_vars
    PROVE  FlowInv'
  <1>1. CASE Open
    BY <1>1, SalesRoutesKeep, InvoiceRoutesKeep, PurchaseRoutesKeep DEF Open
  <1>2. CASE Call
    BY <1>2, SalesRoutesKeep, InvoiceRoutesKeep, PurchaseRoutesKeep DEF Call
  <1>3. ASSUME NEW lines \in Entries, PostJournalEntry(lines) PROVE FlowInv'
    BY <1>3, PostJournalEntryKeeps
  <1>4. ASSUME NEW p \in Purchases, CreateFails(p) \/ CreateReplies(p) PROVE FlowInv'
    BY <1>4, RouteEndKeeps
  <1>5. ASSUME NEW envelope \in inFlight, Publish(envelope) \/ PublishFails(envelope)
        PROVE  FlowInv'
    BY <1>5, PublishKeeps, PublishFailsKeeps
  <1>6. CASE Deliver
    BY <1>6, DeliverKeeps
  <1>7. CASE SagaTurn
    BY <1>7, SagaTurnKeeps
  <1>8. CASE UNCHANGED vars
    <2>1. /\ UNCHANGED <<aggregates, readModels, inFlight, creating>>
          /\ channel' = channel /\ sagaChannel' = sagaChannel
      BY <1>8 DEF vars, channels
    <2>2. FlowsTyped'
      BY <2>1 DEF FlowInv, FlowsTyped, aggregates, readModels
    <2>3. Underway' = Underway
      BY <2>1 DEF Underway
    <2>4. RoutesAdd'
      BY <2>1 DEF FlowInv, RoutesAdd, RouteAdds, aggregates
    <2> QED
      BY <2>1, <2>2, <2>3, <2>4, QuietStepKeeps
  <1> QED
    BY <1>1, <1>2, <1>3, <1>4, <1>5, <1>6, <1>7, <1>8 DEF Next

(* The inductive invariant holds in every reachable state. *)
THEOREM FlowInvariance == Spec => []FlowInv
  <1>1. Init => FlowInv
    BY InitFlows
  <1>2. FlowInv /\ [Next]_vars => FlowInv'
    BY NextFlows
  <1> QED
    BY <1>1, <1>2, PTL DEF Spec

(***************************************************************************)
(* Invoice: in whatever order payments and voids come, an invoice never    *)
(* takes more than its total, is Paid only when the total has come in, and *)
(* one still open can take the rest.                                       *)
(***************************************************************************)
THEOREM InvoicesNeverOverpaid == Spec => []PaymentsBounded
  <1>1. FlowInv => PaymentsBounded
    BY DEF FlowInv
  <1> QED
    BY <1>1, FlowInvariance, PTL

(***************************************************************************)
(* InvoicesProjection and InvoiceAgingProjection: the two reports agree on *)
(* status, total and what is outstanding, even where the loop started in   *)
(* the middle of a stream.                                                 *)
(***************************************************************************)
THEOREM ReportsAgree == Spec => []InvoiceModelsAgree
  <1>1. FlowInv => InvoiceModelsAgree
    BY DEF FlowInv
  <1> QED
    BY <1>1, FlowInvariance, PTL

(***************************************************************************)
(* The projection loop: a row that started with event 1 and has seen every *)
(* event is the aggregate as apply folds it.                               *)
(***************************************************************************)
THEOREM RowsFollowAggregates == Spec => []CaughtUpRowsMatch
  <1>1. ASSUME FlowInv PROVE CaughtUpRowsMatch
    <2>1. ASSUME NEW s \in Documents, CaughtUp(s) PROVE RowOf(s) = Decided(s)
      <3>1. PICK h : Follows(s, h)
        BY <1>1 DEF FlowInv, Followed
      <3>2. RowOf(s) = Shown(s)
        BY <2>1, <3>1 DEF CaughtUp, Follows
      <3>3. s \in Streams /\ version[s] \in Nat /\ cursor[s] = version[s] /\ first[s] = 1
        BY <1>1, <2>1, OneKind DEF CaughtUp, FlowInv, FlowsTyped
      <3>4. version[s] # 0
        BY <1>1, <3>3 DEF FlowInv, CursorsTogether
      <3> QED
        BY <3>2, <3>4 DEF Shown
    <2>2. ASSUME NEW o \in Orders, CaughtUp(o)
          PROVE  salesRows[o] = [status |-> orders[o].status, lines |-> orders[o].lines]
      BY <2>1, <2>2, OneKind DEF RowOf, Decided
    <2>3. ASSUME NEW p \in Purchases, CaughtUp(p)
          PROVE  purchaseRows[p] = [status |-> purchases[p].status, lines |-> purchases[p].lines]
      BY <2>1, <2>3, OneKind DEF RowOf, Decided
    <2>4. ASSUME NEW i \in Invoices, CaughtUp(i)
          PROVE  invoiceRows[i] = [status |-> invoices[i].status, total |-> invoices[i].total,
                                   paid |-> invoices[i].paid]
      BY <2>1, <2>4, OneKind DEF RowOf, Decided
    <2> QED
      BY <2>2, <2>3, <2>4 DEF CaughtUpRowsMatch
  <1> QED
    BY <1>1, FlowInvariance, PTL

(***************************************************************************)
(* create_purchase_order: after 201 the order has the lines of the request *)
(* in their order; after an error it exists and has as many of the first   *)
(* ones as the route appended, the one that could not be published too.    *)
(***************************************************************************)
THEOREM AnsweredOrdersComplete == Spec => []CreatedIsComplete
  <1>1. ASSUME FlowInv PROVE CreatedIsComplete
    <2> SUFFICES ASSUME NEW p \in Purchases
                 PROVE  /\ creating[p].stage = "created" =>
                              HasLines(purchases[p].lines, creating[p].body, Len(creating[p].body))
                        /\ creating[p].stage = "error" =>
                              /\ purchases[p].created
                              /\ HasLines(purchases[p].lines, creating[p].body, creating[p].added)
      BY DEF CreatedIsComplete
    <2>1. RouteAdds(p)
      BY <1>1 DEF FlowInv, RoutesAdd
    <2>2. creating[p].stage = "created" => creating[p].added = Len(creating[p].body)
      BY <2>1 DEF RouteAdds
    <2> QED
      BY <2>1, <2>2 DEF RouteAdds
  <1> QED
    BY <1>1, FlowInvariance, PTL

-----------------------------------------------------------------------------
(* Induction over numbers and over finite sets: a nonempty set of numbers  *)
(* has a least one, so no counterexample can be least.                     *)

(* Every nonempty set of numbers has a least member. *)
LEMMA LeastNumber ==
    ASSUME NEW T \in SUBSET Nat, T # {}
    PROVE  \E n \in T : \A m \in T : n <= m
  <1>1. PICK n \in T : \A m \in T : ~(<<m, n>> \in OpToRel(<, Nat))
    BY NatLessThanWellFounded, WFMin
  <1>2. \A m \in T : ~(m < n)
    BY <1>1 DEF OpToRel
  <1>3. \A m \in T : n <= m
    BY <1>2
  <1> QED
    BY <1>3

(* A family of subsets that has the empty set, and for every other set has *)
(* it if it has the set without some member.                               *)
Hereditary(Good, S) ==
    /\ {} \in Good
    /\ \A s \in SUBSET S : s # {} => \E x \in s : s \ {x} \in Good => s \in Good

(* A choice of a member of every subset, and a way to count it in. *)
Picks(pick, S) == \A s \in SUBSET S : s # {} => pick[s] \in s
Steps(step, S, V) == \A x \in S : \A v \in V : step[<<x, v>>] \in V
Recurs(g, S, base, pick, step) ==
    \A s \in SUBSET S : g[s] = IF s = {} THEN base ELSE step[<<pick[s], g[s \ {pick[s]}]>>]

(* A family of subsets of a finite set that has the empty set, and with    *)
(* every other set's some smaller one the set itself, has them all.        *)
LEMMA SubsetInduction ==
    ASSUME NEW S, IsFiniteSet(S), NEW Good, Hereditary(Good, S)
    PROVE  SUBSET S \subseteq Good
  <1>0. \A s \in SUBSET S : IsFiniteSet(s) /\ Cardinality(s) \in Nat
    BY FS_Subset, FS_CardinalityType
  <1> SUFFICES ASSUME NEW b \in SUBSET S, b \notin Good PROVE FALSE
    OBVIOUS
  <1> DEFINE T == {Cardinality(s) : s \in {t \in SUBSET S : t \notin Good}}
  <1>1. T \in SUBSET Nat /\ T # {}
    BY <1>0
  <1>2. PICK n \in T : \A m \in T : n <= m
    BY <1>1, LeastNumber
  <1>3. PICK s \in SUBSET S : s \notin Good /\ n = Cardinality(s)
    BY <1>2
  <1>4. s # {}
    BY <1>3 DEF Hereditary
  <1>5. PICK x \in s : s \ {x} \in Good => s \in Good
    BY <1>4 DEF Hereditary
  <1>6. s \ {x} \in SUBSET S /\ s \ {x} \notin Good
    BY <1>3, <1>5
  <1>7. Cardinality(s \ {x}) = Cardinality(s) - 1
    BY <1>0, FS_RemoveElement
  <1>8. Cardinality(s \ {x}) \in T
    BY <1>6
  <1> HIDE DEF T
  <1>9. n \in Nat /\ n <= Cardinality(s \ {x})
    BY <1>1, <1>2, <1>8
  <1> QED
    BY <1>3, <1>7, <1>9



(* Recursion over the subsets of a finite set: what is taken away from a   *)
(* set first, and how it counts, determine a function.                     *)
LEMMA SubsetRecursion ==
    ASSUME NEW S, IsFiniteSet(S), NEW V, NEW base \in V,
           NEW pick, Picks(pick, S),
           NEW step, Steps(step, S, V)
    PROVE  \E g \in [SUBSET S -> V] : Recurs(g, S, base, pick, step)
  <1> DEFINE Again(g) == [s \in SUBSET S |->
                            IF s = {} THEN base ELSE step[<<pick[s], g[s \ {pick[s]}]>>]]
             Right(n) == {g \in [SUBSET S -> V] :
                             \A s \in SUBSET S : Cardinality(s) < n => g[s] = Again(g)[s]}
  <1>0. \A s \in SUBSET S : IsFiniteSet(s) /\ Cardinality(s) \in Nat
    BY FS_Subset, FS_CardinalityType
  <1>1. \A g \in [SUBSET S -> V] : Again(g) \in [SUBSET S -> V]
    BY DEF Picks, Steps
  <1>2. ASSUME NEW n \in Nat, NEW g \in Right(n) PROVE Again(g) \in Right(n + 1)
    <2>1. g \in [SUBSET S -> V] /\ \A s \in SUBSET S : Cardinality(s) < n => g[s] = Again(g)[s]
      OBVIOUS
    <2>2. ASSUME NEW s \in SUBSET S, Cardinality(s) < n + 1, s # {}
          PROVE  g[s \ {pick[s]}] = Again(g)[s \ {pick[s]}]
      <3>1. pick[s] \in s /\ s \ {pick[s]} \in SUBSET S
        BY <2>2 DEF Picks
      <3>2. Cardinality(s \ {pick[s]}) = Cardinality(s) - 1
        BY <1>0, <3>1, FS_RemoveElement
      <3>3. Cardinality(s \ {pick[s]}) < n
        BY <1>0, <2>2, <3>2
      <3> QED
        BY <2>1, <3>1, <3>3
    <2>3. ASSUME NEW s \in SUBSET S, Cardinality(s) < n + 1
          PROVE  Again(g)[s] = Again(Again(g))[s]
      <3>1. CASE s = {}
        BY <3>1
      <3>2. CASE s # {}
        <4>1. Again(g)[s] = step[<<pick[s], g[s \ {pick[s]}]>>]
          BY <3>2
        <4>2. Again(Again(g))[s] = step[<<pick[s], Again(g)[s \ {pick[s]}]>>]
          BY <3>2
        <4> HIDE DEF Again
        <4> QED
          BY <2>2, <2>3, <3>2, <4>1, <4>2
      <3> QED
        BY <3>1, <3>2
    <2> HIDE DEF Again
    <2> QED
      BY <1>1, <2>1, <2>3
  <1>3. \A n \in Nat : Right(n) # {}
    <2> SUFFICES ASSUME NEW b \in Nat, Right(b) = {} PROVE FALSE
      OBVIOUS
    <2> DEFINE T == {n \in Nat : Right(n) = {}}
    <2>1. PICK n \in T : \A m \in T : n <= m
      <3> HIDE DEF Right
      <3>1. T \in SUBSET Nat /\ T # {}
        OBVIOUS
      <3> QED
        BY <3>1, LeastNumber
    <2>2. [s \in SUBSET S |-> base] \in Right(0)
      BY <1>0
    <2> HIDE DEF Right
    <2>3. n \in Nat /\ n # 0 /\ Right(n) = {}
      BY <2>1, <2>2
    <2>4. n - 1 \in Nat /\ n - 1 \notin T
      BY <2>1, <2>3
    <2>5. PICK g : g \in Right(n - 1)
      BY <2>4
    <2>6. Again(g) \in Right((n - 1) + 1)
      BY <1>2, <2>4, <2>5
    <2> QED
      BY <2>3, <2>6
  <1>4. PICK g : g \in Right(Cardinality(S) + 1)
    <2> HIDE DEF Right
    <2>1. Cardinality(S) + 1 \in Nat
      BY <1>0
    <2> QED
      BY <1>3, <2>1
  <1>5. \A s \in SUBSET S : Cardinality(s) < Cardinality(S) + 1
    BY <1>0, FS_Subset
  <1>6. g \in [SUBSET S -> V] /\ \A s \in SUBSET S : g[s] = Again(g)[s]
    <2> HIDE DEF Again
    <2> QED
      BY <1>4, <1>5
  <1> QED
    BY <1>6 DEF Recurs

(* The sums of a function over the subsets of a set. *)
Sums(g, f, S) ==
    /\ g \in [SUBSET S -> Int]
    /\ g[{}] = 0
    /\ \A s \in SUBSET S : s # {} =>
           g[s] = f[CHOOSE x \in s : TRUE] + g[s \ {CHOOSE x \in s : TRUE}]

(* A sum is the last value of a function on the subsets of the set. *)
LEMMA SumUnfolds ==
    ASSUME NEW S, IsFiniteSet(S), NEW f, \A x \in S : f[x] \in Int
    PROVE  \E g : Sums(g, f, S) /\ SumOf(f, S) = g[S]
  <1> DEFINE pick == [s \in SUBSET S |-> CHOOSE x \in s : TRUE]
             step == [p \in S \X Int |-> f[p[1]] + p[2]]
             Rec(g) == [s \in SUBSET S |->
                           IF s = {} THEN 0
                           ELSE f[CHOOSE x \in s : TRUE] + g[s \ {CHOOSE x \in s : TRUE}]]
             sum == CHOOSE g : g = Rec(g)
  <1>0. \A s \in SUBSET S : s # {} => /\ (CHOOSE x \in s : TRUE) \in s
                                      /\ s \ {CHOOSE x \in s : TRUE} \in SUBSET S
    OBVIOUS
  <1>1. \A s \in SUBSET S : s # {} => pick[s] \in s /\ pick[s] = CHOOSE x \in s : TRUE
    BY <1>0
  <1>2. \A x \in S : \A v \in Int : step[<<x, v>>] \in Int /\ step[<<x, v>>] = f[x] + v
    OBVIOUS
  <1>3. PICK g \in [SUBSET S -> Int] : Recurs(g, S, 0, pick, step)
    <2> HIDE DEF pick, step
    <2>1. Picks(pick, S) /\ Steps(step, S, Int) /\ 0 \in Int
      BY <1>1, <1>2 DEF Picks, Steps
    <2> QED
      BY <2>1, SubsetRecursion
  <1>4. g = Rec(g)
    <2>1. ASSUME NEW s \in SUBSET S PROVE g[s] = Rec(g)[s]
      <3> HIDE DEF pick, step
      <3>1. CASE s = {}
        BY <1>3, <3>1 DEF Recurs
      <3>2. CASE s # {}
        <4> DEFINE x == CHOOSE y \in s : TRUE
        <4>1. pick[s] = x /\ x \in S /\ s \ {x} \in SUBSET S
          BY <1>0, <1>1, <3>2
        <4>2. g[s] = step[<<x, g[s \ {x}]>>]
          BY <1>3, <3>2, <4>1 DEF Recurs
        <4>3. g[s] = f[x] + g[s \ {x}]
          BY <1>2, <4>1, <4>2
        <4> QED
          BY <3>2, <4>3
      <3> QED
        BY <3>1, <3>2
    <2> QED
      BY <2>1
  <1>5. sum = Rec(sum)
    <2> HIDE DEF Rec
    <2> QED
      BY <1>4
  <1>6. \A s \in SUBSET S :
            sum[s] = IF s = {} THEN 0
                     ELSE f[CHOOSE x \in s : TRUE] + sum[s \ {CHOOSE x \in s : TRUE}]
    <2> HIDE DEF sum
    <2> QED
      BY <1>5
  <1>7. SumOf(f, S) = sum[S]
    BY Zenon DEF SumOf, MapThenSumSet, MapThenFoldSet
  <1> HIDE DEF sum
  <1> DEFINE Good == {s \in SUBSET S : sum[s] \in Int}
  <1>8. SUBSET S \subseteq Good
    <2>1. {} \in Good
      <3>1. sum[{}] = 0
        BY <1>6
      <3> QED
        BY <3>1
    <2>2. ASSUME NEW s \in SUBSET S, s # {}
          PROVE  \E x \in s : s \ {x} \in Good => s \in Good
      <3> DEFINE x == CHOOSE y \in s : TRUE
      <3>1. sum[s] = f[x] + sum[s \ {x}] /\ x \in s
        BY <1>0, <1>6, <2>2
      <3> HIDE DEF x
      <3>2. s \ {x} \in Good => s \in Good
        BY <3>1
      <3> QED
        BY <3>1, <3>2
    <2> HIDE DEF Good
    <2>3. Hereditary(Good, S)
      BY <2>1, <2>2 DEF Hereditary
    <2> QED
      BY <2>3, SubsetInduction
  <1>9. sum \in [SUBSET S -> Int]
    BY <1>5, <1>8
  <1> QED
    BY <1>6, <1>7, <1>9 DEF Sums

(* A summand that changes changes the sum by as much. *)
LEMMA SumChanges ==
    ASSUME NEW S, IsFiniteSet(S), NEW f, \A x \in S : f[x] \in Int,
           NEW h, \A x \in S : h[x] \in Int,
           NEW a \in S, \A x \in S : x # a => h[x] = f[x]
    PROVE  SumOf(f, S) \in Int /\ SumOf(h, S) = SumOf(f, S) + h[a] - f[a]
  <1>1. PICK F : Sums(F, f, S) /\ SumOf(f, S) = F[S]
    BY SumUnfolds
  <1>2. PICK H : Sums(H, h, S) /\ SumOf(h, S) = H[S]
    BY SumUnfolds
  <1> DEFINE Good == {s \in SUBSET S : H[s] = F[s] + (IF a \in s THEN h[a] - f[a] ELSE 0)}
  <1>3. {} \in Good
    BY <1>1, <1>2 DEF Sums
  <1>4. ASSUME NEW s \in SUBSET S, s # {}
        PROVE  \E x \in s : s \ {x} \in Good => s \in Good
    <2> DEFINE x == CHOOSE y \in s : TRUE
    <2>1. x \in s /\ F[s] = f[x] + F[s \ {x}] /\ H[s] = h[x] + H[s \ {x}]
      BY <1>1, <1>2, <1>4 DEF Sums
    <2> HIDE DEF x
    <2>2. s \ {x} \in SUBSET S /\ F[s \ {x}] \in Int
      BY <1>1 DEF Sums
    <2>3. ASSUME s \ {x} \in Good PROVE s \in Good
      <3>1. H[s \ {x}] = F[s \ {x}] + (IF a \in s \ {x} THEN h[a] - f[a] ELSE 0)
        BY <2>3
      <3>2. CASE x = a
        BY <2>1, <2>2, <3>1, <3>2
      <3>3. CASE x # a
        <4>1. h[x] = f[x] /\ f[x] \in Int /\ (a \in s \ {x} <=> a \in s)
          BY <2>1, <3>3
        <4> QED
          BY <2>1, <2>2, <3>1, <4>1
      <3> QED
        BY <3>2, <3>3
    <2> QED
      BY <2>1, <2>3
  <1>5. S \in Good
    <2> HIDE DEF Good
    <2>1. Hereditary(Good, S)
      BY <1>3, <1>4 DEF Hereditary
    <2> QED
      BY <2>1, SubsetInduction
  <1> QED
    BY <1>1, <1>2, <1>5 DEF Sums

(* Nothing adds up to nothing. *)
LEMMA SumOfZeros ==
    ASSUME NEW S, IsFiniteSet(S), NEW f, \A x \in S : f[x] = 0
    PROVE  SumOf(f, S) = 0
  <1>1. PICK F : Sums(F, f, S) /\ SumOf(f, S) = F[S]
    BY SumUnfolds
  <1> DEFINE Good == {s \in SUBSET S : F[s] = 0}
  <1>3. {} \in Good
    BY <1>1 DEF Sums
  <1>4. ASSUME NEW s \in SUBSET S, s # {}
        PROVE  \E x \in s : s \ {x} \in Good => s \in Good
    <2> DEFINE x == CHOOSE y \in s : TRUE
    <2>1. x \in s /\ F[s] = f[x] + F[s \ {x}] 
      BY <1>1, <1>4 DEF Sums
    <2> HIDE DEF x
    <2>2. s \ {x} \in Good => s \in Good
      BY <2>1
    <2> QED
      BY <2>1, <2>2
  <1>5. S \in Good
    <2> HIDE DEF Good
    <2>1. Hereditary(Good, S)
      BY <1>3, <1>4 DEF Hereditary
    <2> QED
      BY <2>1, SubsetInduction
  <1> QED
    BY <1>1, <1>5

(* A set of numbers that has zero and with each number the next. *)
Climbs(Good, n) == 0 \in Good /\ \A i \in 1 .. n : i - 1 \in Good => i \in Good

(* Such a set has every number up to the last. *)
LEMMA Climbing ==
    ASSUME NEW n \in Nat, NEW Good, Climbs(Good, n)
    PROVE  0 .. n \subseteq Good
  <1> SUFFICES ASSUME NEW b \in 0 .. n, b \notin Good PROVE FALSE
    OBVIOUS
  <1> DEFINE T == {i \in 0 .. n : i \notin Good}
  <1>1. T \in SUBSET Nat /\ T # {}
    OBVIOUS
  <1>2. PICK i \in T : \A m \in T : i <= m
    BY <1>1, LeastNumber
  <1>3. i \in 1 .. n /\ i - 1 \in 0 .. n /\ i \notin Good
    BY <1>2 DEF Climbs
  <1>4. i - 1 \in Good
    BY <1>2, <1>3
  <1> QED
    BY <1>3, <1>4 DEF Climbs

(* A sum of integers is one. *)
LEMMA SumTyped ==
    ASSUME NEW S, IsFiniteSet(S), NEW f, \A x \in S : f[x] \in Int
    PROVE  SumOf(f, S) \in Int
  <1>1. PICK F : Sums(F, f, S) /\ SumOf(f, S) = F[S]
    BY SumUnfolds
  <1> QED
    BY <1>1 DEF Sums

(* The largest member of a set of numbers. *)
LEMMA Largest ==
    ASSUME NEW n \in Nat, NEW s \in SUBSET (1 .. n), s # {}
    PROVE  Max(s) \in s /\ \A y \in s : Max(s) >= y
  <1> DEFINE T == {n - x : x \in s}
  <1>1. T \in SUBSET Nat /\ T # {}
    <2>1. \A x \in s : n - x \in Nat
      OBVIOUS
    <2> QED
      BY <2>1
  <1>2. PICK d \in T : \A m \in T : d <= m
    BY <1>1, LeastNumber
  <1>3. PICK x \in s : d = n - x
    BY <1>2
  <1>4. ASSUME NEW y \in s PROVE x >= y
    <2>1. d <= n - y
      BY <1>2
    <2> QED
      BY <1>3, <2>1
  <1>5. \E z \in s : \A y \in s : z >= y
    BY <1>4
  <1> QED
    BY <1>5 DEF Max

(* What a fold has come to after each place. *)
Stages(h, n, V, base, step) ==
    /\ h \in [0 .. n -> V] /\ h[0] = base
    /\ \A i \in 1 .. n : h[i] = step[<<i, h[i - 1]>>]

(* A function on the places of a list that follows the steps. *)
FoldsBy(g, n, V, base, step) ==
    /\ g[{}] = base
    /\ \A s \in SUBSET (1 .. n) :
           s # {} /\ g[s \ {Max(s)}] \in V => g[s] = step[<<Max(s), g[s \ {Max(s)}]>>]

(* There is a function that follows the steps of a list. *)
LEMMA FoldExists ==
    ASSUME NEW n \in Nat, NEW V, NEW base \in V, NEW step, Steps(step, 1 .. n, V)
    PROVE  \E g : g \in [SUBSET (1 .. n) -> V] /\ FoldsBy(g, n, V, base, step)
  <1> DEFINE S == 1 .. n
             pick == [s \in SUBSET S |-> Max(s)]
  <1>1. IsFiniteSet(S)
    BY FS_Interval
  <1>2. Picks(pick, S)
    BY Largest DEF Picks
  <1>3. PICK g \in [SUBSET S -> V] : Recurs(g, S, base, pick, step)
    <2> HIDE DEF S, pick
    <2>1. Steps(step, S, V)
      BY DEF S
    <2> QED
      BY <1>1, <1>2, <2>1, SubsetRecursion
  <1> QED
    BY <1>3 DEF Recurs, FoldsBy

(* A fold over a list is the last value of that function. *)
LEMMA FoldStages ==
    ASSUME NEW n \in Nat, NEW V, NEW base \in V, NEW step, Steps(step, 1 .. n, V),
           NEW g, FoldsBy(g, n, V, base, step)
    PROVE  \E h : Stages(h, n, V, base, step) /\ h[n] = g[1 .. n]
  <1> DEFINE h == [i \in 0 .. n |-> g[1 .. i]]
  <1>1. ASSUME NEW i \in 1 .. n, g[1 .. i - 1] \in V
        PROVE  g[1 .. i] = step[<<i, g[1 .. i - 1]>>]
    <2>1. 1 .. i \in SUBSET (1 .. n) /\ i \in 1 .. i
      <3>1. i \in Nat /\ 1 <= i /\ i <= n
        OBVIOUS
      <3>2. \A j \in 1 .. i : j \in 1 .. n
        BY <3>1
      <3> QED
        BY <3>1, <3>2
    <2>2. Max(1 .. i) = i
      <3>1. 1 .. i # {}
        BY <2>1
      <3>2. Max(1 .. i) \in 1 .. i /\ Max(1 .. i) >= i
        BY <2>1, <3>1, Largest
      <3> QED
        BY <3>2
    <2>3. (1 .. i) \ {i} = 1 .. i - 1
      OBVIOUS
    <2> QED
      BY <1>1, <2>1, <2>2, <2>3, Zenon DEF FoldsBy
  <1>2. \A i \in 0 .. n : g[1 .. i] \in V
    <2> DEFINE Good == {i \in 0 .. n : g[1 .. i] \in V}
    <2>1. 0 \in Good
      <3>1. 1 .. 0 = {}
        OBVIOUS
      <3> QED
        BY <3>1 DEF FoldsBy
    <2>2. ASSUME NEW i \in 1 .. n, i - 1 \in Good PROVE i \in Good
      <3>1. g[1 .. i - 1] \in V /\ i \in 0 .. n
        BY <2>2
      <3>2. g[1 .. i] = step[<<i, g[1 .. i - 1]>>]
        BY <1>1, <3>1
      <3> QED
        BY <3>1, <3>2 DEF Steps
    <2> HIDE DEF Good
    <2>3. Climbs(Good, n)
      BY <2>1, <2>2 DEF Climbs
    <2>4. 0 .. n \subseteq Good
      BY <2>3, Climbing
    <2> QED
      BY <2>4 DEF Good
  <1>3. h[0] = base
    <2>1. 1 .. 0 = {}
      OBVIOUS
    <2> QED
      BY <2>1 DEF FoldsBy
  <1>4. \A i \in 1 .. n : h[i] = step[<<i, h[i - 1]>>]
    BY <1>1, <1>2
  <1>5. h \in [0 .. n -> V] /\ h[n] = g[1 .. n]
    BY <1>2
  <1> HIDE DEF h
  <1> QED
    BY <1>3, <1>4, <1>5 DEF Stages



(* One line counted in, as a function of its place and the sum before it. *)
SideStep(lines, debit) ==
    [p \in (1 .. Len(lines)) \X Int |->
        IF lines[p[1]].debit = debit THEN p[2] + lines[p[1]].amount ELSE p[2]]

(* The total of a side of an entry is the last of the sums after each      *)
(* line.                                                                   *)
LEMMA SideStages ==
    ASSUME NEW A, NEW lines \in Seq(EntryLine(A)), NEW debit
    PROVE  \E h : /\ Stages(h, Len(lines), Int, 0, SideStep(lines, debit))
                  /\ h[Len(lines)] = SideTotal(lines, debit)
  <1> DEFINE n == Len(lines)
             V == Int
             step == SideStep(lines, debit)
             Counted(i, v) == IF lines[i].debit = debit THEN v + lines[i].amount ELSE v
             Rec(g) == [s \in SUBSET DOMAIN lines |->
                           IF s = {} THEN 0 ELSE Counted(Max(s), g[s \ {Max(s)}])]
             fold == CHOOSE g : g = Rec(g)
  <1>1. n \in Nat /\ DOMAIN lines = 1 .. n /\ \A i \in 1 .. n : lines[i].amount \in Int
    <2>1. n \in Nat /\ DOMAIN lines = 1 .. n /\ \A i \in 1 .. n : lines[i] \in EntryLine(A)
      OBVIOUS
    <2> QED
      BY <2>1 DEF EntryLine
  <1>2. \A i \in 1 .. n : \A v \in V : step[<<i, v>>] \in V /\ step[<<i, v>>] = Counted(i, v)
    BY <1>1 DEF SideStep
  <1>3. SideTotal(lines, debit) = fold[DOMAIN lines]
    BY Zenon DEF SideTotal, FoldLeft, MapThenFoldSet
  <1> HIDE DEF n, V, step, Counted
  <1>4. Steps(step, 1 .. n, V)
    BY <1>2 DEF Steps
  <1>5. 0 \in V
    BY DEF V
  <1>6. PICK g : g \in [SUBSET (1 .. n) -> V] /\ FoldsBy(g, n, V, 0, step)
    BY <1>1, <1>4, <1>5, FoldExists
  <1>7. \A s \in SUBSET (1 .. n) : s # {} => Max(s) \in 1 .. n /\ s \ {Max(s)} \in SUBSET (1 .. n)
    BY <1>1, Largest
  <1>8. g = Rec(g)
    <2>1. ASSUME NEW s \in SUBSET (1 .. n) PROVE g[s] = Rec(g)[s]
      BY <1>1, <1>2, <1>6, <1>7 DEF FoldsBy
    <2> QED
      BY <1>1, <1>6, <2>1
  <1>9. fold = Rec(fold)
    <2> HIDE DEF Rec
    <2> QED
      BY <1>8
  <1> HIDE DEF fold
  <1>10. FoldsBy(fold, n, V, 0, step)
    <2>1. \A s \in SUBSET (1 .. n) : fold[s] = Rec(fold)[s]
      BY <1>9
    <2> QED
      BY <1>1, <1>2, <1>7, <2>1 DEF FoldsBy
  <1>11. \E h : Stages(h, n, V, 0, step) /\ h[n] = fold[1 .. n]
    BY <1>1, <1>4, <1>5, <1>10, FoldStages
  <1>12. fold[1 .. n] = SideTotal(lines, debit)
    BY <1>1, <1>3
  <1> QED
    BY <1>11, <1>12 DEF n, step, V

(* One line posted, as a function of its place and the balances before it. *)
Posted(b, line) ==
    [b EXCEPT ![line.account] = @ + (IF line.debit THEN line.amount ELSE -line.amount)]
PostStep(lines, A) == [p \in (1 .. Len(lines)) \X [A -> Int] |-> Posted(p[2], lines[p[1]])]

(* The balances after an entry are the last of those after each line. *)
LEMMA BalanceStages ==
    ASSUME NEW A, NEW lines \in Seq(EntryLine(A)), NEW b \in [A -> Int]
    PROVE  \E h : /\ Stages(h, Len(lines), [A -> Int], b, PostStep(lines, A))
                  /\ h[Len(lines)] = BalancesAfter(b, lines)
  <1> DEFINE n == Len(lines)
             V == [A -> Int]
             step == PostStep(lines, A)
             Rec(g) == [s \in SUBSET DOMAIN lines |->
                           IF s = {} THEN b ELSE Posted(g[s \ {Max(s)}], lines[Max(s)])]
             fold == CHOOSE g : g = Rec(g)
  <1>1. n \in Nat /\ DOMAIN lines = 1 .. n /\ \A i \in 1 .. n : lines[i] \in EntryLine(A)
    OBVIOUS
  <1>2. \A i \in 1 .. n : \A v \in V : step[<<i, v>>] \in V /\ step[<<i, v>>] = Posted(v, lines[i])
    <2>1. ASSUME NEW i \in 1 .. n, NEW v \in V PROVE Posted(v, lines[i]) \in V
      <3>1. lines[i] \in EntryLine(A)
        BY <1>1
      <3>2. (IF lines[i].debit THEN lines[i].amount ELSE -lines[i].amount) \in Int
        BY <3>1 DEF EntryLine
      <3>3. lines[i].account \in A
        BY <3>1 DEF EntryLine
      <3> QED
        BY <3>2, <3>3 DEF Posted
    <2> QED
      BY <2>1 DEF PostStep
  <1>3. BalancesAfter(b, lines) = fold[DOMAIN lines]
    BY Zenon DEF BalancesAfter, FoldLeft, MapThenFoldSet, Posted
  <1> HIDE DEF n, V, step
  <1>4. Steps(step, 1 .. n, V)
    BY <1>2 DEF Steps
  <1>5. b \in V
    BY DEF V
  <1>6. PICK g : g \in [SUBSET (1 .. n) -> V] /\ FoldsBy(g, n, V, b, step)
    BY <1>1, <1>4, <1>5, FoldExists
  <1>7. \A s \in SUBSET (1 .. n) : s # {} => Max(s) \in 1 .. n /\ s \ {Max(s)} \in SUBSET (1 .. n)
    BY <1>1, Largest
  <1>8. g = Rec(g)
    <2>1. ASSUME NEW s \in SUBSET (1 .. n) PROVE g[s] = Rec(g)[s]
      BY <1>1, <1>2, <1>6, <1>7 DEF FoldsBy
    <2> QED
      BY <1>1, <1>6, <2>1
  <1>9. fold = Rec(fold)
    <2> HIDE DEF Rec
    <2> QED
      BY <1>8
  <1> HIDE DEF fold
  <1>10. FoldsBy(fold, n, V, b, step)
    <2>1. \A s \in SUBSET (1 .. n) : fold[s] = Rec(fold)[s]
      BY <1>9
    <2> QED
      BY <1>1, <1>2, <1>7, <2>1 DEF FoldsBy
  <1>11. \E h : Stages(h, n, V, b, step) /\ h[n] = fold[1 .. n]
    BY <1>1, <1>4, <1>5, <1>10, FoldStages
  <1>12. fold[1 .. n] = BalancesAfter(b, lines)
    BY <1>1, <1>3
  <1> QED
    BY <1>11, <1>12 DEF n, step, V

(* One line moves the sum of all balances by its amount. *)
LEMMA LineMovesSum ==
    ASSUME NEW A, IsFiniteSet(A), NEW line \in EntryLine(A), NEW b \in [A -> Int]
    PROVE  /\ SumOf(b, A) \in Int
           /\ SumOf(Posted(b, line), A)
                = SumOf(b, A) + (IF line.debit THEN line.amount ELSE -line.amount)
  <1> DEFINE a == line.account
             m == IF line.debit THEN line.amount ELSE -line.amount
             c == Posted(b, line)
  <1>1. a \in A /\ m \in Int
    BY DEF EntryLine
  <1>2. c = [b EXCEPT ![a] = b[a] + m]
    BY DEF Posted
  <1> HIDE DEF a, m, c
  <1>3. /\ c[a] = b[a] + m
        /\ \A x \in A : x # a => c[x] = b[x]
        /\ \A x \in A : c[x] \in Int
        /\ \A x \in A : b[x] \in Int
    BY <1>1, <1>2
  <1>4. SumOf(b, A) \in Int /\ SumOf(c, A) = SumOf(b, A) + c[a] - b[a]
    BY <1>1, <1>3, SumChanges
  <1>5. SumOf(b, A) \in Int /\ SumOf(c, A) = SumOf(b, A) + m
    BY <1>1, <1>3, <1>4
  <1> QED
    BY <1>5 DEF c, m

(* Posting adds to the sum of all balances what the entry debits and takes *)
(* off what it credits.                                                    *)
LEMMA PostingMovesSum ==
    ASSUME NEW A, IsFiniteSet(A), NEW lines \in Seq(EntryLine(A)), NEW b \in [A -> Int]
    PROVE  /\ BalancesAfter(b, lines) \in [A -> Int]
           /\ SideTotal(lines, TRUE) \in Int /\ SideTotal(lines, FALSE) \in Int
           /\ SumOf(BalancesAfter(b, lines), A)
                = SumOf(b, A) + SideTotal(lines, TRUE) - SideTotal(lines, FALSE)
  <1> DEFINE n == Len(lines)
  <1>1. PICK h : Stages(h, n, [A -> Int], b, PostStep(lines, A)) /\ h[n] = BalancesAfter(b, lines)
    BY BalanceStages
  <1>2. PICK d : Stages(d, n, Int, 0, SideStep(lines, TRUE)) /\ d[n] = SideTotal(lines, TRUE)
    BY SideStages
  <1>3. PICK c : Stages(c, n, Int, 0, SideStep(lines, FALSE)) /\ c[n] = SideTotal(lines, FALSE)
    BY SideStages
  <1>4. n \in Nat /\ \A i \in 1 .. n : lines[i] \in EntryLine(A)
    OBVIOUS
  <1>5. ASSUME NEW i \in 1 .. n
        PROVE  /\ h[i] \in [A -> Int] /\ h[i - 1] \in [A -> Int] /\ h[i] = Posted(h[i - 1], lines[i])
               /\ d[i - 1] \in Int /\ c[i - 1] \in Int
               /\ d[i] = IF lines[i].debit = TRUE THEN d[i - 1] + lines[i].amount ELSE d[i - 1]
               /\ c[i] = IF lines[i].debit = FALSE THEN c[i - 1] + lines[i].amount ELSE c[i - 1]
    <2>1. i \in 0 .. n /\ i - 1 \in 0 .. n
      BY <1>4
    <2>2. h[i] \in [A -> Int] /\ h[i - 1] \in [A -> Int] /\ d[i - 1] \in Int /\ c[i - 1] \in Int
      BY <1>1, <1>2, <1>3, <2>1 DEF Stages
    <2>3. h[i] = PostStep(lines, A)[<<i, h[i - 1]>>]
      BY <1>1 DEF Stages
    <2>4. d[i] = SideStep(lines, TRUE)[<<i, d[i - 1]>>]
      BY <1>2 DEF Stages
    <2>5. c[i] = SideStep(lines, FALSE)[<<i, c[i - 1]>>]
      BY <1>3 DEF Stages
    <2>6. h[i] = Posted(h[i - 1], lines[i])
      BY <2>2, <2>3 DEF PostStep
    <2> QED
      BY <2>2, <2>4, <2>5, <2>6 DEF SideStep

  <1> DEFINE Even == {i \in 0 .. n : SumOf(h[i], A) = SumOf(b, A) + d[i] - c[i]}
  <1>6. ASSUME NEW i \in 1 .. n, i - 1 \in Even PROVE i \in Even
    <2>1. lines[i] \in EntryLine(A)
      BY <1>4
    <2>2. /\ SumOf(h[i - 1], A) \in Int
          /\ SumOf(h[i], A) = SumOf(h[i - 1], A)
                                + (IF lines[i].debit THEN lines[i].amount ELSE -lines[i].amount)
      <3>1. h[i - 1] \in [A -> Int] /\ h[i] = Posted(h[i - 1], lines[i])
        BY <1>5
      <3> QED
        BY <2>1, <3>1, LineMovesSum
    <2>3. lines[i].amount \in Int /\ lines[i].debit \in BOOLEAN
      BY <2>1 DEF EntryLine
    <2>4. SumOf(h[i - 1], A) = SumOf(b, A) + d[i - 1] - c[i - 1] /\ i \in 0 .. n
      BY <1>4, <1>6
    <2>5. SumOf(b, A) \in Int
      BY SumTyped
    <2>6. d[i - 1] \in Int /\ c[i - 1] \in Int
      BY <1>5
    <2>7. CASE lines[i].debit
      <3>1. d[i] = d[i - 1] + lines[i].amount /\ c[i] = c[i - 1]
        BY <1>5, <2>3, <2>7
      <3> QED
        BY <2>2, <2>3, <2>4, <2>5, <2>6, <2>7, <3>1
    <2>8. CASE ~lines[i].debit
      <3>1. d[i] = d[i - 1] /\ c[i] = c[i - 1] + lines[i].amount
        BY <1>5, <2>3, <2>8
      <3> QED
        BY <2>2, <2>3, <2>4, <2>5, <2>6, <2>8, <3>1
    <2> QED
      BY <2>7, <2>8
  <1>7. 0 \in Even
    <2>1. SumOf(b, A) \in Int
      BY SumTyped
    <2>2. h[0] = b /\ d[0] = 0 /\ c[0] = 0
      BY <1>1, <1>2, <1>3 DEF Stages
    <2> QED
      BY <1>4, <2>1, <2>2
  <1>8. n \in Even
    <2> HIDE DEF Even, n
    <2>1. Climbs(Even, n)
      BY <1>6, <1>7 DEF Climbs
    <2> QED
      BY <1>4, <2>1, Climbing
  <1>9. h[n] \in [A -> Int] /\ d[n] \in Int /\ c[n] \in Int
    <2>1. n \in 0 .. n
      BY <1>4
    <2>2. h[n] \in [A -> Int]
      BY <1>1, <2>1 DEF Stages
    <2>3. d[n] \in Int
      BY <1>2, <2>1 DEF Stages
    <2>4. c[n] \in Int
      BY <1>3, <2>1 DEF Stages
    <2> QED
      BY <2>2, <2>3, <2>4
  <1>10. SumOf(h[n], A) = SumOf(b, A) + d[n] - c[n]
    BY <1>8
  <1> HIDE DEF n
  <1> QED
    BY <1>1, <1>2, <1>3, <1>9, <1>10

-----------------------------------------------------------------------------
(* The account balances. *)

(* Entries on their way are balanced, and so are the balances. *)
LedgerInv ==
    /\ balances \in [Accounts -> Int]
    /\ BalancesSumToZero
    /\ \A e \in Underway : e.stream = LedgerId => CanPost(e.event.lines)

(* A step that posts nothing. *)
LEMMA NothingPosted ==
    ASSUME LedgerInv, balances' = balances,
           \A e \in Underway' : e \in Underway \/ e.stream # LedgerId
    PROVE  LedgerInv'
  <1>1. BalancesSumToZero'
    BY DEF LedgerInv, BalancesSumToZero
  <1> QED
    BY <1>1 DEF LedgerInv

(* A dispatch to another stream. *)
LEMMA OtherDispatch ==
    ASSUME LedgerInv, NEW s \in Documents, NEW event, AppendEvent(s, event),
           UNCHANGED <<channels, readModels>>
    PROVE  LedgerInv'
  <1>1. PICK e : e = [stream |-> s, seq |-> version[s] + 1, event |-> event]
    OBVIOUS
  <1>2. inFlight' = inFlight \cup {e} /\ channel' = channel /\ balances' = balances
    BY <1>1 DEF AppendEvent, Envelope, channels, readModels
  <1>3. s # LedgerId
    BY OneKind DEF Documents
  <1>4. e.stream # LedgerId
    BY <1>1, <1>3
  <1>5. \A d \in Underway' : d \in Underway \/ d.stream # LedgerId
    BY <1>2, <1>4 DEF Underway
  <1> QED
    BY <1>2, <1>5, NothingPosted

(* The routes of the other documents do not touch the ledger. *)
LEMMA RoutesKeepLedger ==
    ASSUME LedgerInv, Open \/ Call
    PROVE  LedgerInv'
  <1>1. ASSUME NEW o \in Orders, NEW event, DispatchSales(o, event) PROVE LedgerInv'
    BY <1>1, OtherDispatch DEF DispatchSales, Documents
  <1>2. ASSUME NEW i \in Invoices, NEW event, DispatchInvoice(i, event),
               UNCHANGED <<orders, purchases, channels, readModels, creating>>
        PROVE  LedgerInv'
    BY <1>2, OtherDispatch DEF DispatchInvoice, Documents
  <1>3. ASSUME NEW p \in Purchases, NEW event, DispatchPurchase(p, event) PROVE LedgerInv'
    BY <1>3, OtherDispatch DEF DispatchPurchase, Documents
  <1>4. CASE Open
    BY <1>1, <1>2, <1>3, <1>4
       DEF Open, CreateSalesOrder, IssueInvoice, CreatePurchaseOrder
  <1>5. CASE Call
    <2>1. ASSUME NEW o \in Orders, ConfirmSalesOrder(o) \/ MarkSalesOrderInvoiced(o)
          PROVE  LedgerInv'
      BY <1>1, <2>1 DEF ConfirmSalesOrder, MarkSalesOrderInvoiced
    <2>2. ASSUME NEW o \in Orders, NEW line \in SalesLines, AddSalesOrderLine(o, line)
          PROVE  LedgerInv'
      BY <1>1, <2>2 DEF AddSalesOrderLine
    <2>3. ASSUME NEW i \in Invoices, NEW amount \in Amounts, RegisterInvoicePayment(i, amount)
          PROVE  LedgerInv'
      BY <1>2, <2>3 DEF RegisterInvoicePayment
    <2>4. ASSUME NEW i \in Invoices, VoidInvoice(i) PROVE LedgerInv'
      BY <1>2, <2>4 DEF VoidInvoice
    <2>5. ASSUME NEW p \in Purchases, CreateAddsLine(p) PROVE LedgerInv'
      BY <1>3, <2>5 DEF CreateAddsLine
    <2>6. ASSUME NEW p \in Purchases, NEW quantity \in Quantities,
                 AddPurchaseOrderLine(p, quantity)
          PROVE  LedgerInv'
      BY <1>3, <2>6 DEF AddPurchaseOrderLine
    <2>7. ASSUME NEW p \in Purchases, ApprovePurchaseOrder(p) \/ ReceivePurchaseOrderGoods(p)
          PROVE  LedgerInv'
      BY <1>3, <2>7 DEF ApprovePurchaseOrder, ReceivePurchaseOrderGoods
    <2> QED
      BY <1>5, <2>1, <2>2, <2>3, <2>4, <2>5, <2>6, <2>7 DEF Call
  <1> QED
    BY <1>4, <1>5

(* A posted entry balances, or handle() refused it. *)
LEMMA PostKeepsLedger ==
    ASSUME LedgerInv, NEW lines \in Entries, PostJournalEntry(lines)
    PROVE  LedgerInv'
  <1>1. PICK e : e = Envelope(LedgerId, [type |-> "JournalEntryPosted", lines |-> lines])
    OBVIOUS
  <1>2. e.event.lines = lines
    BY <1>1 DEF Envelope
  <1>3. /\ inFlight' = inFlight \cup {e} /\ channel' = channel /\ balances' = balances
        /\ CanPost(lines)
    BY <1>1 DEF PostJournalEntry, AppendEvent, channels, readModels
  <1>4. \A d \in Underway' : d \in Underway \/ d = e
    BY <1>3 DEF Underway
  <1>5. BalancesSumToZero'
    BY <1>3 DEF LedgerInv, BalancesSumToZero
  <1> QED
    BY <1>2, <1>3, <1>4, <1>5 DEF LedgerInv

(* A delivery posts an entry whose sides are equal, or nothing. *)
LEMMA DeliverKeepsLedger ==
    ASSUME FlowInv, LedgerInv, Deliver
    PROVE  LedgerInv'
  <1>1. channel \in Seq(Envelopes) /\ channel # <<>> /\ channel' = Tail(channel)
        /\ inFlight' = inFlight
    BY DEF FlowInv, FlowsTyped, Deliver
  <1>2. PICK e : e = Head(channel)
    OBVIOUS
  <1>3. e \in ToSet(channel) /\ ToSet(channel') \subseteq ToSet(channel)
    BY <1>1, <1>2, TailLists
  <1>4. e \in Envelopes /\ e \in Underway /\ Underway' \subseteq Underway
    BY <1>1, <1>3 DEF ToSet, Underway
  <1>5. \/ balances' = balances
        \/ e.stream = LedgerId /\ balances' = BalancesAfter(balances, e.event.lines)
    BY <1>2 DEF Deliver, Project
  <1>6. CASE balances' = balances
    BY <1>4, <1>6, NothingPosted
  <1>7. CASE e.stream = LedgerId /\ balances' = BalancesAfter(balances, e.event.lines)
    <2>1. e.event \in LedgerEvent
      BY <1>4, <1>7, EnvelopeFields, OneKind DEF EventsOf
    <2>2. e.event.lines \in Seq(EntryLine(Accounts))
      BY <2>1, OrderFlowsAssumption DEF LedgerEvent
    <2>3. CanPost(e.event.lines)
      BY <1>4, <1>7 DEF LedgerInv
    <2>4. /\ balances' \in [Accounts -> Int]
          /\ SumOf(balances', Accounts)
               = SumOf(balances, Accounts) + SideTotal(e.event.lines, TRUE)
                   - SideTotal(e.event.lines, FALSE)
          /\ SideTotal(e.event.lines, FALSE) \in Int
      BY <1>7, <2>2, PostingMovesSum, OrderFlowsAssumption DEF LedgerInv
    <2>5. SumOf(balances, Accounts) = 0
      BY DEF LedgerInv, BalancesSumToZero
    <2>6. SumOf(balances', Accounts) = 0
      <3>1. PICK x : x = SideTotal(e.event.lines, FALSE)
        OBVIOUS
      <3>2. SideTotal(e.event.lines, TRUE) = x
        BY <2>3, <3>1 DEF CanPost
      <3>3. x \in Int /\ SumOf(balances', Accounts) = 0 + x - x
        BY <2>4, <2>5, <3>1, <3>2
      <3> QED
        BY <3>3
    <2>7. BalancesSumToZero'
      BY <2>6 DEF BalancesSumToZero
    <2> QED
      BY <1>4, <2>4, <2>7 DEF LedgerInv
  <1> QED
    BY <1>5, <1>6, <1>7

(* The ledger: every step. *)
LEMMA NextLedger ==
    ASSUME FlowInv, LedgerInv, [Next]_vars
    PROVE  LedgerInv'
  <1>1. CASE Open \/ Call
    BY <1>1, RoutesKeepLedger
  <1>2. ASSUME NEW lines \in Entries, PostJournalEntry(lines) PROVE LedgerInv'
    BY <1>2, PostKeepsLedger
  <1>3. ASSUME NEW p \in Purchases, CreateFails(p) \/ CreateReplies(p) PROVE LedgerInv'
    <2>1. inFlight' = inFlight /\ channel' = channel /\ balances' = balances
      BY <1>3 DEF CreateFails, CreateReplies, channels, readModels
    <2> QED
      BY <2>1, NothingPosted DEF Underway
  <1>4. ASSUME NEW envelope \in inFlight, Publish(envelope) PROVE LedgerInv'
    <2>1. channel \in Seq(Envelopes) /\ envelope \in Envelopes
      BY DEF FlowInv, FlowsTyped
    <2>2. /\ inFlight' = inFlight \ {envelope} /\ channel' = Append(channel, envelope)
          /\ balances' = balances
      BY <1>4 DEF Publish, readModels
    <2>3. ToSet(channel') = ToSet(channel) \cup {envelope}
      BY <2>1, <2>2, AppendLists
    <2> QED
      BY <2>2, <2>3, NothingPosted DEF Underway
  <1>8. ASSUME NEW envelope \in inFlight, PublishFails(envelope) PROVE LedgerInv'
    <2>1. /\ inFlight' = inFlight \ {envelope} /\ channel' = channel /\ balances' = balances
      BY <1>8 DEF PublishFails, channels, readModels
    <2> QED
      BY <2>1, NothingPosted DEF Underway
  <1>5. CASE Deliver
    BY <1>5, DeliverKeepsLedger
  <1>6. CASE SagaTurn
    <2>1. channel' = channel /\ balances' = balances /\ inFlight' = inFlight
      BY <1>6, SagaIsInert DEF readModels, aggregates
    <2> QED
      BY <2>1, NothingPosted DEF Underway
  <1>7. CASE UNCHANGED vars
    <2>1. inFlight' = inFlight /\ channel' = channel /\ balances' = balances
      BY <1>7 DEF vars, channels, readModels
    <2> QED
      BY <2>1, NothingPosted DEF Underway
  <1> QED
    BY <1>1, <1>2, <1>3, <1>4, <1>5, <1>6, <1>7, <1>8 DEF Next

(* At the start every balance is zero. *)
LEMMA InitLedger ==
    ASSUME Init
    PROVE  LedgerInv
  <1>1. balances = [a \in Accounts |-> 0] /\ inFlight = {} /\ channel = <<>>
    BY DEF Init
  <1>2. SumOf(balances, Accounts) = 0
    <2>1. \A a \in Accounts : balances[a] = 0
      BY <1>1
    <2> QED
      BY <2>1, OrderFlowsAssumption, SumOfZeros
  <1>3. Underway = {}
    BY <1>1 DEF Underway, ToSet
  <1> QED
    BY <1>1, <1>2, <1>3 DEF LedgerInv, BalancesSumToZero

(***************************************************************************)
(* AccountBalancesProjection: the balances of the accounts add up to zero  *)
(* for any entries, accounts and order of publication, although the loop   *)
(* may skip entries, since handle_post lets only balanced ones through.    *)
(***************************************************************************)
THEOREM BalancesBalance == Spec => []BalancesSumToZero
  <1>1. Init => LedgerInv
    BY InitLedger
  <1>2. FlowInv /\ LedgerInv /\ [Next]_vars => LedgerInv'
    BY NextLedger
  <1>3. LedgerInv => BalancesSumToZero
    BY DEF LedgerInv
  <1> QED
    BY <1>1, <1>2, <1>3, FlowInvariance, PTL DEF Spec

(* Every variable of the order flows keeps its type, the balances too. *)
THEOREM FlowTypes == Spec => []TypeOK
  <1>1. Init => LedgerInv
    BY InitLedger
  <1>2. FlowInv /\ LedgerInv /\ [Next]_vars => LedgerInv'
    BY NextLedger
  <1>3. FlowInv /\ LedgerInv => TypeOK
    BY DEF FlowInv, LedgerInv, TypeOK
  <1> QED
    BY <1>1, <1>2, <1>3, FlowInvariance, PTL DEF Spec

=============================================================================
