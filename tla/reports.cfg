SPECIFICATION Spec
CONSTANTS
  i1 = i1 i2 = i2 o1 = o1 c1 = c1 k1 = k1 n1 = n1
  Invoices = {i1, i2}
  Orders = {o1}
  Parties = {c1}
  Keys = {k1}
  NoKey = NoKey
  Names = {n1}
  BlankName = BlankName
  Deltas <- MCDeltas
  MaxI64 = 3
  MaxU64 = 4
  MaxValue = 3
  InvoiceLines <- MCInvoiceLines
  Amounts = {1, 2}
  Costs = {2}
  MaxEvents = 4
INVARIANTS
  ReceivablesAgree
  OpenCountExact
  ValuationExact
CHECK_DEADLOCK FALSE
