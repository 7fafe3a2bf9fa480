SPECIFICATION Spec
CONSTANTS
  o1 = o1 i1 = i1 p1 = p1 cash = cash sales = sales
  Orders = {o1}
  Invoices = {i1}
  Purchases = {p1}
  Accounts = {cash, sales}
  MaxU64 = 7
  SalesLines <- MCSalesLines
  Bodies <- MCBodies
  Quantities = {0, 1}
  Amounts = {0, 1, 2}
  Entries <- MCEntries
  BusMayFail = TRUE
  MaxInFlight = 2
  MaxQueued = 1
  MaxStreams = 2
  MaxEvents = 5
INVARIANTS
  PaymentsBounded
  InvoiceModelsAgree
  CaughtUpRowsMatch
  BalancesSumToZero
  CreatedIsComplete
CHECK_DEADLOCK FALSE
