SPECIFICATION FairSpec
CONSTANTS
  o1 = o1 i1 = i1 p1 = p1 cash = cash sales = sales
  Orders = {o1}
  Invoices = {i1}
  Purchases = {}
  Accounts = {cash, sales}
  MaxU64 = 7
  SalesLines <- MCSalesLines
  Bodies <- MCBodies
  Quantities = {0, 1}
  Amounts = {0, 1, 2}
  Entries <- MCEntries
  BusMayFail = FALSE
  MaxInFlight = 2
  MaxQueued = 1
  MaxStreams = 2
  MaxEvents = 5
PROPERTY ConfirmedIsInvoiced
CHECK_DEADLOCK FALSE
