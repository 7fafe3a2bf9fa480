SPECIFICATION HostSpec
CONSTANTS
  r1 = r1 r2 = r2 r3 = r3 alice = alice
  k1 = k1
  Keys = {k1}
  NoKey = NoKey
  Names = {Widget, BlankName}
  BlankName = BlankName
  Widget = Widget
  Deltas <- SmallDeltas
  MaxI64 = 3
  Requests = {r1, r2, r3}
  Clients = {alice}
  ClientOf <- AllAlice
  RetryOn = {"Concurrency"}
  BusMayFail = FALSE
  MaxAttempts = 2
  MaxRetries = 1
PROPERTIES
  ReadModelCatchesUp
  InsightFollows
CHECK_DEADLOCK FALSE
