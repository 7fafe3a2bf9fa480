SPECIFICATION Spec
CONSTANTS
  r1 = r1 r2 = r2 r3 = r3 alice = alice bob = bob carol = carol
  k1 = k1 k2 = k2
  Keys = {k1, k2}
  NoKey = NoKey
  Names = {Widget, BlankName}
  BlankName = BlankName
  Widget = Widget
  Deltas <- SmallDeltas
  MaxI64 = 3
  Requests = {r1, r2, r3}
  Clients = {alice, bob, carol}
  ClientOf <- OneEach
  RetryOn = {"Concurrency", "Publish"}
  BusMayFail = TRUE
  MaxAttempts = 2
INVARIANTS
  TypeOK
  EventsDecidedOnCurrentState
  StockNeverNegative
  CommitsRepeatOnlyAfterPublish
  ReplyTellsOutcome
  ReadModelIsAPrefix
PROPERTIES
  ImplementsSerial
CHECK_DEADLOCK FALSE
