SPECIFICATION FairSpec
CONSTANTS
  c1 = c1 c2 = c2 k1 = k1 item = item order = order
  Keys = {k1}
  Types = {item, order}
  Calls = {c1, c2}
  BatchLen <- TwoTwo
  AnyVersion = AnyVersion
  MayBreak = TRUE
  MaxTries = 2
INVARIANTS
  StreamsWhole
  ReplyTellsOutcome
PROPERTIES
  ImplementsLog
  CallsReturn
CHECK_DEADLOCK FALSE
