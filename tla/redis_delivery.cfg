SPECIFICATION FairSpec
CONSTANTS
  k1 = k1 k2 = k2 c1 = c1 c2 = c2
  Keys = {k1}
  Names = {c1, c2}
  Filter <- AllKeys
  Replicas = 1
  BatchSize = 3
  MaxRetries = 2
  MaxEvents = 4
  MaxQueued = 1
  MaxUnpublished = 0
  MaxLostReplies = 1
  MaxStops = 1
PROPERTIES
  EveryEntryReceived
  CatchesUp
CHECK_DEADLOCK FALSE
