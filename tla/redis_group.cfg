SPECIFICATION Spec
CONSTANTS
  k1 = k1 k2 = k2 c1 = c1 c2 = c2
  Keys = {k1, k2}
  Names = {c1, c2}
  Filter <- OneTenant
  Replicas = 2
  BatchSize = 2
  MaxRetries = 2
  MaxEvents = 2
  MaxQueued = 1
  MaxUnpublished = 1
  MaxLostReplies = 1
  MaxStops = 1
INVARIANTS
  AppliedOnce
CHECK_DEADLOCK FALSE
