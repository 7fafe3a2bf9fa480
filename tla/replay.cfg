CONSTANTS
    Aggs = {1, 2}
    Projections = {"inventory"}
    TypeOf <- MCTypeOf
    Jobs = {"r1"}
    PageSize = 1
    MaxEvents = 3
    MaxInbox = 2
    MaxFaults = 1
SPECIFICATION Spec
PROPERTY RebuildRestores
PROPERTY ReplayEnds
CHECK_DEADLOCK FALSE
