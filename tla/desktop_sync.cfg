CONSTANTS
    Cmds = {1}
    Tenants = {"t1", "t2"}
    TenantOf <- MCTenantOf
    ItemOf <- MCItemOf
    MaxRetries = 1
    MaxApplied = 3
    MaxSyncs = 1
    MaxFaults = 1
SPECIFICATION Spec
INVARIANT SyncedIsApplied
INVARIANT TwiceForAReason
INVARIANT AcceptedIsKept
CHECK_DEADLOCK FALSE
