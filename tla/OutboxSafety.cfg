\* Overlapping runs, aborts and resends, with every turn within its unit.
SPECIFICATION Spec
CONSTANTS
    Event <- MCEvents
    Worker = {w1, w2}
    Tenant = {"acme"}
    TenantOf <- MCTenantOf
    Batch = 2
    Lease = 3
    MaxAttempts = 2
    Backoff <- MCBackoff
    UnconfiguredDelay = 2
    Retention = 1
    Timely = TRUE
    MaxAborts = 1
    MaxResends = 1
INVARIANTS TypeOK Exclusive LeaseCoversQueue DeliveredWasReceived
PROPERTIES OnlyOwedIsSent OnlyResendRevives RetriesRunOut ImplementsDelivery
