\* Two tenants whose events do not fit into one claim.
SPECIFICATION FairSpec
CONSTANTS
    Event <- MCEvents
    Worker = {w1, w2}
    Tenant = {"acme", "globex"}
    TenantOf <- MCTwoTenants
    Batch = 1
    Lease = 2
    MaxAttempts = 2
    Backoff <- MCBackoff
    UnconfiguredDelay = 1
    Retention = 1
    Timely = TRUE
    MaxAborts = 1
    MaxResends = 1
PROPERTIES EverySettles
