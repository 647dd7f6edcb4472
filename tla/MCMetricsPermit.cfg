CONSTANTS
    r1 = r1
    r2 = r2
    r3 = r3
    Requests = {r1, r2, r3}
    Free = Free
    MaxConnections = 2
    MaxWaiters = 1
    FailureThreshold = 1
    Cooldown = 1
    TicksPerSec = 1
    MaxGeneration = 3
SPECIFICATION MetricsSpec
SYMMETRY RequestSymmetry
INVARIANT PermitGaugeSettles
