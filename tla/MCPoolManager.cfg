CONSTANTS
    r1 = r1
    r2 = r2
    r3 = r3
    Requests = {r1, r2, r3}
    IdleSecs = 1
    MaxNow = 4
    MaxBuilds = 2
SPECIFICATION FairSpec
INVARIANTS
    PoolInUseIsLive
    NoPoolLeftBehind
PROPERTY ShutdownCompletes
\* The process really stops: nothing happens after main has returned.
CHECK_DEADLOCK FALSE
