\* A cooldown of a second and a half, as in the breaker's own tests.
CONSTANTS
    c1 = c1
    c2 = c2
    c3 = c3
    Callers = {c1, c2, c3}
    FailureThreshold = 2
    Cooldown = 3
    TicksPerSec = 2
    MaxGeneration = 9
SPECIFICATION Spec
SYMMETRY CallerSymmetry
INVARIANTS
    IndInv
    ProbeAfterCooldown
    RetryAfterSuffices
PROPERTY ImplementsPromise
