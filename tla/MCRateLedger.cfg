\* One identity more than buckets; requests that fit and requests that put the
\* bucket into debt; two ticks to the second, so that Retry-After rounds.
CONSTANTS
    k1 = k1
    k2 = k2
    k3 = k3
    t1 = t1
    t2 = t2
    Keys = {k1, k2, k3}
    Threads = {t1, t2}
    Rate = 2
    MaxBuckets = 2
    IdleEviction = 2
    Counts = {0, 5}
    MaxNow = 3
    MaxOrder = 3
SPECIFICATION LedgerSpec
SYMMETRY KeyThreadSymmetry
INVARIANTS
    BucketsAccounted
    NobodyOvercharged
    LimitHolds
    RetryAfterSuffices
PROPERTY DebtIsNotForgotten
