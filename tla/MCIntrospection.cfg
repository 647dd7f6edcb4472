\* Three requests, so that two overlap and a third finds what they left; one
\* cache entry less than tokens.
CONSTANTS
    r1 = r1
    r2 = r2
    r3 = r3
    t1 = t1
    t2 = t2
    Requests = {r1, r2, r3}
    Tokens = {t1, t2}
    None = None
    MaxEntries = 1
    Ttl = 2
    AskMax = 1
    Lag = 1
    MaxNow = 4
SPECIFICATION Spec
SYMMETRY Symmetry
INVARIANT CacheConsistent
PROPERTY VerdictIsRecent
