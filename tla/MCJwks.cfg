\* Two lookups; a refresh of two slow requests lasts as long as the refresh period.
CONSTANTS
    l1 = l1
    l2 = l2
    Lookups = {l1, l2}
    None = None
    RefreshAfter = 4
    ForcedInterval = 2
    FetchMax = 2
SPECIFICATION Spec
INVARIANT KeysAccounted
PROPERTIES
    ForcedRefreshesSpaced
    ServedKeyIsRecent
    UnknownKeyIsExplained
    LookupsEnd
