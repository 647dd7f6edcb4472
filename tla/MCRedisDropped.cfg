\* Two requests on one client; handlers are dropped at any await.
CONSTANTS
    r1 = r1
    r2 = r2
    c1 = c1
    None = None
    Requests = {r1, r2}
    Pings = {}
    Clients = {c1}
    Length = 2
    DropsAt = {"locking", "plain", "multi", "queue", "discard", "exec"}
SPECIFICATION Spec
INVARIANT NoTransactionLeftBehind
