\* Two clients for two requests and a PING. Handlers are dropped outside
\* transactions only, connections replaced at any time.
CONSTANTS
    r1 = r1
    r2 = r2
    p1 = p1
    c1 = c1
    c2 = c2
    None = None
    Requests = {r1, r2}
    Pings = {p1}
    Clients = {c1, c2}
    Length = 2
    DropsAt = {"locking", "plain"}
SPECIFICATION Spec
INVARIANTS
    NoTransactionLeftBehind
    OperationsKeptApart
    AtomicUnlessReplaced
PROPERTY OperationsEnd
