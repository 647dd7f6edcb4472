\* One request more than there are permits; a bucket that two requests empty.
CONSTANTS
    r1 = r1
    r2 = r2
    r3 = r3
    Requests = {r1, r2, r3}
    MaxInFlight = 2
    Capacity = 2
    MaxCommands = 2
SPECIFICATION Spec
INVARIANTS
    IndInv
    OnlyPaidAndAllowed
    FreeParsesBounded
PROPERTY RefusalsChangeNothing
