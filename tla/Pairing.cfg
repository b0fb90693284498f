CONSTANTS
    k1 = k1
    k2 = k2
    p1 = p1
    p2 = p2
    Codes = {k1, k2}
    Callers = {p1, p2}
    NoCode = NoCode
    NoToken = NoToken
    Serialised = TRUE
    Life = 1
    MaxClock = 1
    Kinds = {"pair", "stop"}
    MaxCrashes = 1
SPECIFICATION Spec
INVARIANTS TypeOK OneTokenPerCode HookStoredOnce
PROPERTIES CallsEnd
CHECK_DEADLOCK FALSE
