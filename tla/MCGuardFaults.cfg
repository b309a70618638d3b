CONSTANTS
    a = a
    b = b
    c = c
    k1 = k1
    k2 = k2
    w1 = w1
    w2 = w2
    NoDecision = NoDecision
    Decisions = {a, b}
    Keys = {k1}
    KeyOf <- OneKey
    Request <- OneRequest
    Kind <- AllTrades
    Workers = {w1}
    Revokers = {"r1"}
    Events = {"refusal", "lockExpiry", "halt", "storeError", "suspend"}
    MaxPaid = 2
    Amount <- UnitAmount
    Total <- UnitTotal
    Teardowns = {"t1"}
    SpendCap = 2
    VelocityLimit = 2
    WindowHours = 2
    MaxHour = 0
    MaxFloat = 1
SPECIFICATION Spec
INVARIANTS
    InFlightIsHeld
    NeverSettledAndReleased
CHECK_DEADLOCK FALSE
