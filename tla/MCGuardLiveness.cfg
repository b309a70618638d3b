CONSTANTS
    a = a
    b = b
    c = c
    k1 = k1
    k2 = k2
    w1 = w1
    w2 = w2
    NoDecision = NoDecision
    Decisions = {a, b}
    Keys = {k1}
    KeyOf <- OneKey
    Request <- OneRequest
    Kind <- AllX402
    Workers = {w1}
    Revokers = {"r1"}
    Events = {"lockExpiry", "halt"}
    MaxPaid = 1
    Amount <- UnitAmount
    Total <- UnitTotal
    Teardowns = {}
    SpendCap = 1
    VelocityLimit = 1
    WindowHours = 2
    MaxHour = 0
    MaxFloat = 1
SPECIFICATION FairSpec
PROPERTIES
    RequestsEnd
CHECK_DEADLOCK FALSE
