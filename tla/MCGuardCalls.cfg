CONSTANTS
    a = a
    b = b
    c = c
    k1 = k1
    k2 = k2
    w1 = w1
    w2 = w2
    NoDecision = NoDecision
    Decisions = {a, b, c}
    Keys = {k1}
    KeyOf <- OneKey
    Request <- TwoRequests
    Kind <- AllX402
    Workers = {w1}
    Revokers = {}
    Events = {"refusal", "lockExpiry", "killSwitch"}
    MaxPaid = 1
    Amount <- UnitAmount
    Total <- UnitTotal
    Teardowns = {}
    SpendCap = 2
    VelocityLimit = 2
    WindowHours = 2
    MaxHour = 1
    MaxFloat = 2
SPECIFICATION Spec
INVARIANTS
    OneAllowPerKey
    QuietIsClean
CHECK_DEADLOCK FALSE
