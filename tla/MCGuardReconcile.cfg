CONSTANTS
    a = a
    b = b
    c = c
    k1 = k1
    k2 = k2
    w1 = w1
    w2 = w2
    NoDecision = NoDecision
    Decisions = {a, b}
    Keys = {k1, k2}
    KeyOf <- OwnKeys
    Request <- OneRequest
    Kind <- DeployAndX402
    Workers = {w1, w2}
    Revokers = {"r1"}
    Events = {"refusal", "lostAnswer", "redeem"}
    MaxPaid = 1
    Amount <- UnitAmount
    Total <- UnitTotal
    Teardowns = {}
    SpendCap = 1
    VelocityLimit = 2
    WindowHours = 1
    MaxHour = 1
    MaxFloat = 1
SPECIFICATION Spec
SYMMETRY WorkerSymmetry
INVARIANTS
    SettledWasPaid
    SpendWithinCap
PROPERTIES
    ImplementsLifecycle
CHECK_DEADLOCK FALSE
