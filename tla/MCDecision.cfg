CONSTANTS
    p1 = p1
    p2 = p2
    p3 = p3
    Payments = {p1, p2, p3}
    Amount <- MCAmount
    Total <- MCTotal
    FloatBacked <- MCFloatBacked
    Teardowns = {t1, t2}
    SpendCap = 3
    VelocityLimit = 1
    WindowHours = 2
    MaxHour = 3
    MaxFloat = 3
    g1 = g1
    g2 = g2
    u = u
    v = v
    w = w
    org = org
    Agents = {g1, g2}
    Org = org
    Edits = {u, v, w}
    ScopeOf <- MCScopeOf
    Attaches = {v}
    Seeded = {org, g1}
    Readers = {r1}
    ReadsFor <- MCReadsFor
    Deployments <- Deployed
    Jobs = {w1, w2}
    TxHashes = {h1, h2}
    MaxTries = 2
    MaxAttempts = 2
    MaxTakeovers = 1
SPECIFICATION DecisionSpec
SYMMETRY Symmetric
INVARIANTS
    CounterMatchesHolds
    HoldsAreCounted
    CapPerWindow
    VelocityPerHour
    HoldsWithinFloat
    BlobMatchesEpoch
    ServedIsCurrent
    AnchorsAgree
    OneSubmitter
    AttemptsPrecedeEffects
    MovedOnce
PROPERTIES
    SettledStaysCounted
CHECK_DEADLOCK FALSE
