CONSTANTS
    g1 = g1
    g2 = g2
    u = u
    v = v
    w = w
    org = org
    r1 = r1
    r2 = r2
    Agents = {g1}
    Org = org
    Edits = {u}
    ScopeOf <- MCScopeOf
    Attaches = {}
    Seeded = {org}
    Readers = {r1, r2}
    ReadsFor <- MCReadsFor
SPECIFICATION PolicySpec
INVARIANT ServedIsCurrent
CHECK_DEADLOCK FALSE
