CONSTANTS
    Emails = {e1}
    Subs = {s1, s2}
    Callers = {q1, q2, q3}
    MaxTokens = 2
    Users = {u1, u2}
    Keys = {k1, k2}
    Desk = {q1, q2, q3}
    MaxInvites = 2
    Clerks = {q1, q2, q3}
    MaxKeys = 2
    MaxDeploys = 2
    MaxOthers = 1
    Canvases <- Drawn
    OrgSpend <- OrgPolicy
    Deploys = {y1, y2}
    Conns = {c1, c2}
    Refs = {n1, n2}
    Txs = {h1, h2}
    Tellers = {q1, q2, q3}
SPECIFICATION ControlSpec
SYMMETRY Symmetric
INVARIANTS
    AccountsAreBacked
    ResetEndsOlderSessions
    JoinsAreInvited
    RevokedKeysStayOut
    OwnerLostOnlyInRace
    VaultServesActive
    PromotionsAreEvidenced
    NoKeyManagesAlone
    FleetsAreEnforced
    CreditedOnce
    CreditsSurviveUnmixed
CHECK_DEADLOCK FALSE
