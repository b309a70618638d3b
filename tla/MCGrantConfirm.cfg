CONSTANTS
    Clerks = {q1, q2, q3}
    MaxKeys = 2
    MaxDeploys = 1
    MaxOthers = 0
SPECIFICATION KeysSpec
INVARIANT NoBlindPromote
CHECK_DEADLOCK FALSE
