CONSTANTS
    x = x
    y = y
    z = z
    g1 = g1
    g2 = g2
    NoAllocation = NoAllocation
    Allocations = {x, y}
    Agents = {g1, g2}
    AgentOf <- MCAgentOf
    Amount <- MCAmount
    Total <- MCTotal
    FundedOnChain = {x, y}
    AssumesFinality = FALSE
    TotalBudget = 3
    Sweeps = {"s1"}
    Teardowns = {"t1"}
    TornDown <- MCTornDown
    MaxFunded = 3
    Faults = {"submitFails", "fundingFails"}
SPECIFICATION FairSpec
INVARIANTS
    CountersMatchAllocations
    FloatIsBacked
    FloatIsCovered
    QuietIsSettled
PROPERTIES
    FinalDepositsResolve
CHECK_DEADLOCK FALSE
