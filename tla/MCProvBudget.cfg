CONSTANTS
    x = x
    y = y
    z = z
    g1 = g1
    g2 = g2
    NoAllocation = NoAllocation
    Allocations = {x, y, z}
    Agents = {g1, g2}
    AgentOf <- MCAgentOf
    Amount <- MCAmount
    Total <- MCTotal
    FundedOnChain = {x}
    AssumesFinality = TRUE
    TotalBudget = 4
    Sweeps = {"s1", "s2"}
    Teardowns = {}
    TornDown <- MCTornDown
    MaxFunded = 3
    Faults = {"submitFails", "fundingFails", "halt"}
SPECIFICATION Spec
INVARIANTS
    WithinCeilings
    PromotedOnce
CHECK_DEADLOCK FALSE
