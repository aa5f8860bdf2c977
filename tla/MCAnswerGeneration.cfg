CONSTANTS
    u1 = u1
    u2 = u2
    u3 = u3
    Units = {u1, u2, u3}
    Paths <- MCPaths
    UnitInfo <- MCUnitInfo
    PathInfo <- MCPathInfo
    Anchors <- MCAnchors
    Budgets = {0, 2, 4}
    MaxUnits = 2
    MaxRetries = 1
    Candidates <- MCCandidates
SPECIFICATION Spec
INVARIANTS
    NoDeadEnd
    ProjectionIsComplete
    OperandCovered
    ProviderBudget
    AnswerIsSupported
