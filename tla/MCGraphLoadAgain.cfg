SPECIFICATION Spec
CONSTANTS
    Order <- MCOrder
    Layouts <- MCLayouts
    Meaning <- MCMeaning
    Type <- MCType
    Workers = {1, 2}
    Commands = {"batch-load-parsed"}
    MaxCommands = 3
    MaxFaults = 0
INVARIANTS WriteIsRepeatable
CHECK_DEADLOCK FALSE
