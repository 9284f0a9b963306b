SPECIFICATION Spec
CONSTANTS
    Scenarios <- MCScenarios
    InCap = 1
    OutCap = 1
    QueueCap = 2
    MaxRestarts = 1
    Deadline = 2
    Sizes = {1, 2}
INVARIANTS HeldIsWhole OneReader InputKeepsItsOrder
PROPERTIES FaultIsMended
CHECK_DEADLOCK FALSE
