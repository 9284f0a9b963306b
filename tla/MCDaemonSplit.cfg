SPECIFICATION MCSpec
CONSTANTS
    c1 = c1
    c2 = c2
    Callers = {c1, c2}
    Daemons = {1, 2, 3}
    MaxInodes = 4
    DmScenarios <- RestartScenarios
    k1 = k1
    k2 = k2
    Kids = {k1, k2}
    Pids = {1, 2}
    KidScenarios <- NoKids
INVARIANT OneDaemon
CHECK_DEADLOCK FALSE
