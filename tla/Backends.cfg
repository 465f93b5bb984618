SPECIFICATION Spec
CONSTANTS
    GroupNum = 2
    MaxUpdates = 2
    MaxNum = 2
    MaxConns = 5
    MaxFaults = 2
CHECK_DEADLOCK FALSE
INVARIANT HeldByCount
INVARIANT WholeGroups
INVARIANT SafeAlone
PROPERTY InstalledAlone
