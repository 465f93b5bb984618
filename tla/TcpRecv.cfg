SPECIFICATION Spec
CONSTANTS
    HeadSize = 2
    BuffSize = 4
    MaxPkgLen = 6
    MaxLen = 6
    Packets = 3
INVARIANT Contiguous
INVARIANT HalfLacks
PROPERTY DeliversStream
CHECK_DEADLOCK FALSE
