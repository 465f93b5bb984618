SPECIFICATION Spec
CONSTANTS
    Packets = 4
    MaxLen = 3
    Room = 2
INVARIANT Conserved
INVARIANT PendingArmed
PROPERTY EverythingArrives
