SPECIFICATION Spec
CONSTANTS
    Packets = 3
    MaxLen = 2
    Room = 1
INVARIANT SentInOrder
