SPECIFICATION Spec
CONSTANTS
    Users = {u1, u2, u3}
    MaxUnions = 1
    MemberLimit <- Lim
    ViceChairmanNum <- Vice
    AuditTime = 1
    ApplyCD = 1
    MaxPending = 2
    None = None
SYMMETRY Symm
INVARIANT OneChairman
PROPERTY GrowsWithinLimit
CHECK_DEADLOCK FALSE
