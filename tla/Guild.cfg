SPECIFICATION Spec
CONSTANTS
    Users = {u1, u2}
    MaxUnions = 2
    MemberLimit <- LimOne
    ViceChairmanNum <- ViceOne
    AuditTime = 1
    ApplyCD = 1
    MaxPending = 3
    None = None
SYMMETRY Symm
INVARIANT TypeOK
INVARIANT MembershipAgrees
INVARIANT CopySafe
CHECK_DEADLOCK FALSE
