SPECIFICATION Spec
CONSTANTS
    Uids = {u1, u2, u3}
    PlayerLvs = {1, 5}
    Integrals = {1, 2}
    Top = 3
    Dan <- TwoDans
    MidLoad = 2
    HighLoad = 3
    Interval <- RoundTimes
    Patience <- WaitTimes
    Limit = 4
    MaxCount = 4
INVARIANT OneTicket
INVARIANT LevelsDescend
INVARIANT CountCovers
PROPERTY NoPairLeft
PROPERTY WaiterServed
