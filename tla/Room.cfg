SPECIFICATION Spec
CONSTANTS
    u1 = u1
    u2 = u2
    u3 = u3
    b1 = b1
    b2 = b2
    Uids = {u1, u2, u3}
    Battles = {b1, b2}
    Entrants <- CommonPlayer
    PrepareExpire = 2
    LoadingExpire = 3
    ReadyExpire = 2
    NoBattle = NoBattle
INVARIANT TypeOK
INVARIANT FoundHasJoined
INVARIANT StartedWithBoth
INVARIANT ReadyStarts
PROPERTY NeverBack
PROPERTY EveryRoomEnds
