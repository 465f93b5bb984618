SPECIFICATION FlowSpec
CONSTANTS
    Conns = {c1, c2}
    Users = {u1}
    GuestIdLimit = 2
    Granted = {1}
    MaxVerify = 1
    MaxQueue = 2
    Delay = 1
    MaxPending = 2
    NoConn = NoConn
    NoUser = NoUser
PROPERTY ReturnedIsKept
