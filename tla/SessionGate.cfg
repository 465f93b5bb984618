SPECIFICATION Spec
CONSTANTS
    Conns = {c1, c2, c3}
    Users = {u1, u2}
    GuestIdLimit = 2
    Granted = {1}
    MaxVerify = 2
    MaxQueue = 2
    NoConn = NoConn
    NoUser = NoUser
SYMMETRY Symm
VIEW View
INVARIANT TypeOK
INVARIANT Indexed
INVARIANT LoginNotOvertaken
PROPERTY TakeoverClosesOld
PROPERTY LeaversReported
