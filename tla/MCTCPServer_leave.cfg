SPECIFICATION FairSpec
CONSTANTS
    Conn = {c1, c2}
    Sock = {s1, s2}
    NoConn = NoConn
    ListenHandle = ListenHandle
    INVALID_SOCKET = INVALID_SOCKET
    WordSize = 2
    MaxSend = 2
    Kinds = {"ALIVE"}
    Senders = {c1}
    Leavers = {c1}
    ClientMay = {"skip", "silence"}
    NodeMax = 2
    ConnectionMax = 3
    FdArrayMax = 3
PROPERTY ClosedHandleDropped
PROPERTY LeaversReleased
ACTION_CONSTRAINT LeaveStep
CHECK_DEADLOCK FALSE
